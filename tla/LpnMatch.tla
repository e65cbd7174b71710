------------------------------ MODULE LpnMatch ------------------------------
(***************************************************************************)
(* Finding the entry of a vehicle whose plate has no entry record at the   *)
(* exit (operation::PBSExit, getMaxSimilarity, getDigitFromString): the    *)
(* plate read at the exit is compared with the plate of every entry that   *)
(* is still open, by all its characters and by its digits alone, and the   *)
(* best row by digits, else the best by all characters, is taken when it   *)
(* reaches its threshold.                                                  *)
(*                                                                         *)
(* Plates are sequences of characters; which ones are digits is a          *)
(* constant.  A step looks at one row.                                     *)
(***************************************************************************)
EXTENDS Integers, Sequences, FiniteSetsExt

CONSTANTS
  Digits,          \* the characters that isdigit accepts
  Plates,          \* the plates that are read
  MaxRows,         \* bound: entries that are open
  DigitThreshold,  \* setting.DigitLpnMatchRateThreshold
  WholeThreshold   \* setting.WholeLpnMatchRateThreshold

ASSUME ThresholdsAssumption == DigitThreshold \in Nat /\ WholeThreshold \in Nat
ASSUME MaxRowsAssumption == MaxRows \in Nat \ {0}

VARIABLES
  exitLpn,       \* sIU
  entryRecords,  \* what fetchUnmatchedEntryInfo returned
  i,             \* rows looked at
  highestWhole, highestDigit,  \* highestWholeLpnMatchScore and ...Digit...
  matched,       \* the row taken for this exit; 0: none, or none yet
  done           \* the search is over

vars == <<exitLpn, entryRecords, i, highestWhole, highestDigit, matched, done>>

getDigitFromString(str) == SelectSeq(str, LAMBDA c : c \in Digits)

\* How many characters agree when source lies k characters into target.
TotalMatched(source, target, k) ==
  Cardinality({j \in DOMAIN source : source[j] = target[j + k]})

\* Mutation: the last offset is not tried.
SimilarityWithoutLast(a, b) ==
  LET source == IF Len(b) <= Len(a) THEN b ELSE a
      target == IF Len(b) <= Len(a) THEN a ELSE b
      best == Max({TotalMatched(source, target, k) :
                     k \in 0 .. (Len(target) - Len(source) - 1)} \cup {0})
  IN IF source = <<>> THEN 0 ELSE (200 * best + Len(source)) \div (2 * Len(source))

\* The percentage of the shorter string that agrees at the best offset,
\* rounded half up.
getMaxSimilarity(sEntryLPN, sExitLPN) ==
  LET exitIsShort == Len(sExitLPN) <= Len(sEntryLPN)
      source == IF exitIsShort THEN sExitLPN ELSE sEntryLPN
      target == IF exitIsShort THEN sEntryLPN ELSE sExitLPN
      best == Max({TotalMatched(source, target, k) :
                     k \in 0 .. (Len(target) - Len(source))})
  IN IF source = <<>> THEN 0 ELSE (200 * best + Len(source)) \div (2 * Len(source))

\* A row with its two rates; row 0 is the score the search starts with.
Score(row) ==
  [row |-> row,
   whole |-> getMaxSimilarity(entryRecords[row], exitLpn),
   digit |-> getMaxSimilarity(getDigitFromString(entryRecords[row]),
                              getDigitFromString(exitLpn))]

NoScore == [row |-> 0, whole |-> 0, digit |-> 0]

Init ==
  /\ exitLpn \in Plates
  /\ entryRecords \in UNION {[1 .. n -> Plates] : n \in 1 .. MaxRows}
  /\ i = 0 /\ matched = 0 /\ done = FALSE
  /\ highestWhole = NoScore /\ highestDigit = NoScore

-----------------------------------------------------------------------------
\* Mutation: a row that is only as good replaces the best one.
NotWorseByWhole(s, best) == s.whole >= best.whole

BetterByWhole(s, best) ==
  \/ s.whole > best.whole
  \/ s.whole = best.whole /\ s.digit > best.digit

\* The digit rate is compared with that of the best row by all characters,
\* the whole rate with that of the best row by digits.
TakenByDigit(s, bestWhole, bestDigit) ==
  \/ s.digit > bestWhole.digit
  \/ s.digit = bestWhole.digit /\ s.whole > bestDigit.whole

LookAtRow ==
  /\ i < Len(entryRecords)
  /\ i' = i + 1
  /\ LET s == Score(i + 1) IN
       /\ highestWhole' = IF BetterByWhole(s, highestWhole) THEN s ELSE highestWhole
       /\ highestDigit' = IF TakenByDigit(s, highestWhole', highestDigit) THEN s
                          ELSE highestDigit
  /\ UNCHANGED <<exitLpn, entryRecords, matched, done>>

\* Mutation: any row is better than none.
TakeAnyRow ==
  /\ i = Len(entryRecords) /\ ~done /\ done' = TRUE
  /\ matched' = IF highestDigit.digit >= DigitThreshold
                THEN highestDigit.row ELSE highestWhole.row
  /\ UNCHANGED <<exitLpn, entryRecords, i, highestWhole, highestDigit>>

TakeRow ==
  /\ i = Len(entryRecords) /\ ~done /\ done' = TRUE
  /\ matched' = CASE highestDigit.digit >= DigitThreshold -> highestDigit.row
                  [] highestDigit.digit < DigitThreshold
                     /\ highestWhole.whole > WholeThreshold -> highestWhole.row
                  [] OTHER -> 0
  /\ UNCHANGED <<exitLpn, entryRecords, i, highestWhole, highestDigit>>

Next == LookAtRow \/ TakeRow

Spec == Init /\ [][Next]_vars

-----------------------------------------------------------------------------
(***************************************************************************)
(* The similarity means what its name says: it does not depend on which    *)
(* of the two plates is the longer one, and it is 100 exactly when the     *)
(* shorter plate stands in the longer one (operation.cpp:3481-3544).       *)
(***************************************************************************)
StandsIn(a, b) == \E k \in 0 .. (Len(b) - Len(a)) : SubSeq(b, k + 1, k + Len(a)) = a

SimilarityFindsContainment ==
  \A row \in DOMAIN entryRecords :
    LET lpn == entryRecords[row]
        rate == getMaxSimilarity(lpn, exitLpn) IN
    /\ rate = getMaxSimilarity(exitLpn, lpn)
    /\ rate = 100 <=> StandsIn(lpn, exitLpn) \/ StandsIn(exitLpn, lpn)

(***************************************************************************)
(* The best row by all characters is the best of those looked at: none has *)
(* a higher rate, none of the same rate has more digits in common, and no  *)
(* earlier row is as good in both (operation.cpp:2502-2516).               *)
(***************************************************************************)
WholeScoreIsTheBest ==
  \A row \in 1 .. i :
    /\ ~BetterByWhole(Score(row), highestWhole)
    /\ row < highestWhole.row => BetterByWhole(highestWhole, Score(row))

(***************************************************************************)
(* A row is taken only when its own plate comes close enough, by digits or *)
(* by all characters, and no row that is close enough by all characters    *)
(* is left behind for none (operation.cpp:2535-2552).                      *)
(***************************************************************************)
MatchIsJustified ==
  /\ matched # 0 => \/ Score(matched).digit >= DigitThreshold
                    \/ Score(matched).whole > WholeThreshold
  /\ done /\ matched = 0 => \A row \in 1 .. i : Score(row).whole <= WholeThreshold

(***************************************************************************)
(* "Checks if the current digit match rate is STRICTLY higher than the max *)
(* found so far" (operation.cpp:2518): so no row that was looked at has a  *)
(* higher digit rate than the best one by digits.                          *)
(***************************************************************************)
DigitScoreIsTheBest ==
  \A row \in 1 .. i : Score(row).digit <= highestDigit.digit
=============================================================================
