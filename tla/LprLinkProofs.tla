--------------------------- MODULE LprLinkProofs ---------------------------
(***************************************************************************)
(* Proofs about LprLink, for any set of cameras and any number of faults:  *)
(* that the shared error state is justified, and that every link is sound. *)
(*                                                                         *)
(* The first needs the connect handlers only (IInv).  The second is a      *)
(* table of the states a link can be in by what waits for the thread       *)
(* (Good), what each operation of the client makes of a queue of at most   *)
(* one, that every handler and the network lead from Good to Good, and     *)
(* the composition over the cameras (LinkInv).                             *)
(***************************************************************************)
EXTENDS LprLink, TLAPS

\* The types of what the connect handlers share.
ReportTypes ==
  /\ last \in [Cameras -> BOOLEAN]
  /\ errNo \in {-1, 0} /\ told \in {"nothing", "LPR Error", "LPR OK"}
  /\ masked \subseteq Cameras

IInv == ReportTypes /\ ErrorIsShown

\* A step that does not end in a connect handler leaves the report alone.
LEMMA QuietStepKeepsIInv ==
  ASSUME IInv, UNCHANGED <<last, report>>
  PROVE  IInv'
  BY DEF IInv, ReportTypes, ErrorIsShown, report

\* The connect handler of one camera, whatever the others are at.
LEMMA ConnectHandlerKeepsIInv ==
  ASSUME IInv, NEW c \in Cameras, NEW success \in BOOLEAN,
         ConnectHandler(c, success)
  PROVE  IInv'
<1>1. last' \in [Cameras -> BOOLEAN] /\ last'[c] = success
      /\ \A d \in Cameras : d # c => last'[d] = last[d]
  BY DEF IInv, ReportTypes, ConnectHandler
<1>2. CASE success = last[c]
  <2>1. last' = last /\ UNCHANGED report
    BY <1>1, <1>2 DEF ConnectHandler, IInv, ReportTypes
  <2> QED
    BY <2>1, QuietStepKeepsIInv
<1>3. CASE success /\ ~last[c]
  <2>1. errNo' = 0 /\ masked' = {d \in Cameras : ~last'[d]}
        /\ told' = IF errNo < 0 THEN "LPR OK" ELSE told
    BY <1>3 DEF ConnectHandler, LPRNoError
  <2>2. told' \in {"nothing", "LPR OK"}
    <3>1. errNo < 0 <=> told = "LPR Error"
      BY DEF IInv, ErrorIsShown
    <3>2. told \in {"nothing", "LPR Error", "LPR OK"}
      BY DEF IInv, ReportTypes
    <3> QED
      BY <2>1, <3>1, <3>2
  <2>3. ReportTypes'
    BY <1>1, <2>1, <2>2 DEF ReportTypes
  <2>4. ~(errNo' < 0) /\ told' # "LPR Error"
    <3>1. ~(errNo' < 0)
      <4>1. errNo' = 0
        BY <2>1
      <4> QED
        BY <4>1, SMT
    <3> QED
      BY <2>2, <3>1
  <2>5. \A d \in Cameras : ~last'[d] => d \in masked'
    BY <2>1
  <2> QED
    BY <2>3, <2>4, <2>5 DEF IInv, ErrorIsShown
<1>4. CASE ~success /\ last[c]
  <2>1. errNo' = -1 /\ told' = "LPR Error" /\ masked' = {}
    BY <1>4 DEF ConnectHandler, LPRError
  <2>2. ReportTypes'
    BY <1>1, <2>1 DEF ReportTypes
  <2>3. errNo' < 0
    <3>1. errNo' = -1
      BY <2>1
    <3> QED
      BY <3>1, SMT
  <2>4. ~last'[c]
    BY <1>1, <1>4
  <2> QED
    BY <2>1, <2>2, <2>3, <2>4 DEF IInv, ErrorIsShown
<1> QED
  BY <1>2, <1>3, <1>4 DEF IInv, ReportTypes

LEMMA NextKeepsIInv == IInv /\ [Next]_vars => IInv'
<1> SUFFICES ASSUME IInv, [Next]_vars PROVE IInv'
  OBVIOUS
<1>1. ASSUME NEW c \in Cameras, HandlerRuns(c) PROVE IInv'
  <2>1. CASE Connected(c)
    BY <2>1, ConnectHandlerKeepsIInv DEF Connected
  <2>2. CASE Refused(c)
    BY <2>2, ConnectHandlerKeepsIInv DEF Refused
  <2>3. CASE Aborted(c)
    BY <2>3, ConnectHandlerKeepsIInv DEF Aborted
  <2>4. CASE Received(c)
    BY <2>4, QuietStepKeepsIInv DEF Received
  <2>5. CASE ReconnectTimer(c)
    BY <2>5, QuietStepKeepsIInv DEF ReconnectTimer
  <2> QED
    BY <1>1, <2>1, <2>2, <2>3, <2>4, <2>5 DEF HandlerRuns
<1>2. ASSUME NEW c \in Cameras, TimerExpires(c) \/ FnSendTransIDToLPR(c)
      PROVE  IInv'
  BY <1>2, QuietStepKeepsIInv DEF TimerExpires, FnSendTransIDToLPR
<1>3. ASSUME NEW c \in Cameras, Network(c) PROVE IInv'
  BY <1>3, QuietStepKeepsIInv DEF Network, ConnectSucceeds, ConnectFails,
     DataArrives, ReadFails, CameraFails, CameraReturns
<1>4. CASE UNCHANGED vars
  BY <1>4, QuietStepKeepsIInv DEF vars
<1> QED
  BY <1>1, <1>2, <1>3, <1>4 DEF Next

(***************************************************************************)
(* For any number of cameras and faults, the error slot the cameras share  *)
(* and the last report to the PMS are an error only while some camera is   *)
(* in error, and a camera's error is missing there only when another one's *)
(* recovery has withdrawn it.                                              *)
(***************************************************************************)
THEOREM ErrorStateIsJustified == SafeSpec => []ErrorIsShown
<1>1. Init => IInv
  BY DEF Init, IInv, ReportTypes, ErrorIsShown
<1>2. IInv => ErrorIsShown
  BY DEF IInv
<1> QED
  BY <1>1, <1>2, NextKeepsIInv, PTL DEF SafeSpec
\* Sequences of the same elements are the same.
LEMMA SameElements ==
  ASSUME NEW S, NEW s \in Seq(S), NEW t \in Seq(S), Len(s) = Len(t),
         \A i \in 1..Len(s) : s[i] = t[i]
  PROVE  s = t
  OBVIOUS

LEMMA SinglesAreEqual ==
  ASSUME NEW S, NEW s \in Seq(S), NEW t \in Seq(S), Len(s) = 1, Len(t) = 1, s[1] = t[1]
  PROVE  s = t
<1>1. \A i \in 1..1 : i = 1
  OBVIOUS
<1>2. \A i \in 1..Len(s) : s[i] = t[i]
  BY <1>1
<1> QED
  BY <1>2, SameElements

LEMMA PairsAreEqual ==
  ASSUME NEW S, NEW s \in Seq(S), NEW t \in Seq(S), Len(s) = 2, Len(t) = 2,
         s[1] = t[1], s[2] = t[2]
  PROVE  s = t
<1>1. \A i \in 1..2 : i = 1 \/ i = 2
  OBVIOUS
<1>2. \A i \in 1..Len(s) : s[i] = t[i]
  BY <1>1
<1> QED
  BY <1>2, SameElements

\* What becomes of a pair when it grows and shrinks.
LEMMA PairFacts ==
  ASSUME NEW S, NEW x \in S, NEW y \in S
  PROVE  /\ Append(<<x>>, y) = <<x, y>>
         /\ RemoveAt(<<x, y>>, 1) = <<y>> /\ RemoveAt(<<x, y>>, 2) = <<x>>
<1> DEFINE s == <<x, y>>
           a == Append(<<x>>, y)
<1>1. s \in Seq(S) /\ Len(s) = 2 /\ s[1] = x /\ s[2] = y
  OBVIOUS
<1>2. a \in Seq(S) /\ Len(a) = 2 /\ a[1] = x /\ a[2] = y
  OBVIOUS
<1>3. /\ <<x>> \in Seq(S) /\ Len(<<x>>) = 1 /\ <<x>>[1] = x
      /\ <<y>> \in Seq(S) /\ Len(<<y>>) = 1 /\ <<y>>[1] = y
  OBVIOUS
<1>4. a = s
  <2> HIDE DEF a, s
  <2> QED
    BY <1>1, <1>2, PairsAreEqual
<1>5. SubSeq(s, 1, 1) = <<x>> /\ SubSeq(s, 2, 2) = <<y>>
  <2> HIDE DEF s
  <2>1. /\ SubSeq(s, 1, 1) \in Seq(S) /\ Len(SubSeq(s, 1, 1)) = 1 /\ SubSeq(s, 1, 1)[1] = x
        /\ SubSeq(s, 2, 2) \in Seq(S) /\ Len(SubSeq(s, 2, 2)) = 1 /\ SubSeq(s, 2, 2)[1] = y
    BY <1>1
  <2> QED
    BY <1>3, <2>1, SinglesAreEqual
<1>6. SubSeq(s, 1, 0) = <<>> /\ SubSeq(s, 3, 2) = <<>>
  OBVIOUS
<1>7. <<>> \o <<y>> = <<y>> /\ <<x>> \o <<>> = <<x>>
  OBVIOUS
<1>8. Len(s) = 2 /\ 1 - 1 = 0 /\ 1 + 1 = 2 /\ 2 - 1 = 1 /\ 2 + 1 = 3
  BY <1>1
<1>9. RemoveAt(s, 1) = <<y>> /\ RemoveAt(s, 2) = <<x>>
  <2> HIDE DEF s
  <2> QED
    BY <1>5, <1>6, <1>7, <1>8 DEF RemoveAt
<1> QED
  BY <1>4, <1>9

-----------------------------------------------------------------------------
(* The queue of a link.  Never more than two completions wait in it, the   *)
(* expiry of the timer included: x and y, "none" when there is none.       *)

Waiting == Completions \cup {"timer"}
Slots == Waiting \cup {"none"}

Queue(x, y) == IF x = "none" THEN <<>> ELSE IF y = "none" THEN <<x>> ELSE <<x, y>>

\* Equal tuples have equal components; the provers are given the others.
LEMMA QueueFacts ==
  ASSUME NEW x \in Slots, NEW y \in Slots, x = "none" => y = "none"
  PROVE  /\ Queue(x, y) \in Seq(Waiting)
         /\ Len(Queue(x, y)) = IF x = "none" THEN 0 ELSE IF y = "none" THEN 1 ELSE 2
         /\ Queue(x, y) = <<>> <=> x = "none"
         /\ x # "none" => Queue(x, y)[1] = x
         /\ y # "none" => Queue(x, y)[2] = y
<1>1. CASE x = "none"
  BY <1>1 DEF Queue
<1>2. CASE x # "none" /\ y = "none"
  BY <1>2 DEF Queue, Slots
<1>3. CASE x # "none" /\ y # "none"
  BY <1>3 DEF Queue, Slots
<1> QED
  BY <1>1, <1>2, <1>3

\* The slots of a queue of at most one after one more has come.
First(z, e) == IF z = "none" THEN e ELSE z
Second(z, e) == IF z = "none" THEN "none" ELSE e

LEMMA QueueAppend ==
  ASSUME NEW z \in Slots, NEW e \in Waiting
  PROVE  /\ Append(Queue(z, "none"), e) = Queue(First(z, e), Second(z, e))
         /\ First(z, e) \in Slots /\ Second(z, e) \in Slots
<1>0. e # "none"
  BY DEF Waiting, Completions
<1>1. CASE z = "none"
  BY <1>0, <1>1 DEF Queue, First, Second, Slots
<1>2. CASE z # "none"
  BY <1>0, <1>2, PairFacts DEF Queue, First, Second, Slots
<1> QED
  BY <1>1, <1>2

LEMMA QueueTail ==
  ASSUME NEW x \in Waiting, NEW y \in Slots
  PROVE  Head(Queue(x, y)) = x /\ Tail(Queue(x, y)) = Queue(y, "none")
<1>0. x # "none"
  BY DEF Waiting, Completions
<1>1. CASE y = "none"
  BY <1>0, <1>1 DEF Queue
<1>2. CASE y # "none"
  BY <1>0, <1>2 DEF Queue
<1> QED
  BY <1>1, <1>2

LEMMA QueueRemove ==
  ASSUME NEW x \in Waiting, NEW y \in Slots
  PROVE  /\ RemoveAt(Queue(x, y), 1) = Queue(y, "none")
         /\ y # "none" => RemoveAt(Queue(x, y), 2) = Queue(x, "none")
<1>0. x # "none"
  BY DEF Waiting, Completions
<1>1. CASE y = "none"
  <2>1. Queue(x, y) = <<x>> /\ Queue(y, "none") = <<>>
    BY <1>0, <1>1 DEF Queue
  <2>2. SubSeq(<<x>>, 1, 0) = <<>> /\ SubSeq(<<x>>, 2, 1) = <<>>
    OBVIOUS
  <2>3. RemoveAt(<<x>>, 1) = <<>>
    BY <2>2 DEF RemoveAt
  <2> QED
    BY <1>1, <2>1, <2>3
<1>2. CASE y # "none"
  BY <1>0, <1>2, PairFacts DEF Queue, Slots
<1> QED
  BY <1>1, <1>2

LEMMA QueueContains ==
  ASSUME NEW x \in Slots, NEW y \in Slots, x = "none" => y = "none"
  PROVE  Contains(Queue(x, y), "timer") <=> x = "timer" \/ y = "timer"
<1>1. CASE x = "none"
  BY <1>1, QueueFacts DEF Contains
<1>2. CASE x # "none" /\ y = "none"
  BY <1>2, QueueFacts DEF Contains
<1>3. CASE x # "none" /\ y # "none"
  BY <1>3, QueueFacts DEF Contains
<1> QED
  BY <1>1, <1>2, <1>3
-----------------------------------------------------------------------------
(* The states of a link, by what waits for the thread: nothing, one        *)
(* completion with the timer behind or before it, or two completions.  b   *)
(* is the last word on the camera.                                         *)

Opened == {"connected", "broken", "silent"}

Rests(l, b) ==
  \/ l.sock \in Opened /\ l.isConnected /\ l.reading = 1 /\ b
  \/ l.sock \in {"closed", "connecting"} /\ ~l.isConnected /\ l.reading = 0

\* The data of a connection that was closed since, the error of a read that
\* an abandoned attempt started: what waits need not be of this connection.
OneWaits(l, x, b) ==
  \/ x = "aborted" /\ l.sock = "closed" /\ ~l.isConnected /\ l.reading = 0 /\ l.older = 0
  \/ /\ x = "connected" /\ l.sock \in Opened \cup {"closed"}
     /\ ~l.isConnected /\ l.reading = 0 /\ l.older = 0
  \/ /\ x = "data" /\ l.reading = 0 /\ l.older \in {0, 1}
     /\ (l.sock \in Opened /\ l.isConnected /\ b) \/ (l.sock = "closed" /\ ~l.isConnected)
  \/ /\ x = "readError" /\ l.reading = 0 /\ l.older \in {0, 1}
     /\ \/ l.sock = "broken" /\ l.isConnected
        \/ l.sock = "closed"
        \/ l.sock = "connecting" /\ ~l.isConnected /\ l.older = 1
  \/ /\ x = "refused"
     /\ \/ l.sock \in Opened /\ l.isConnected /\ l.reading = 1 /\ l.older = 1
        \/ l.sock \in {"closed", "failed"} /\ ~l.isConnected /\ l.reading = 0 /\ l.older = 0
        \/ l.sock = "connecting" /\ ~l.isConnected /\ l.reading = 0 /\ l.older = 1

TimerFirst(l, y, b) ==
  /\ l.reading = 0 /\ l.older = 0
  /\ \/ y = "connected" /\ l.sock \in Opened /\ ~l.isConnected
     \/ y = "data" /\ l.sock \in Opened /\ l.isConnected /\ b
     \/ y = "readError" /\ ((l.sock = "broken" /\ l.isConnected) \/ l.sock = "closed")
     \/ y = "refused" /\ l.sock = "failed" /\ ~l.isConnected

TwoWait(l, x, y) ==
  /\ l.reading = 0
  /\ \/ /\ x = "connected" /\ y = "refused" /\ l.older = 2
        /\ l.sock \in Opened /\ ~l.isConnected
     \/ /\ x \in {"readError", "refused"} /\ l.older = 1 /\ ~l.isConnected
        /\ (y = "connected" /\ l.sock \in Opened) \/ (y = "refused" /\ l.sock = "failed")
     \/ /\ x = "refused" /\ l.older = 1 /\ l.isConnected
        /\ (y = "data" /\ l.sock \in Opened) \/ (y = "readError" /\ l.sock = "broken")

Good(l, x, y, b) ==
  \/ x \in {"none", "timer"} /\ y = "none" /\ l.older = 0 /\ Rests(l, b)
  \/ /\ x \in Completions /\ y \in {"none", "timer"} /\ (y = "timer" => l.older = 0)
     /\ OneWaits(l, x, b)
  \/ x = "timer" /\ y \in Completions /\ TimerFirst(l, y, b)
  \/ TwoWait(l, x, y)

Holds(l, b) ==
  /\ l \in LinkType
  /\ \E x, y \in Slots : l.ready = Queue(x, y) /\ Good(l, x, y, b)
-----------------------------------------------------------------------------
(* The operations of the client on a link in whose queue z waits, if       *)
(* anything does.                                                          *)

LEMMA LinkParts ==
  ASSUME NEW l \in LinkType
  PROVE  /\ l.sock \in Sockets /\ l.isConnected \in BOOLEAN /\ l.reading \in {0, 1}
         /\ l.ready \in Seq(Waiting) /\ l.older \in Nat
  BY DEF LinkType, Waiting

\* One completion is added.
LEMMA Completed ==
  ASSUME NEW l \in LinkType, NEW z \in Slots, l.ready = Queue(z, "none"), NEW e \in Waiting,
         NEW m, m = Complete(l, e)
  PROVE  /\ m \in LinkType /\ m.ready = Queue(First(z, e), Second(z, e))
         /\ m.sock = l.sock /\ m.isConnected = l.isConnected /\ m.reading = l.reading
         /\ m.older = l.older
<1>1. Append(l.ready, e) \in Seq(Waiting)
  BY LinkParts
<1>2. Append(l.ready, e) \in Seq(Completions \cup {"timer"})
  BY <1>1 DEF Waiting
<1>3. m \in LinkType
  BY <1>2 DEF Complete, LinkType
<1>4. m.ready = Append(l.ready, e)
  BY DEF Complete, LinkType
<1> QED
  BY <1>3, <1>4, QueueAppend DEF Complete, LinkType

\* The outstanding reads fail, one at most.
LEMMA ReadsFailed ==
  ASSUME NEW l \in LinkType, NEW z \in Slots, l.ready = Queue(z, "none"), NEW m, m = ReadsFail(l)
  PROVE  /\ m \in LinkType
         /\ m.ready = IF l.reading = 0 THEN Queue(z, "none")
                      ELSE Queue(First(z, "readError"), Second(z, "readError"))
         /\ m.sock = l.sock /\ m.isConnected = l.isConnected /\ m.reading = 0
         /\ m.older = l.older
<1> DEFINE fails == [i \in 1..l.reading |-> "readError"]
<1>0. "readError" \in Waiting
  BY DEF Waiting, Completions
<1>1. l.ready \o fails \in Seq(Waiting)
      /\ l.ready \o fails = IF l.reading = 0 THEN l.ready ELSE Append(l.ready, "readError")
  <2>1. CASE l.reading = 0
    <3>1. fails = <<>>
      BY <2>1
    <3> QED
      BY <2>1, <3>1, LinkParts
  <2>2. CASE l.reading = 1
    <3>1. fails \in Seq(Waiting) /\ Len(fails) = 1 /\ fails[1] = "readError"
      BY <1>0, <2>2
    <3>2. <<"readError">> \in Seq(Waiting) /\ Len(<<"readError">>) = 1
          /\ <<"readError">>[1] = "readError"
      BY <1>0
    <3>3. fails = <<"readError">>
      <4> HIDE DEF fails
      <4> QED
        BY <3>1, <3>2, SinglesAreEqual
    <3>4. l.ready \o <<"readError">> = Append(l.ready, "readError")
      BY <1>0, LinkParts
    <3> QED
      BY <1>0, <2>2, <3>3, <3>4, LinkParts
  <2> QED
    BY <2>1, <2>2, LinkParts
<1> DEFINE q == l.ready \o fails
<1>2. m = [l EXCEPT !.reading = 0, !.ready = q]
  BY DEF ReadsFail
<1>3. q \in Seq(Completions \cup {"timer"})
  BY <1>1 DEF Waiting
<1>4. q = IF l.reading = 0 THEN Queue(z, "none")
          ELSE Queue(First(z, "readError"), Second(z, "readError"))
  BY <1>0, <1>1, QueueAppend
<1> HIDE DEF q
<1>5. /\ m.ready = q /\ m.reading = 0 /\ m.sock = l.sock
      /\ m.isConnected = l.isConnected /\ m.older = l.older
  BY <1>2 DEF LinkType
<1>6. m \in LinkType
  <2>1. 0 \in 0..1
    OBVIOUS
  <2>2. [l EXCEPT !.reading = 0] \in LinkType
    BY <2>1 DEF LinkType
  <2>3. m = [[l EXCEPT !.reading = 0] EXCEPT !.ready = q]
    BY <1>2 DEF LinkType
  <2>4. \A k \in LinkType : [k EXCEPT !.ready = q] \in LinkType
    BY <1>3 DEF LinkType
  <2> QED
    BY <2>2, <2>3, <2>4
<1> QED
  BY <1>4, <1>5, <1>6

\* What closing the socket completes: one read, or an attempt, never both.
LEMMA Closed ==
  ASSUME NEW l \in LinkType, NEW z \in Slots, l.ready = Queue(z, "none"),
         l.sock = "connecting" => l.reading = 0,
         NEW m, m = close(l)
  PROVE  /\ m \in LinkType /\ m.older = l.older
         /\ l.sock = "closed" => m = l
         /\ l.sock # "closed" =>
              /\ m.sock = "closed" /\ ~m.isConnected /\ m.reading = 0
              /\ m.ready = IF l.sock = "connecting" THEN Queue(First(z, "aborted"), Second(z, "aborted"))
                           ELSE IF l.reading = 0 THEN Queue(z, "none")
                           ELSE Queue(First(z, "readError"), Second(z, "readError"))
<1>1. CASE l.sock = "closed"
  BY <1>1 DEF close
<1>2. CASE l.sock # "closed"
  <2> DEFINE r == ReadsFail(l)
             a == IF l.sock = "connecting" THEN Complete(r, "aborted") ELSE r
  <2>1. m = [a EXCEPT !.sock = "closed", !.isConnected = FALSE]
    BY <1>2 DEF close
  <2>2. /\ r \in LinkType /\ r.reading = 0 /\ r.older = l.older
        /\ r.ready = IF l.reading = 0 THEN Queue(z, "none")
                     ELSE Queue(First(z, "readError"), Second(z, "readError"))
    BY ReadsFailed
  <2>3. "aborted" \in Waiting
    BY DEF Waiting, Completions
  <2>4. l.sock = "connecting" =>
          LET c == Complete(r, "aborted") IN
          /\ c \in LinkType /\ c.ready = Queue(First(z, "aborted"), Second(z, "aborted"))
          /\ c.reading = 0 /\ c.older = l.older
    <3> HIDE DEF r
    <3> QED
      BY <2>2, <2>3, Completed
  <2>5. /\ a \in LinkType /\ a.reading = 0 /\ a.older = l.older
        /\ a.ready = IF l.sock = "connecting" THEN Queue(First(z, "aborted"), Second(z, "aborted"))
                     ELSE r.ready
    BY <2>2, <2>4
  <2>6. "closed" \in Sockets
    BY DEF Sockets
  <2> HIDE DEF a, r
  <2>7. /\ m \in LinkType /\ m.sock = "closed" /\ ~m.isConnected /\ m.reading = 0
        /\ m.older = l.older /\ m.ready = a.ready
    BY <2>1, <2>5, <2>6 DEF LinkType
  <2> QED
    BY <1>2, <2>2, <2>5, <2>7
<1> QED
  BY <1>1, <1>2

LEMMA ReceiveStarted ==
  ASSUME NEW l \in LinkType, NEW z \in Slots, l.ready = Queue(z, "none"),
         l.sock \in {"closed", "failed"} \/ l.reading = 0,
         NEW m, m = startAsyncReceive(l)
  PROVE  /\ m \in LinkType /\ m.older = l.older /\ m.sock = l.sock
         /\ m.isConnected = l.isConnected
         /\ IF l.sock \in {"closed", "failed"}
            THEN /\ m.ready = Queue(First(z, "readError"), Second(z, "readError"))
                 /\ m.reading = l.reading
            ELSE m.ready = Queue(z, "none") /\ m.reading = 1
<1>1. CASE l.sock \in {"closed", "failed"}
  <2>1. m = Complete(l, "readError") /\ "readError" \in Waiting
    BY <1>1 DEF startAsyncReceive, Waiting, Completions
  <2> QED
    BY <1>1, <2>1, Completed
<1>2. CASE l.sock \notin {"closed", "failed"}
  <2>1. m = [l EXCEPT !.reading = @ + 1] /\ l.reading = 0
    BY <1>2 DEF startAsyncReceive
  <2> QED
    BY <1>2, <2>1 DEF LinkType
<1> QED
  BY <1>1, <1>2

LEMMA ConnectStarted ==
  ASSUME NEW l \in LinkType, NEW z \in Slots, l.ready = Queue(z, "none"), NEW m, m = connect(l)
  PROVE  /\ m \in LinkType /\ m.older = l.older /\ m.isConnected = l.isConnected
         /\ m.reading = l.reading
         /\ IF l.sock \in {"closed", "failed"}
            THEN m.sock = "connecting" /\ m.ready = Queue(z, "none")
            ELSE m.sock = l.sock /\ m.ready = Queue(First(z, "refused"), Second(z, "refused"))
<1>1. CASE l.sock \in {"closed", "failed"}
  BY <1>1 DEF connect, LinkType, Sockets
<1>2. CASE l.sock \notin {"closed", "failed"}
  <2>1. m = Complete(l, "refused") /\ "refused" \in Waiting
    BY <1>2 DEF connect, Waiting, Completions
  <2> QED
    BY <1>2, <2>1, Completed
<1> QED
  BY <1>1, <1>2

\* The thread takes what; z is what is left.
LEMMA TakenFacts ==
  ASSUME NEW l \in LinkType, NEW x \in Slots, NEW y \in Slots, l.ready = Queue(x, y),
         x = "none" => y = "none",
         NEW what \in Completions, NEW m \in Taken(l, what)
  PROVE  /\ m \in LinkType /\ m.sock = l.sock /\ m.isConnected = l.isConnected
         /\ m.reading = l.reading
         /\ m.older = IF l.older = 0 THEN 0 ELSE l.older - 1
         /\ \E z \in Slots : /\ m.ready = Queue(z, "none")
                             /\ (x = what /\ z = y) \/ (x = "timer" /\ y = what /\ z = x)
<1>0. what \notin {"none", "timer"}
  BY DEF Completions
<1>1. PICK i \in {1, 2} \cap DOMAIN l.ready :
        /\ l.ready[i] = what /\ (i = 2 => l.ready[1] = "timer")
        /\ m = [l EXCEPT !.ready = RemoveAt(l.ready, i),
                         !.older = IF l.older = 0 THEN 0 ELSE l.older - 1]
  BY DEF Taken
<1>2. /\ Len(Queue(x, y)) = IF x = "none" THEN 0 ELSE IF y = "none" THEN 1 ELSE 2
      /\ x # "none" => Queue(x, y)[1] = x
      /\ y # "none" => Queue(x, y)[2] = y
      /\ Queue(x, y) \in Seq(Waiting)
  BY QueueFacts
<1>3. i \in 1..Len(Queue(x, y))
  BY <1>1, <1>2
<1>4. x # "none" /\ x \in Waiting /\ (i = 2 => y # "none")
  BY <1>2, <1>3 DEF Slots
<1>5. \E z \in Slots : /\ RemoveAt(l.ready, i) = Queue(z, "none")
                       /\ (x = what /\ z = y) \/ (x = "timer" /\ y = what /\ z = x)
  <2>1. CASE i = 1
    BY <1>1, <1>2, <1>4, <2>1, QueueRemove
  <2>2. CASE i = 2
    BY <1>1, <1>2, <1>4, <2>2, QueueRemove
  <2> QED
    BY <1>1, <2>1, <2>2
<1>6. PICK z \in Slots : /\ RemoveAt(l.ready, i) = Queue(z, "none")
                         /\ (x = what /\ z = y) \/ (x = "timer" /\ y = what /\ z = x)
  BY <1>5
<1>7. RemoveAt(l.ready, i) \in Seq(Completions \cup {"timer"})
  <2>1. Queue(z, "none") \in Seq(Waiting)
    BY QueueFacts DEF Slots
  <2> QED
    BY <1>6, <2>1 DEF Waiting
<1>8. (IF l.older = 0 THEN 0 ELSE l.older - 1) \in Nat
  <2>1. \A n \in Nat : (IF n = 0 THEN 0 ELSE n - 1) \in Nat
    OBVIOUS
  <2> QED
    BY <2>1, LinkParts
<1>9. m \in LinkType /\ m.ready = RemoveAt(l.ready, i)
      /\ m.older = IF l.older = 0 THEN 0 ELSE l.older - 1
  BY <1>1, <1>7, <1>8 DEF LinkType
<1>10. m.sock = l.sock /\ m.isConnected = l.isConnected /\ m.reading = l.reading
  BY <1>1 DEF LinkType
<1> QED
  BY <1>6, <1>9, <1>10
-----------------------------------------------------------------------------
(* Each step of a link leads from a good state to a good one.              *)

LEMMA GoodQueue ==
  ASSUME NEW l, NEW x \in Slots, NEW y \in Slots, NEW b, Good(l, x, y, b)
  PROVE  /\ x = "none" => y = "none"
         /\ l.reading \in {0, 1} /\ (l.sock = "connecting" => l.reading = 0)
         /\ l.older \in {0, 1, 2}
  BY DEF Good, TwoWait, TimerFirst, OneWaits, Rests, Completions, Opened

LEMMA ConnectedIsGood ==
  ASSUME NEW l, NEW b, Holds(l, b), NEW m \in Taken(l, "connected"),
         NEW n, n = startAsyncReceive([m EXCEPT !.isConnected = TRUE])
  PROVE  Holds(n, TRUE)
<1>1. PICK x \in Slots, y \in Slots : l.ready = Queue(x, y) /\ Good(l, x, y, b)
  BY DEF Holds
<1>2. l \in LinkType /\ "connected" \in Completions
  BY DEF Holds, Completions
<1>3. /\ m \in LinkType /\ m.sock = l.sock /\ m.reading = l.reading
      /\ m.older = IF l.older = 0 THEN 0 ELSE l.older - 1
      /\ \E z \in Slots : /\ m.ready = Queue(z, "none")
                          /\ (x = "connected" /\ z = y) \/ (x = "timer" /\ y = "connected" /\ z = x)
  BY <1>1, <1>2, TakenFacts, GoodQueue
<1>4. PICK z \in Slots : /\ m.ready = Queue(z, "none")
                         /\ (x = "connected" /\ z = y) \/ (x = "timer" /\ y = "connected" /\ z = x)
  BY <1>3
<1> DEFINE k == [m EXCEPT !.isConnected = TRUE]
<1>5. /\ k \in LinkType /\ k.sock = l.sock /\ k.isConnected = TRUE /\ k.reading = l.reading
      /\ k.older = IF l.older = 0 THEN 0 ELSE l.older - 1
      /\ k.ready = Queue(z, "none")
  BY <1>3, <1>4 DEF LinkType
<1> HIDE DEF k
<1>6. /\ l.reading = 0 /\ l.sock \in Opened \cup {"closed"}
      /\ l.sock = "closed" => z \in {"none", "timer"} /\ l.older = 0 /\ (z = "timer" => x = "connected")
      /\ \/ z \in {"none", "timer"} /\ l.older = 0
         \/ z = "refused" /\ l.older = 2 /\ l.sock \in Opened
  BY <1>1, <1>4 DEF Good, TwoWait, TimerFirst, OneWaits, Completions, Opened
<1>7. k.older = IF z = "refused" THEN 1 ELSE 0
  BY <1>5, <1>6
<1>8. n = startAsyncReceive(k)
  BY DEF k
<1>9. /\ n \in LinkType /\ n.older = k.older /\ n.sock = l.sock /\ n.isConnected = TRUE
      /\ IF l.sock = "closed"
         THEN n.ready = Queue(First(z, "readError"), Second(z, "readError")) /\ n.reading = 0
         ELSE n.ready = Queue(z, "none") /\ n.reading = 1
  <2>1. k.sock \in {"closed", "failed"} <=> l.sock = "closed"
    BY <1>5, <1>6 DEF Opened
  <2>2. k.reading = 0
    BY <1>5, <1>6
  <2> QED
    BY <1>5, <1>8, <2>1, <2>2, ReceiveStarted
<1>10. CASE l.sock = "closed"
  <2>1. z \in {"none", "timer"} /\ n.older = 0
    BY <1>6, <1>7, <1>9, <1>10
  <2>2. Good(n, First(z, "readError"), Second(z, "readError"), TRUE)
    BY <1>9, <1>10, <2>1 DEF Good, OneWaits, TimerFirst, First, Second, Completions
  <2>3. "readError" \in Waiting
    BY DEF Waiting, Completions
  <2> QED
    BY <1>9, <1>10, <2>2, <2>3, QueueAppend DEF Holds
<1>11. CASE l.sock # "closed"
  <2>1. Good(n, z, "none", TRUE)
    BY <1>6, <1>7, <1>9, <1>11 DEF Good, OneWaits, Rests, Completions
  <2>2. "none" \in Slots
    BY DEF Slots
  <2> QED
    BY <1>9, <1>11, <2>1, <2>2 DEF Holds
<1> QED
  BY <1>10, <1>11

LEMMA AbortedIsGood ==
  ASSUME NEW l, NEW b, Holds(l, b), NEW m \in Taken(l, "aborted")
  PROVE  Holds(m, FALSE)
<1>1. PICK x \in Slots, y \in Slots : l.ready = Queue(x, y) /\ Good(l, x, y, b)
  BY DEF Holds
<1>2. l \in LinkType /\ "aborted" \in Completions
  BY DEF Holds, Completions
<1>3. /\ m \in LinkType /\ m.sock = l.sock /\ m.isConnected = l.isConnected /\ m.reading = l.reading
      /\ m.older = IF l.older = 0 THEN 0 ELSE l.older - 1
      /\ \E z \in Slots : /\ m.ready = Queue(z, "none")
                          /\ (x = "aborted" /\ z = y) \/ (x = "timer" /\ y = "aborted" /\ z = x)
  BY <1>1, <1>2, TakenFacts, GoodQueue
<1>4. PICK z \in Slots : /\ m.ready = Queue(z, "none")
                         /\ (x = "aborted" /\ z = y) \/ (x = "timer" /\ y = "aborted" /\ z = x)
  BY <1>3
<1>5. z \in {"none", "timer"} /\ l.older = 0 /\ l.sock = "closed" /\ ~l.isConnected /\ l.reading = 0
  BY <1>1, <1>4 DEF Good, TwoWait, TimerFirst, OneWaits, Completions
<1>6. m.older = 0
  BY <1>3, <1>5
<1>7. Good(m, z, "none", FALSE)
  BY <1>3, <1>5, <1>6 DEF Good, Rests
<1> QED
  BY <1>3, <1>4, <1>7 DEF Holds, Slots

LEMMA DataIsGood ==
  ASSUME NEW l, NEW b, Holds(l, b), NEW m \in Taken(l, "data"), NEW n, n = DataReceived(m)
  PROVE  Holds(n, b)
<1>1. PICK x \in Slots, y \in Slots : l.ready = Queue(x, y) /\ Good(l, x, y, b)
  BY DEF Holds
<1>2. l \in LinkType /\ "data" \in Completions
  BY DEF Holds, Completions
<1>3. /\ m \in LinkType /\ m.sock = l.sock /\ m.isConnected = l.isConnected /\ m.reading = l.reading
      /\ m.older = IF l.older = 0 THEN 0 ELSE l.older - 1
      /\ \E z \in Slots : /\ m.ready = Queue(z, "none")
                          /\ (x = "data" /\ z = y) \/ (x = "timer" /\ y = "data" /\ z = x)
  BY <1>1, <1>2, TakenFacts, GoodQueue
<1>4. PICK z \in Slots : /\ m.ready = Queue(z, "none")
                         /\ (x = "data" /\ z = y) \/ (x = "timer" /\ y = "data" /\ z = x)
  BY <1>3
<1>5. /\ z \in {"none", "timer"} /\ l.older \in {0, 1} /\ l.reading = 0
      /\ \/ l.sock \in Opened /\ l.isConnected /\ b
         \/ l.sock = "closed" /\ ~l.isConnected /\ (x = "data")
  BY <1>1, <1>4 DEF Good, TwoWait, TimerFirst, OneWaits, Completions
<1>6. m.older = 0 /\ m.reading = 0
  BY <1>3, <1>5
<1>7. /\ n \in LinkType /\ n.older = 0 /\ n.sock = m.sock /\ n.isConnected = m.isConnected
      /\ IF m.sock \in {"closed", "failed"}
         THEN n.ready = Queue(First(z, "readError"), Second(z, "readError")) /\ n.reading = 0
         ELSE n.ready = Queue(z, "none") /\ n.reading = 1
  BY <1>3, <1>4, <1>6, ReceiveStarted DEF DataReceived
<1>8. CASE m.sock = "closed"
  <2>1. Good(n, First(z, "readError"), Second(z, "readError"), b)
    BY <1>5, <1>7, <1>8 DEF Good, OneWaits, TimerFirst, First, Second, Completions
  <2>2. "readError" \in Waiting
    BY DEF Waiting, Completions
  <2> QED
    BY <1>7, <1>8, <2>1, <2>2, QueueAppend DEF Holds
<1>9. CASE m.sock # "closed"
  <2>1. m.sock \in Opened /\ m.isConnected /\ b
    BY <1>3, <1>5, <1>9
  <2>2. Good(n, z, "none", b)
    BY <1>5, <1>7, <2>1 DEF Good, Rests, Opened
  <2>3. n.ready = Queue(z, "none")
    BY <1>7, <2>1 DEF Opened
  <2> QED
    BY <1>7, <2>2, <2>3 DEF Holds, Slots
<1> QED
  BY <1>8, <1>9

\* Closing after a refused attempt or a failed read; z still waits.
LEMMA ClosedIsGood ==
  ASSUME NEW l \in LinkType, NEW z \in Slots, l.ready = Queue(z, "none"), ~l.isConnected,
         NEW b, NEW n, n = close(l), l.older = 0,
         \/ z = "none" /\ l.sock # "connecting" /\ (l.sock = "closed" => l.reading = 0)
         \/ z = "none" /\ l.reading = 0
         \/ z = "timer" /\ l.sock # "connecting" /\ l.reading = 0
         \/ z \in {"connected", "data", "readError"} /\ l.sock \in Opened /\ l.reading = 0
         \/ z = "refused" /\ l.sock = "failed" /\ l.reading = 0
  PROVE  Holds(n, b)
<1>0. l.sock \in Sockets /\ l.reading \in {0, 1} /\ l.isConnected \in BOOLEAN
  BY LinkParts
<1>1. /\ n \in LinkType /\ n.older = 0
      /\ l.sock = "closed" => n = l
      /\ l.sock # "closed" =>
           /\ n.sock = "closed" /\ ~n.isConnected /\ n.reading = 0
           /\ n.ready = IF l.sock = "connecting" THEN Queue(First(z, "aborted"), Second(z, "aborted"))
                        ELSE IF l.reading = 0 THEN Queue(z, "none")
                        ELSE Queue(First(z, "readError"), Second(z, "readError"))
  <2>1. l.sock = "connecting" => l.reading = 0
    BY DEF Opened
  <2> QED
    BY <2>1, Closed
<1>2. /\ "none" \in Slots /\ "aborted" \in Waiting /\ "readError" \in Waiting
      /\ "aborted" \in Slots /\ "readError" \in Slots
  BY DEF Slots, Waiting, Completions
<1>3. CASE l.sock = "closed"
  <2>1. z \in {"none", "timer"} /\ l.reading = 0
    BY <1>3 DEF Opened
  <2>2. Good(n, z, "none", b)
    BY <1>1, <1>3, <2>1 DEF Good, Rests
  <2> QED
    BY <1>1, <1>2, <1>3, <2>2 DEF Holds
<1>4. CASE l.sock = "connecting"
  <2>1. z = "none"
    BY <1>4 DEF Opened
  <2>2. n.ready = Queue("aborted", "none")
    BY <1>1, <1>4, <2>1 DEF First, Second
  <2>3. Good(n, "aborted", "none", b)
    BY <1>1, <1>4 DEF Good, OneWaits, Completions
  <2> QED
    BY <1>1, <1>2, <2>2, <2>3 DEF Holds
<1>5. CASE l.sock \notin {"closed", "connecting"} /\ l.reading = 0
  <2>1. n.ready = Queue(z, "none") /\ n.sock = "closed" /\ ~n.isConnected /\ n.reading = 0
    BY <1>1, <1>5
  <2>2. Good(n, z, "none", b)
    BY <1>1, <2>1 DEF Good, Rests, OneWaits, Completions, Opened
  <2> QED
    BY <1>1, <1>2, <2>1, <2>2 DEF Holds
<1>6. CASE l.sock \notin {"closed", "connecting"} /\ l.reading = 1
  <2>1. z = "none"
    BY <1>6
  <2>2. n.ready = Queue("readError", "none") /\ n.sock = "closed" /\ ~n.isConnected /\ n.reading = 0
    BY <1>1, <1>6, <2>1 DEF First, Second
  <2>3. Good(n, "readError", "none", b)
    BY <1>1, <2>2 DEF Good, OneWaits, Completions
  <2> QED
    BY <1>1, <1>2, <2>2, <2>3 DEF Holds
<1> QED
  BY <1>0, <1>3, <1>4, <1>5, <1>6

LEMMA RefusedIsGood ==
  ASSUME NEW l, NEW b, Holds(l, b), NEW what \in {"refused", "readError"}, NEW m \in Taken(l, what),
         NEW c, NEW n, n = close([m EXCEPT !.isConnected = FALSE])
  PROVE  Holds(n, c)
<1>1. PICK x \in Slots, y \in Slots : l.ready = Queue(x, y) /\ Good(l, x, y, b)
  BY DEF Holds
<1>2. l \in LinkType /\ what \in Completions
  BY DEF Holds, Completions
<1>3. /\ m \in LinkType /\ m.sock = l.sock /\ m.reading = l.reading
      /\ m.older = IF l.older = 0 THEN 0 ELSE l.older - 1
      /\ \E z \in Slots : /\ m.ready = Queue(z, "none")
                          /\ (x = what /\ z = y) \/ (x = "timer" /\ y = what /\ z = x)
  BY <1>1, <1>2, TakenFacts, GoodQueue
<1>4. PICK z \in Slots : /\ m.ready = Queue(z, "none")
                         /\ (x = what /\ z = y) \/ (x = "timer" /\ y = what /\ z = x)
  BY <1>3
<1>5. /\ l.older \in {0, 1}
      /\ \/ z = "none" /\ l.sock # "connecting" /\ (l.sock = "closed" => l.reading = 0)
         \/ z = "none" /\ l.reading = 0
         \/ z = "timer" /\ l.sock # "connecting" /\ l.reading = 0
         \/ z \in {"connected", "data", "readError"} /\ l.sock \in Opened /\ l.reading = 0
         \/ z = "refused" /\ l.sock = "failed" /\ l.reading = 0
  <2>1. CASE what = "refused"
    BY <1>1, <1>4, <2>1 DEF Good, TwoWait, TimerFirst, OneWaits, Completions, Opened
  <2>2. CASE what = "readError"
    BY <1>1, <1>4, <2>2 DEF Good, TwoWait, TimerFirst, OneWaits, Completions, Opened
  <2> QED
    BY <2>1, <2>2
<1> DEFINE k == [m EXCEPT !.isConnected = FALSE]
<1>6. /\ k \in LinkType /\ k.sock = l.sock /\ k.isConnected = FALSE /\ k.reading = l.reading
      /\ k.ready = Queue(z, "none") /\ k.older = m.older
  BY <1>3, <1>4 DEF LinkType
<1>7. m.older = 0
  BY <1>3, <1>5
<1>8. n = close(k)
  BY DEF k
<1> HIDE DEF k
<1> QED
  BY <1>5, <1>6, <1>7, <1>8, ClosedIsGood

LEMMA TimerIsGood ==
  ASSUME NEW l, NEW b, Holds(l, b), l.ready # <<>>, Head(l.ready) = "timer",
         NEW n, n = Reconnect([l EXCEPT !.ready = Tail(@)])
  PROVE  Holds(n, b)
<1>1. PICK x \in Slots, y \in Slots : l.ready = Queue(x, y) /\ Good(l, x, y, b)
  BY DEF Holds
<1>2. x = "timer"
  <2>1. x # "none"
    BY <1>1, QueueFacts, GoodQueue
  <2> QED
    BY <1>1, <2>1, QueueTail DEF Slots
<1> DEFINE k == [l EXCEPT !.ready = Tail(l.ready)]
<1>3. Tail(l.ready) = Queue(y, "none")
  BY <1>1, <1>2, QueueTail DEF Waiting
<1>4. y \in Completions \cup {"none"}
  BY <1>1, <1>2 DEF Good, TwoWait, Completions
<1>5. Queue(y, "none") \in Seq(Completions \cup {"timer"})
  BY QueueFacts DEF Waiting, Slots
<1>6. /\ k \in LinkType /\ k.sock = l.sock /\ k.isConnected = l.isConnected
      /\ k.reading = l.reading /\ k.ready = Queue(y, "none")
  BY <1>3, <1>5 DEF Holds, LinkType
<1> DEFINE next == IF k.isConnected THEN k ELSE connect(k)
<1>7. n = [next EXCEPT !.older = Len(next.ready)]
  BY DEF Reconnect
<1> HIDE DEF k
<1>8. /\ next \in LinkType /\ next.isConnected = k.isConnected /\ next.reading = k.reading
      /\ IF k.isConnected
         THEN next.sock = k.sock /\ next.ready = Queue(y, "none")
         ELSE IF k.sock \in {"closed", "failed"}
         THEN next.sock = "connecting" /\ next.ready = Queue(y, "none")
         ELSE next.sock = k.sock /\ next.ready = Queue(First(y, "refused"), Second(y, "refused"))
  <2>1. CASE k.isConnected
    BY <1>6, <2>1
  <2>2. CASE ~k.isConnected
    <3>1. \A c : c = connect(k) =>
            /\ c \in LinkType /\ c.isConnected = k.isConnected /\ c.reading = k.reading
            /\ IF k.sock \in {"closed", "failed"}
               THEN c.sock = "connecting" /\ c.ready = Queue(y, "none")
               ELSE c.sock = k.sock /\ c.ready = Queue(First(y, "refused"), Second(y, "refused"))
      BY <1>6, ConnectStarted
    <3> QED
      BY <2>2, <3>1
  <2> QED
    BY <2>1, <2>2
<1> HIDE DEF next
<1>9. Len(next.ready) \in Nat
  BY <1>8, LinkParts
<1>10. /\ n \in LinkType /\ n.sock = next.sock /\ n.isConnected = l.isConnected
       /\ n.reading = l.reading /\ n.ready = next.ready /\ n.older = Len(next.ready)
  BY <1>6, <1>7, <1>8, <1>9 DEF LinkType
<1>11. "none" \in Slots /\ "refused" \in Waiting
  BY DEF Slots, Waiting, Completions
<1>12. l.isConnected \in BOOLEAN /\ l.sock \in Sockets
  BY LinkParts DEF Holds
<1>13. CASE l.isConnected \/ l.sock \in {"closed", "failed"}
  <2>1. /\ n.ready = Queue(y, "none")
        /\ n.sock = IF l.isConnected THEN l.sock ELSE "connecting"
    BY <1>6, <1>8, <1>10, <1>13
  <2>2. n.older = IF y = "none" THEN 0 ELSE 1
    BY <1>10, <1>11, <2>1, QueueFacts
  <2>3. Good(n, y, "none", b)
    BY <1>1, <1>2, <1>4, <1>10, <1>12, <1>13, <2>1, <2>2
       DEF Good, TwoWait, TimerFirst, OneWaits, Rests, Completions, Opened
  <2> QED
    BY <1>10, <1>11, <2>1, <2>3 DEF Holds
<1>14. CASE ~(l.isConnected \/ l.sock \in {"closed", "failed"})
  <2>1. n.ready = Queue(First(y, "refused"), Second(y, "refused")) /\ n.sock = l.sock
    BY <1>6, <1>8, <1>10, <1>14
  <2>2. y \in {"none", "connected"}
    BY <1>1, <1>2, <1>14 DEF Good, TwoWait, TimerFirst, Rests, Completions, Opened
  <2>3. First(y, "refused") \in Slots /\ Second(y, "refused") \in Slots
    BY <1>11, QueueAppend
  <2>4. n.older = IF y = "none" THEN 1 ELSE 2
    <3>1. CASE y = "none"
      <4>1. n.ready = Queue("refused", "none") /\ "refused" \in Slots
        BY <1>11, <2>1, <3>1 DEF First, Second, Slots
      <4>2. Len(Queue("refused", "none")) = 1
        BY <1>11, <4>1, QueueFacts
      <4> QED
        BY <1>8, <1>10, <3>1, <4>1, <4>2
    <3>2. CASE y = "connected"
      <4>1. n.ready = Queue("connected", "refused") /\ {"connected", "refused"} \subseteq Slots
        BY <2>1, <3>2 DEF First, Second, Slots, Waiting, Completions
      <4>2. Len(Queue("connected", "refused")) = 2
        BY <4>1, QueueFacts
      <4> QED
        BY <1>8, <1>10, <3>2, <4>1, <4>2
    <3> QED
      BY <2>2, <3>1, <3>2
  <2>5. Good(n, First(y, "refused"), Second(y, "refused"), b)
    BY <1>1, <1>2, <1>10, <1>12, <1>14, <2>1, <2>2, <2>4
       DEF Good, TwoWait, TimerFirst, OneWaits, Rests, Completions, Opened, First, Second
  <2> QED
    BY <1>10, <2>1, <2>3, <2>5 DEF Holds
<1> QED
  BY <1>13, <1>14

LEMMA ExpiryIsGood ==
  ASSUME NEW l, NEW b, Holds(l, b), ~Contains(l.ready, "timer"), l.older = 0,
         NEW n, n = Complete(l, "timer")
  PROVE  Holds(n, b)
<1>1. PICK x \in Slots, y \in Slots : l.ready = Queue(x, y) /\ Good(l, x, y, b)
  BY DEF Holds
<1>2. x # "timer" /\ y # "timer"
  BY <1>1, GoodQueue, QueueContains
<1>3. y = "none" /\ (x = "none" \/ x \in Completions)
  BY <1>1, <1>2 DEF Good, TwoWait, Slots
<1>4. l \in LinkType /\ "timer" \in Waiting
  BY DEF Holds, Waiting
<1>5. /\ n \in LinkType /\ n.ready = Queue(First(x, "timer"), Second(x, "timer"))
      /\ n.sock = l.sock /\ n.isConnected = l.isConnected /\ n.reading = l.reading
      /\ n.older = 0
  BY <1>1, <1>3, <1>4, Completed
<1>6. Good(n, First(x, "timer"), Second(x, "timer"), b)
  BY <1>1, <1>2, <1>3, <1>5 DEF Good, TwoWait, TimerFirst, OneWaits, Rests, Completions, First, Second
<1> QED
  BY <1>4, <1>5, <1>6, QueueAppend DEF Holds

\* A connection changes its state without being closed.
LEMMA OpenIsGood ==
  ASSUME NEW l, NEW b, Holds(l, b), NEW s \in Opened, l.sock \in {"connected", "silent"},
         NEW n, n = [l EXCEPT !.sock = s]
  PROVE  Holds(n, b)
<1>1. PICK x \in Slots, y \in Slots : l.ready = Queue(x, y) /\ Good(l, x, y, b)
  BY DEF Holds
<1>2. /\ n \in LinkType /\ n.sock = s /\ n.isConnected = l.isConnected
      /\ n.reading = l.reading /\ n.ready = l.ready /\ n.older = l.older
  BY DEF Holds, LinkType, Sockets, Opened
<1>3. Good(n, x, y, b)
  BY <1>1, <1>2 DEF Good, TwoWait, TimerFirst, OneWaits, Rests, Opened
<1> QED
  BY <1>1, <1>2, <1>3 DEF Holds

\* An attempt is answered: at most one completion waits then.
LEMMA AttemptIsGood ==
  ASSUME NEW l, NEW b, Holds(l, b), l.sock = "connecting",
         NEW n, \/ n = [Complete(l, "connected") EXCEPT !.sock = "connected"]
                \/ n = [ReadsFail(Complete(l, "refused")) EXCEPT !.sock = "failed"]
  PROVE  Holds(n, b)
<1>1. PICK x \in Slots, y \in Slots : l.ready = Queue(x, y) /\ Good(l, x, y, b)
  BY DEF Holds
<1>2. l \in LinkType /\ {"connected", "refused"} \subseteq Waiting
  BY DEF Holds, Waiting, Completions
<1>3. y = "none" /\ l.reading = 0 /\ ~l.isConnected
      /\ \/ x \in {"none", "timer"} /\ l.older = 0
         \/ x \in {"readError", "refused"} /\ l.older = 1
  BY <1>1 DEF Good, TwoWait, TimerFirst, OneWaits, Rests, Opened
<1>4. CASE n = [Complete(l, "connected") EXCEPT !.sock = "connected"]
  <2> DEFINE k == Complete(l, "connected")
  <2>1. /\ k \in LinkType /\ k.ready = Queue(First(x, "connected"), Second(x, "connected"))
        /\ k.isConnected = l.isConnected /\ k.reading = l.reading /\ k.older = l.older
    BY <1>1, <1>2, <1>3, Completed
  <2>2. n = [k EXCEPT !.sock = "connected"]
    BY <1>4
  <2> HIDE DEF k
  <2>3. /\ n \in LinkType /\ n.ready = Queue(First(x, "connected"), Second(x, "connected"))
        /\ n.isConnected = l.isConnected /\ n.reading = l.reading /\ n.older = l.older
        /\ n.sock = "connected"
    BY <2>1, <2>2 DEF LinkType, Sockets
  <2>4. Good(n, First(x, "connected"), Second(x, "connected"), b)
    BY <1>3, <2>3 DEF Good, TwoWait, TimerFirst, OneWaits, Completions, Opened, First, Second
  <2> QED
    BY <1>2, <2>3, <2>4, QueueAppend DEF Holds
<1>5. CASE n = [ReadsFail(Complete(l, "refused")) EXCEPT !.sock = "failed"]
  <2> DEFINE k == Complete(l, "refused")
             f == ReadsFail(k)
  <2>1. /\ k \in LinkType /\ k.ready = Queue(First(x, "refused"), Second(x, "refused"))
        /\ k.isConnected = l.isConnected /\ k.reading = l.reading /\ k.older = l.older
    BY <1>1, <1>2, <1>3, Completed
  <2>2. f = k
    <3>1. f = [k EXCEPT !.reading = 0, !.ready = k.ready \o [i \in 1..k.reading |-> "readError"]]
      BY DEF ReadsFail
    <3> HIDE DEF k, f
    <3>2. k.reading = 0
      BY <1>3, <2>1
    <3>3. [i \in 1..k.reading |-> "readError"] = <<>>
      BY <3>2
    <3>4. k.ready \o <<>> = k.ready
      BY <2>1, LinkParts
    <3>5. f = [k EXCEPT !.reading = 0, !.ready = k.ready]
      BY <3>1, <3>3, <3>4
    <3> QED
      BY <2>1, <3>2, <3>5 DEF LinkType
  <2>3. n = [k EXCEPT !.sock = "failed"]
    BY <1>5, <2>2
  <2> HIDE DEF k, f
  <2>4. /\ n \in LinkType /\ n.ready = Queue(First(x, "refused"), Second(x, "refused"))
        /\ n.isConnected = l.isConnected /\ n.reading = l.reading /\ n.older = l.older
        /\ n.sock = "failed"
    BY <2>1, <2>3 DEF LinkType, Sockets
  <2>5. Good(n, First(x, "refused"), Second(x, "refused"), b)
    BY <1>3, <2>4 DEF Good, TwoWait, TimerFirst, OneWaits, Completions, Opened, First, Second
  <2> QED
    BY <1>2, <2>4, <2>5, QueueAppend DEF Holds
<1> QED
  BY <1>4, <1>5

LEMMA ReadingIsGood ==
  ASSUME NEW l, NEW b, Holds(l, b), l.reading > 0,
         NEW n, \/ n = [Complete(l, "data") EXCEPT !.reading = @ - 1] /\ l.sock = "connected"
                \/ n = ReadsFail(l) /\ l.sock = "broken"
  PROVE  Holds(n, b)
<1>1. PICK x \in Slots, y \in Slots : l.ready = Queue(x, y) /\ Good(l, x, y, b)
  BY DEF Holds
<1>2. l \in LinkType /\ {"data", "readError"} \subseteq Waiting
  BY DEF Holds, Waiting, Completions
<1>3. l.reading = 1
  BY <1>2, LinkParts
<1>4. /\ y = "none" /\ l.isConnected /\ l.sock \in Opened
      /\ \/ x \in {"none", "timer"} /\ l.older = 0 /\ b
         \/ x = "refused" /\ l.older = 1
  BY <1>1, <1>2, <1>3 DEF Good, TwoWait, TimerFirst, OneWaits, Rests, Opened
<1>0. l.ready = Queue(x, "none") /\ l.reading # 0
  BY <1>1, <1>3, <1>4
<1>5. CASE n = [Complete(l, "data") EXCEPT !.reading = @ - 1] /\ l.sock = "connected"
  <2> DEFINE k == Complete(l, "data")
  <2>1. /\ k \in LinkType /\ k.ready = Queue(First(x, "data"), Second(x, "data"))
        /\ k.isConnected = l.isConnected /\ k.reading = 1 /\ k.older = l.older
        /\ k.sock = l.sock
    <3>1. /\ k \in LinkType /\ k.ready = Queue(First(x, "data"), Second(x, "data"))
          /\ k.isConnected = l.isConnected /\ k.reading = l.reading /\ k.older = l.older
          /\ k.sock = l.sock
      BY <1>0, <1>2, Completed
    <3> HIDE DEF k
    <3> QED
      BY <1>3, <3>1
  <2>2. n = [k EXCEPT !.reading = k.reading - 1]
    BY <1>5
  <2> HIDE DEF k
  <2>3. /\ n \in LinkType /\ n.ready = Queue(First(x, "data"), Second(x, "data"))
        /\ n.isConnected = l.isConnected /\ n.reading = 0 /\ n.older = l.older
        /\ n.sock = "connected"
    <3>1. k.reading - 1 = 0
      BY <2>1
    <3>2. n = [k EXCEPT !.reading = 0]
      BY <2>2, <3>1
    <3>3. 0 \in 0..1
      OBVIOUS
    <3> QED
      BY <1>5, <2>1, <3>2, <3>3 DEF LinkType
  <2>4. Good(n, First(x, "data"), Second(x, "data"), b)
    BY <1>4, <2>3 DEF Good, TwoWait, TimerFirst, OneWaits, Completions, Opened, First, Second
  <2> QED
    BY <1>2, <2>3, <2>4, QueueAppend DEF Holds
<1>6. CASE n = ReadsFail(l) /\ l.sock = "broken"
  <2>1. /\ n \in LinkType /\ n.ready = Queue(First(x, "readError"), Second(x, "readError"))
        /\ n.isConnected = l.isConnected /\ n.reading = 0 /\ n.older = l.older
        /\ n.sock = "broken"
    BY <1>0, <1>2, <1>6, ReadsFailed
  <2>2. Good(n, First(x, "readError"), Second(x, "readError"), b)
    BY <1>4, <2>1 DEF Good, TwoWait, TimerFirst, OneWaits, Completions, Opened, First, Second
  <2> QED
    BY <1>2, <2>1, <2>2, QueueAppend DEF Holds
<1> QED
  BY <1>5, <1>6
-----------------------------------------------------------------------------
LinkInv ==
  /\ link \in [Cameras -> LinkType] /\ last \in [Cameras -> BOOLEAN]
  /\ \A c \in Cameras : Holds(link[c], last[c])

LEMMA LinkInit == Init => LinkInv
<1> SUFFICES ASSUME Init PROVE LinkInv
  OBVIOUS
<1> DEFINE l == [sock |-> "connecting", isConnected |-> FALSE,
                 reading |-> 0, ready |-> <<>>, older |-> 0]
<1>1. l \in LinkType
  BY DEF LinkType, Sockets
<1>2. Holds(l, TRUE)
  <2>1. l.ready = Queue("none", "none") /\ Good(l, "none", "none", TRUE) /\ "none" \in Slots
    BY DEF Queue, Good, Rests, Slots
  <2> QED
    BY <1>1, <2>1 DEF Holds
<1>3. link = [c \in Cameras |-> l] /\ last = [c \in Cameras |-> TRUE]
  BY DEF Init
<1> HIDE DEF l
<1> QED
  BY <1>1, <1>2, <1>3 DEF LinkInv

\* One camera's link moves; the others are left alone.
LEMMA OneLinkMoves ==
  ASSUME LinkInv, NEW c \in Cameras, NEW n, NEW b \in BOOLEAN, Holds(n, b),
         link' = [link EXCEPT ![c] = n], last' = [last EXCEPT ![c] = b] \/ (last' = last /\ b = last[c])
  PROVE  LinkInv'
<1>1. n \in LinkType
  BY DEF Holds
<1>2. link' \in [Cameras -> LinkType] /\ last' \in [Cameras -> BOOLEAN]
  BY <1>1 DEF LinkInv
<1>3. link'[c] = n /\ last'[c] = b
  BY DEF LinkInv
<1>4. \A d \in Cameras : d # c => link'[d] = link[d] /\ last'[d] = last[d]
  BY DEF LinkInv
<1>5. ASSUME NEW d \in Cameras PROVE Holds(link'[d], last'[d])
  <2>1. CASE d = c
    BY <1>3, <2>1
  <2>2. CASE d # c
    <3>1. link'[d] = link[d] /\ last'[d] = last[d] /\ Holds(link[d], last[d])
      BY <1>4, <2>2 DEF LinkInv
    <3> QED
      BY <3>1
  <2> QED
    BY <2>1, <2>2
<1> QED
  BY <1>2, <1>5 DEF LinkInv

LEMMA LinkStep == LinkInv /\ [Next]_vars => LinkInv'
<1> SUFFICES ASSUME LinkInv, [Next]_vars PROVE LinkInv'
  OBVIOUS
<1>1. ASSUME NEW c \in Cameras,
             HandlerRuns(c) \/ TimerExpires(c) \/ FnSendTransIDToLPR(c) \/ Network(c)
      PROVE  LinkInv'
  <2>0. Holds(link[c], last[c]) /\ last[c] \in BOOLEAN
    BY DEF LinkInv
  <2>1. CASE Connected(c)
    <3>1. PICK m \in Taken(link[c], "connected") :
            link' = [link EXCEPT ![c] = startAsyncReceive([m EXCEPT !.isConnected = TRUE])]
      BY <2>1 DEF Connected
    <3>2. last' = [last EXCEPT ![c] = TRUE]
      BY <2>1 DEF Connected, ConnectHandler
    <3>3. Holds(startAsyncReceive([m EXCEPT !.isConnected = TRUE]), TRUE)
      BY <2>0, ConnectedIsGood
    <3> QED
      BY <3>1, <3>2, <3>3, OneLinkMoves
  <2>2. CASE Refused(c)
    <3>1. PICK m \in Taken(link[c], "refused") :
            link' = [link EXCEPT ![c] = close([m EXCEPT !.isConnected = FALSE])]
      BY <2>2 DEF Refused
    <3>2. last' = [last EXCEPT ![c] = FALSE]
      BY <2>2 DEF Refused, ConnectHandler
    <3>3. Holds(close([m EXCEPT !.isConnected = FALSE]), FALSE)
      BY <2>0, RefusedIsGood
    <3> QED
      BY <3>1, <3>2, <3>3, OneLinkMoves
  <2>3. CASE Aborted(c)
    <3>1. PICK m \in Taken(link[c], "aborted") : link' = [link EXCEPT ![c] = m]
      BY <2>3 DEF Aborted
    <3>2. last' = [last EXCEPT ![c] = FALSE]
      BY <2>3 DEF Aborted, ConnectHandler
    <3>3. Holds(m, FALSE)
      BY <2>0, AbortedIsGood
    <3> QED
      BY <3>1, <3>2, <3>3, OneLinkMoves
  <2>4. CASE Received(c)
    <3>1. last' = last
      BY <2>4 DEF Received
    <3>2. \/ \E m \in Taken(link[c], "data") : link' = [link EXCEPT ![c] = DataReceived(m)]
          \/ \E m \in Taken(link[c], "readError") : link' = [link EXCEPT ![c] = ReadFailed(m)]
      BY <2>4 DEF Received
    <3>3. ASSUME NEW m \in Taken(link[c], "data"), link' = [link EXCEPT ![c] = DataReceived(m)]
          PROVE  LinkInv'
      BY <2>0, <3>1, <3>3, DataIsGood, OneLinkMoves
    <3>4. ASSUME NEW m \in Taken(link[c], "readError"), link' = [link EXCEPT ![c] = ReadFailed(m)]
          PROVE  LinkInv'
      <4>1. Holds(ReadFailed(m), last[c])
        BY <2>0, RefusedIsGood DEF ReadFailed
      <4> QED
        BY <2>0, <3>1, <3>4, <4>1, OneLinkMoves
    <3> QED
      BY <3>2, <3>3, <3>4
  <2>5. CASE ReconnectTimer(c)
    <3>1. /\ link[c].ready # <<>> /\ Head(link[c].ready) = "timer" /\ last' = last
          /\ link' = [link EXCEPT ![c] = Reconnect([link[c] EXCEPT !.ready = Tail(@)])]
      BY <2>5 DEF ReconnectTimer
    <3> QED
      BY <2>0, <3>1, TimerIsGood, OneLinkMoves
  <2>6. CASE TimerExpires(c)
    <3>1. /\ ~Contains(link[c].ready, "timer") /\ link[c].older = 0 /\ last' = last
          /\ link' = [link EXCEPT ![c] = Complete(link[c], "timer")]
      BY <2>6 DEF TimerExpires
    <3> QED
      BY <2>0, <3>1, ExpiryIsGood, OneLinkMoves
  <2>7. ASSUME NEW s \in Opened, link[c].sock \in {"connected", "silent"},
               link' = [link EXCEPT ![c].sock = s], last' = last
        PROVE  LinkInv'
    <3>1. link' = [link EXCEPT ![c] = [link[c] EXCEPT !.sock = s]]
      BY <2>7
    <3>2. Holds([link[c] EXCEPT !.sock = s], last[c])
      BY <2>0, <2>7, OpenIsGood
    <3> QED
      BY <2>0, <2>7, <3>1, <3>2, OneLinkMoves
  <2>8. CASE FnSendTransIDToLPR(c)
    <3>1. /\ link[c].sock = "silent" /\ last' = last
          /\ link' = [link EXCEPT ![c].sock = "broken"]
      BY <2>8 DEF FnSendTransIDToLPR
    <3>2. "broken" \in Opened
      BY DEF Opened
    <3> QED
      BY <2>7, <3>1, <3>2
  <2>9. CASE ConnectSucceeds(c)
    <3>1. /\ link[c].sock = "connecting" /\ last' = last
          /\ link' = [link EXCEPT ![c] = [Complete(link[c], "connected") EXCEPT !.sock = "connected"]]
      BY <2>9 DEF ConnectSucceeds
    <3> QED
      BY <2>0, <3>1, AttemptIsGood, OneLinkMoves
  <2>10. CASE ConnectFails(c)
    <3>1. /\ link[c].sock = "connecting" /\ last' = last
          /\ link' = [link EXCEPT ![c] =
                        [ReadsFail(Complete(link[c], "refused")) EXCEPT !.sock = "failed"]]
      BY <2>10 DEF ConnectFails
    <3> QED
      BY <2>0, <3>1, AttemptIsGood, OneLinkMoves
  <2>11. CASE DataArrives(c)
    <3>1. /\ link[c].sock = "connected" /\ link[c].reading > 0 /\ last' = last
          /\ link' = [link EXCEPT ![c] = [Complete(link[c], "data") EXCEPT !.reading = @ - 1]]
      BY <2>11 DEF DataArrives
    <3> QED
      BY <2>0, <3>1, ReadingIsGood, OneLinkMoves
  <2>12. CASE ReadFails(c)
    <3>1. /\ link[c].sock = "broken" /\ link[c].reading > 0 /\ last' = last
          /\ link' = [link EXCEPT ![c] = ReadsFail(link[c])]
      BY <2>12 DEF ReadFails
    <3> QED
      BY <2>0, <3>1, ReadingIsGood, OneLinkMoves
  <2>13. CASE CameraFails(c)
    <3>1. CASE link[c].sock = "connected"
      BY <2>7, <2>13, <3>1 DEF CameraFails, Opened
    <3>2. CASE link[c].sock # "connected"
      BY <2>13, <3>2 DEF CameraFails, LinkInv
    <3> QED
      BY <3>1, <3>2
  <2>14. CASE CameraReturns(c)
    <3>1. CASE UNCHANGED link
      BY <2>14, <3>1 DEF CameraReturns, LinkInv
    <3>2. CASE ~UNCHANGED link
      BY <2>7, <2>14, <3>2 DEF CameraReturns, Opened
    <3> QED
      BY <3>1, <3>2
  <2> QED
    BY <1>1, <2>1, <2>2, <2>3, <2>4, <2>5, <2>6, <2>8, <2>9, <2>10, <2>11, <2>12, <2>13, <2>14
       DEF HandlerRuns, Network
<1>2. CASE UNCHANGED vars
  BY <1>2 DEF vars, LinkInv
<1> QED
  BY <1>1, <1>2 DEF Next

\* What a good link shows once nothing waits for the thread.
LEMMA GoodIsSound ==
  ASSUME NEW l, NEW b \in BOOLEAN, Holds(l, b), l.ready \in {<<>>, <<"timer">>}
  PROVE  /\ l.isConnected <=> l.sock \in Opened
         /\ l.isConnected => l.reading = 1 /\ b
<1>1. PICK x \in Slots, y \in Slots : l.ready = Queue(x, y) /\ Good(l, x, y, b)
  BY DEF Holds
<1>2. x \in {"none", "timer"} /\ y = "none"
  <2>1. CASE l.ready = <<>>
    <3>1. x = "none" => y = "none"
      BY <1>1, GoodQueue
    <3>2. x = "none"
      BY <1>1, <2>1, <3>1, QueueFacts
    <3> QED
      BY <3>1, <3>2
  <2>2. CASE l.ready = <<"timer">>
    <3>1. Len(l.ready) = 1 /\ l.ready[1] = "timer"
      BY <2>2
    <3>2. y = "none" /\ x # "none"
      BY <1>1, <3>1, QueueFacts, GoodQueue
    <3>3. Queue(x, y)[1] = x
      BY <3>2, QueueFacts
    <3> QED
      BY <1>1, <3>1, <3>2, <3>3
  <2> QED
    BY <2>1, <2>2
<1>3. Rests(l, b)
  BY <1>1, <1>2 DEF Good, TwoWait, Completions
<1>4. l.isConnected \in BOOLEAN
  BY LinkParts DEF Holds
<1> QED
  BY <1>3, <1>4 DEF Rests, Opened

(***************************************************************************)
(* For any number of cameras and faults, however completions, timers and   *)
(* closes interleave: a link has at most one read outstanding, and at rest *)
(* it is shown as connected exactly when its socket is, is then being      *)
(* read, and the last word on the camera was no error (tcp_client.cpp:     *)
(* 86-142, lpr.cpp:175-194).                                               *)
(***************************************************************************)
THEOREM LinksAreSound == SafeSpec => []LinkIsSound
<1>1. LinkInv => LinkIsSound
  <2> SUFFICES ASSUME LinkInv, NEW c \in Cameras
               PROVE  /\ link[c] \in LinkType
                      /\ link[c].ready \in {<<>>, <<"timer">>} =>
                           /\ link[c].isConnected <=> Open(c)
                           /\ link[c].isConnected => link[c].reading = 1 /\ last[c]
    BY DEF LinkIsSound
  <2>1. Holds(link[c], last[c]) /\ last[c] \in BOOLEAN /\ link[c] \in LinkType
    BY DEF LinkInv
  <2> QED
    BY <2>1, GoodIsSound DEF Open, Opened
<1> QED
  BY <1>1, LinkInit, LinkStep, PTL DEF SafeSpec
=============================================================================
