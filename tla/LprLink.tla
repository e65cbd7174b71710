------------------------------ MODULE LprLink ------------------------------
(***************************************************************************)
(* The TCP links to the cameras (AppTcpClient), their reconnect timers and *)
(* the error state they share (Lpr, operation::HandlePBSError).            *)
(*                                                                         *)
(* One thread runs the completion handlers of both cameras, so a handler   *)
(* is one step.  What makes the links hard is that a completion waits in a *)
(* queue while other handlers close the socket, or connect it again: the   *)
(* timer connects every two seconds whenever isConnected_ is false, even   *)
(* while an attempt is under way, on the one socket the client has.        *)
(*                                                                         *)
(* The socket and the reactor below the client are modelled from how the   *)
(* client uses them: connecting a socket that is connecting or connected   *)
(* completes at once with an error, and closing it completes what is       *)
(* outstanding with operation_aborted.                                     *)
(*                                                                         *)
(* A camera can stop, which resets its connections, or vanish (a cable, a  *)
(* power cut), which nobody notices before something is sent to it.        *)
(***************************************************************************)
EXTENDS Integers, Sequences, SequencesExt

CONSTANTS
  Cameras,   \* the cameras whose address is set: front, rear or both
  MaxFaults  \* bound: how often a camera stops or vanishes

ASSUME MaxFaultsAssumption == MaxFaults \in Nat

VARIABLES
  up,      \* up[c]: the camera accepts connections
  link,    \* link[c]: the AppTcpClient, see LinkType
  last,    \* lastFrontCameraConnected_, lastRearCameraConnected_
  errNo,   \* tPBSError[iLPR].ErrNo
  told,    \* history: the last LPR report sent to the PMS
  masked,  \* history: cameras whose error another one's recovery withdrew
  faults   \* how many faults there were

report == <<errNo, told, masked>>
vars == <<up, link, last, report, faults>>

Sockets == {"closed", "connecting", "failed", "connected", "broken", "silent"}
Completions == {"connected", "refused", "aborted", "data", "readError"}

\* ready holds the completions, and the expiry of the camera's timer, that
\* wait for the thread; older counts those that did when the timer was armed.
LinkType ==
  [sock : Sockets, isConnected : BOOLEAN, reading : 0..1,
   ready : Seq(Completions \cup {"timer"}), older : Nat]

Init ==
  /\ up \in [Cameras -> BOOLEAN]
  /\ link = [c \in Cameras |-> [sock |-> "connecting", isConnected |-> FALSE,
                                reading |-> 0, ready |-> <<>>, older |-> 0]]
  /\ last = [c \in Cameras |-> TRUE]
  /\ errNo = 0 /\ told = "nothing" /\ masked = {}
  /\ faults = 0

-----------------------------------------------------------------------------
(* The operations of the client, on its link.                              *)

Complete(l, what) == [l EXCEPT !.ready = Append(@, what)]

ReadsFail(l) ==
  [l EXCEPT !.reading = 0,
            !.ready = @ \o [i \in 1..l.reading |-> "readError"]]

connect(l) ==
  IF l.sock \in {"closed", "failed"} THEN [l EXCEPT !.sock = "connecting"]
  ELSE Complete(l, "refused")

\* Nothing happens, not even to isConnected_, when the socket is not open.
close(l) ==
  LET aborted == IF l.sock = "connecting" THEN Complete(ReadsFail(l), "aborted")
                 ELSE ReadsFail(l)
  IN IF l.sock = "closed" THEN l
     ELSE [aborted EXCEPT !.sock = "closed", !.isConnected = FALSE]

startAsyncReceive(l) ==
  IF l.sock \in {"closed", "failed"} THEN Complete(l, "readError")
  ELSE [l EXCEPT !.reading = @ + 1]

\* Mutation: a failed read leaves the socket open.
KeepOpen(l) == [l EXCEPT !.isConnected = FALSE]

ReadFailed(l) == close([l EXCEPT !.isConnected = FALSE])

\* Mutation: the next read is not started after data has come.
StopReading(l) == l

DataReceived(l) == startAsyncReceive(l)

-----------------------------------------------------------------------------
(* The error state: HandlePBSError(LPRError) and (LPRNoError).             *)

LPRError == errNo' = -1 /\ told' = "LPR Error" /\ masked' = {}

\* Mutation: the recovery is reported but the state is not reset.
StateIsKept ==
  /\ errNo' = errNo
  /\ told' = IF errNo < 0 THEN "LPR OK" ELSE told
  /\ masked' = {d \in Cameras : ~last'[d]}

LPRNoError ==
  /\ errNo' = 0
  /\ told' = IF errNo < 0 THEN "LPR OK" ELSE told
  /\ masked' = {d \in Cameras : ~last'[d]}

\* Mutation: a successful attempt is reported but not remembered.
SuccessIsForgotten(c, success) ==
  /\ last' = [last EXCEPT ![c] = @ /\ success]
  /\ IF success = last[c] THEN UNCHANGED report
     ELSE IF success THEN LPRNoError ELSE LPRError

\* handleFrontSocketConnect, handleRearSocketConnect.
ConnectHandler(c, success) ==
  /\ last' = [last EXCEPT ![c] = success]
  /\ IF success = last[c] THEN UNCHANGED report
     ELSE IF success THEN LPRNoError ELSE LPRError

-----------------------------------------------------------------------------
(* The thread takes a completion.  Those of a client run in order; the     *)
(* timer has a strand of its own, and a completion that becomes ready      *)
(* behind it may be run first, but never the other way round.              *)

Taken(l, what) ==
  {[l EXCEPT !.ready = RemoveAt(@, i), !.older = IF @ = 0 THEN 0 ELSE @ - 1] :
     i \in {j \in {1, 2} \cap DOMAIN l.ready :
             l.ready[j] = what /\ (j = 2 => l.ready[1] = "timer")}}

Connected(c) ==
  /\ \E l \in Taken(link[c], "connected") :
       link' = [link EXCEPT ![c] =
                 startAsyncReceive([l EXCEPT !.isConnected = TRUE])]
  /\ ConnectHandler(c, TRUE)
  /\ UNCHANGED <<up, faults>>

Refused(c) ==
  /\ \E l \in Taken(link[c], "refused") :
       link' = [link EXCEPT ![c] = close([l EXCEPT !.isConnected = FALSE])]
  /\ ConnectHandler(c, FALSE)
  /\ UNCHANGED <<up, faults>>

Aborted(c) ==
  /\ \E l \in Taken(link[c], "aborted") : link' = [link EXCEPT ![c] = l]
  /\ ConnectHandler(c, FALSE)
  /\ UNCHANGED <<up, faults>>

Received(c) ==
  /\ \/ \E l \in Taken(link[c], "data") :
          link' = [link EXCEPT ![c] = DataReceived(l)]
     \/ \E l \in Taken(link[c], "readError") :
          link' = [link EXCEPT ![c] = ReadFailed(l)]
  /\ UNCHANGED <<up, last, report, faults>>

Reconnect(l) ==
  LET next == IF l.isConnected THEN l ELSE connect(l)
  IN [next EXCEPT !.older = Len(next.ready)]

ReconnectTimer(c) ==
  /\ link[c].ready # <<>> /\ Head(link[c].ready) = "timer"
  /\ link' = [link EXCEPT ![c] = Reconnect([link[c] EXCEPT !.ready = Tail(@)])]
  /\ UNCHANGED <<up, last, report, faults>>

HandlerRuns(c) ==
  Connected(c) \/ Refused(c) \/ Aborted(c) \/ Received(c) \/ ReconnectTimer(c)

\* The timer is armed whenever its expiry does not wait in the queue.  No
\* handler takes anything near two seconds, so what was ready before the
\* timer was armed has been run when it expires.
TimerExpires(c) ==
  /\ ~Contains(link[c].ready, "timer") /\ link[c].older = 0
  /\ link' = [link EXCEPT ![c] = Complete(@, "timer")]
  /\ UNCHANGED <<up, last, report, faults>>

\* A write to a camera that vanished is answered by a reset or given up by
\* the kernel.  The result of the write itself is only logged.
FnSendTransIDToLPR(c) ==
  /\ link[c].isConnected /\ link[c].sock = "silent"
  /\ link' = [link EXCEPT ![c].sock = "broken"]
  /\ UNCHANGED <<up, last, report, faults>>

-----------------------------------------------------------------------------
(* The network.                                                            *)

ConnectSucceeds(c) ==
  /\ link[c].sock = "connecting" /\ up[c]
  /\ link' = [link EXCEPT ![c] =
               [Complete(@, "connected") EXCEPT !.sock = "connected"]]
  /\ UNCHANGED <<up, last, report, faults>>

ConnectFails(c) ==
  /\ link[c].sock = "connecting" /\ ~up[c]
  /\ link' = [link EXCEPT ![c] =
               [ReadsFail(Complete(@, "refused")) EXCEPT !.sock = "failed"]]
  /\ UNCHANGED <<up, last, report, faults>>

DataArrives(c) ==
  /\ link[c].sock = "connected" /\ up[c] /\ link[c].reading > 0
  /\ link' = [link EXCEPT ![c] =
               [Complete(link[c], "data") EXCEPT !.reading = @ - 1]]
  /\ UNCHANGED <<up, last, report, faults>>

ReadFails(c) ==
  /\ link[c].sock = "broken" /\ link[c].reading > 0
  /\ link' = [link EXCEPT ![c] = ReadsFail(@)]
  /\ UNCHANGED <<up, last, report, faults>>

CameraFails(c) ==
  /\ up[c] /\ faults < MaxFaults
  /\ up' = [up EXCEPT ![c] = FALSE] /\ faults' = faults + 1
  /\ IF link[c].sock = "connected"
     THEN \E s \in {"broken", "silent"} : link' = [link EXCEPT ![c].sock = s]
     ELSE UNCHANGED link
  /\ UNCHANGED <<last, report>>

\* A connection survives when the camera vanished without losing its state.
CameraReturns(c) ==
  /\ ~up[c]
  /\ up' = [up EXCEPT ![c] = TRUE]
  /\ \/ UNCHANGED link
     \/ /\ link[c].sock = "silent"
        /\ link' = [link EXCEPT ![c].sock = "connected"]
  /\ UNCHANGED <<last, report, faults>>

Network(c) ==
  \/ ConnectSucceeds(c) \/ ConnectFails(c) \/ DataArrives(c) \/ ReadFails(c)
  \/ CameraFails(c) \/ CameraReturns(c)

Next ==
  \E c \in Cameras :
    HandlerRuns(c) \/ TimerExpires(c) \/ FnSendTransIDToLPR(c) \/ Network(c)

(***************************************************************************)
(* The thread runs what is ready, timers expire, broken connections fail.  *)
(* A camera that is up answers, time and again, while the thread has       *)
(* nothing else to do for it: within the two seconds of the timer.         *)
(***************************************************************************)
Fairness ==
  \A c \in Cameras :
    /\ WF_vars(HandlerRuns(c)) /\ WF_vars(TimerExpires(c))
    /\ WF_vars(ReadFails(c))
    /\ SF_vars(link[c].ready = <<>> /\ ConnectSucceeds(c))

SafeSpec == Init /\ [][Next]_vars
Spec == SafeSpec /\ Fairness

-----------------------------------------------------------------------------
Open(c) == link[c].sock \in {"connected", "broken", "silent"}

(***************************************************************************)
(* However completions, timers and closes interleave: a link has at most   *)
(* one read outstanding (they would share the buffer), and once nothing    *)
(* waits for the thread it is shown as connected exactly when its socket   *)
(* is, is then being read, and the last word on the camera was no error.   *)
(* Otherwise the timer would leave a deaf link alone for ever, or connect  *)
(* over a live one.  (tcp_client.cpp:86-142, lpr.cpp:175-194.)             *)
(***************************************************************************)
LinkIsSound ==
  \A c \in Cameras :
    /\ link[c] \in LinkType
    /\ link[c].ready \in {<<>>, <<"timer">>} =>
         /\ link[c].isConnected <=> Open(c)
         /\ link[c].isConnected => link[c].reading = 1 /\ last[c]

(***************************************************************************)
(* The one error slot of both cameras, and what the PMS was last told, is  *)
(* an error only while some camera is in error; a camera in error shows    *)
(* there unless the recovery of another one has withdrawn it.              *)
(* (operation.cpp:1520-1536, lpr.cpp:203-238.)                             *)
(***************************************************************************)
ErrorIsShown ==
  /\ errNo < 0 <=> told = "LPR Error"
  /\ errNo < 0 => \E c \in Cameras : ~last[c]
  /\ \A c \in Cameras : ~last[c] => errNo < 0 \/ c \in masked

(***************************************************************************)
(* A camera that stays up is connected again for good, whatever the races  *)
(* of its timer with its attempts, and its error is withdrawn; except that *)
(* a connection which died silently stays until something is sent.         *)
(* (lpr.cpp:175-201.)                                                      *)
(***************************************************************************)
LinkComesBack ==
  \A c \in Cameras :
    <>[]up[c] => <>[](\/ link[c].sock = "silent"
                      \/ Open(c) /\ link[c].isConnected /\ last[c])

(***************************************************************************)
(* A camera that stays away is found to be in error, with the same         *)
(* exception.  (lpr.cpp:225-237.)                                          *)
(***************************************************************************)
LossIsNoticed ==
  \A c \in Cameras :
    <>[](~up[c]) => <>[](link[c].sock = "silent" \/ ~last[c])
=============================================================================
