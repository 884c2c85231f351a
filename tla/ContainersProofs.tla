-------------------------- MODULE ContainersProofs --------------------------
(***************************************************************************)
(* For any number of attempts, any delays, any servers and any set of      *)
(* parallel subtests, a test of Containers uses its container only while   *)
(* it is up, closes its pool first, and leaves no container it owned.     *)
(***************************************************************************)
EXTENDS Containers, SequenceTheorems, TLAPS

(* What the registered cleanups say of the container and of its pool.      *)
Owning == owned \in Attempt /\ machine[owned] = "up"

Registered(n) ==
    /\ Len(cleanups) = n
    /\ n \in {1, 2} => cleanups[1] = "terminate"
    /\ n = 2 => cleanups[2] = "close"

CleanupInv ==
    \/ owned = 0 /\ Registered(0) /\ pool = "none"
    \/ Owning /\ Registered(1) /\ pool # "open"
    \/ Owning /\ Registered(2) /\ pool = "open"
    \/ /\ owned \in Attempt /\ Registered(0) /\ pool # "open"
       /\ pc \in {"cleanup", "over"}
       /\ daemon = "answers" => machine[owned] = "gone"

(* What a place says of them.                                              *)
PlaceInv ==
    /\ pc \in {"start", "backoff"} => owned = 0 /\ attempt \in Attempt
    /\ pc = "backoff" => attempt # StartAttempts
    /\ pc = "open" => Registered(1)
    /\ pc \in {"ping", "pause", "body"} => Registered(2)
    /\ pc = "over" => Registered(0)

(* What is using the container, or will be, has its pool.                  *)
ReadyInv ==
    \A s \in Subtest : subtests[s] \in {"paused", "running"} =>
        pc \in {"body", "drain"} /\ pool = "open"

IInv == TypeOK /\ CleanupInv /\ PlaceInv /\ ReadyInv

(* Registering a second cleanup, and running the only one.                 *)
LEMMA AppendSecond ==
    ASSUME NEW S, NEW seq \in Seq(S), Len(seq) = 1, NEW e \in S
    PROVE  /\ Len(Append(seq, e)) = 2
           /\ Append(seq, e)[1] = seq[1]
           /\ Append(seq, e)[2] = e
<1>1. Len(seq) + 1 = 2 /\ 1 \in 1..Len(seq)
    OBVIOUS
<1>2. Len(Append(seq, e)) = Len(seq) + 1 /\ Append(seq, e)[Len(seq) + 1] = e
    BY AppendProperties
<1>3. \A i \in 1..Len(seq) : Append(seq, e)[i] = seq[i]
    BY AppendProperties
<1> QED  BY <1>1, <1>2, <1>3

LEMMA DropOnly ==
    ASSUME NEW S, NEW seq \in Seq(S), Len(seq) = 1
    PROVE  /\ Len(SubSeq(seq, 1, Len(seq) - 1)) = 0
           /\ SubSeq(seq, 1, Len(seq) - 1) \in Seq(S)
BY SubSeqProperties

LEMMA InitIInv == Init => IInv
<1> SUFFICES ASSUME Init PROVE IInv
    OBVIOUS
<1> USE ContainersAssumption DEF Init
<1>1. TypeOK  BY DEF TypeOK, Place, Attempt
<1>2. CleanupInv /\ PlaceInv /\ ReadyInv
    BY DEF CleanupInv, PlaceInv, ReadyInv, Attempt, Registered
<1> QED  BY <1>1, <1>2 DEF IInv

(* Starting: nothing is owned until a call of start has succeeded.         *)
LEMMA StartSteps ==
    ASSUME IInv, StartSucceeds \/ StartFails \/ BackOff PROVE IInv'
<1> USE ContainersAssumption DEF IInv, TypeOK, Place, Attempt, Registered
<1> pc' # "body"
    BY DEF StartSucceeds, StartFails, BackOff, Fail
<1> UNCHANGED subtests /\ pc \in {"start", "backoff"}
    BY DEF StartSucceeds, StartFails, BackOff
<1>1. \A s \in Subtest : subtests[s] \notin {"paused", "running"}
    BY DEF ReadyInv
<1>2. ReadyInv'
    BY <1>1 DEF ReadyInv
<1>3. CASE StartSucceeds
  <2>1. owned = 0 /\ Registered(0) /\ pool = "none" /\ attempt \in Attempt
      BY <1>3 DEF StartSucceeds, PlaceInv, CleanupInv, Owning
  <2>2. Registered(1)' /\ owned' = attempt /\ machine'[attempt] = "up"
      BY <1>3, <2>1 DEF StartSucceeds
  <2>3. TypeOK'
    <3>1. server' \in [boot : Nat, restart : Nat, ready : Nat]
      <4>1. server' \in [boot : Lags, restart : Lags, ready : Lags]
          BY <1>3 DEF StartSucceeds, Server
      <4> QED  BY <4>1
    <3>2. cleanups' \in Seq({"terminate", "close"})
        BY <1>3 DEF StartSucceeds
    <3> QED  BY <1>3, <2>1, <2>2, <3>1, <3>2 DEF StartSucceeds
  <2>4. CleanupInv' /\ PlaceInv'
      BY <1>3, <2>1, <2>2 DEF StartSucceeds, CleanupInv, PlaceInv, Owning
  <2> QED  BY <1>2, <2>3, <2>4
<1>4. CASE StartFails
  <2>1. TypeOK'  BY <1>4 DEF StartFails, Fail
  <2>2. CleanupInv' /\ PlaceInv'
      BY <1>4 DEF StartFails, Fail, CleanupInv, PlaceInv, Owning
  <2> QED  BY <1>2, <2>1, <2>2
<1>5. CASE BackOff
  <2>1. TypeOK'  BY <1>5 DEF BackOff
  <2>2. CleanupInv' /\ PlaceInv'
      BY <1>5 DEF BackOff, CleanupInv, PlaceInv, Owning
  <2> QED  BY <1>2, <2>1, <2>2
<1> QED  BY <1>3, <1>4, <1>5

(* Getting ready, and giving up: what is registered stays registered.      *)
LEMMA ReadySteps ==
    ASSUME IInv,
           \/ SleepCancelled \/ OpenFails \/ OpenPool
           \/ PingSucceeds \/ PingFails \/ Pause
    PROVE  IInv'
<1> USE ContainersAssumption DEF IInv, TypeOK, Place, Attempt, Registered
<1>1. CASE SleepCancelled \/ OpenFails
  <2>1. TypeOK'  BY <1>1 DEF SleepCancelled, OpenFails, Fail
  <2>2. CleanupInv' /\ PlaceInv' /\ ReadyInv'
      BY <1>1 DEF SleepCancelled, OpenFails, Fail, CleanupInv, PlaceInv, ReadyInv, Owning
  <2> QED  BY <2>1, <2>2
<1>2. CASE OpenPool
  <2>1. Registered(2)'
    <3>1. Len(cleanups) = 1 /\ cleanups[1] = "terminate"
        BY <1>2 DEF OpenPool, PlaceInv
    <3>2. cleanups' = Append(cleanups, "close")
        BY <1>2 DEF OpenPool
    <3>3. cleanups \in Seq({"terminate", "close"})
        OBVIOUS
    <3>4. Len(cleanups') = 2 /\ cleanups'[1] = "terminate" /\ cleanups'[2] = "close"
        BY <3>1, <3>2, <3>3, AppendSecond
    <3> QED  BY <3>4
  <2>2. TypeOK'  BY <1>2, <2>1 DEF OpenPool
  <2>3. CleanupInv' /\ PlaceInv' /\ ReadyInv'
      BY <1>2, <2>1 DEF OpenPool, CleanupInv, PlaceInv, ReadyInv, Owning
  <2> QED  BY <2>2, <2>3
<1>3. CASE PingSucceeds
  <2>1. TypeOK'  BY <1>3 DEF PingSucceeds
  <2>2. CleanupInv' /\ PlaceInv' /\ ReadyInv'
      BY <1>3 DEF PingSucceeds, Answers, CleanupInv, PlaceInv, ReadyInv, Owning
  <2> QED  BY <2>1, <2>2
<1>4. CASE PingFails
  <2>1. TypeOK'  BY <1>4 DEF PingFails, Fail
  <2>2. CleanupInv' /\ PlaceInv' /\ ReadyInv'
      BY <1>4 DEF PingFails, Fail, CleanupInv, PlaceInv, ReadyInv, Owning
  <2> QED  BY <2>1, <2>2
<1>5. CASE Pause
  <2>1. TypeOK'  BY <1>5 DEF Pause, Capped
  <2>2. CleanupInv' /\ PlaceInv' /\ ReadyInv'
      BY <1>5 DEF Pause, CleanupInv, PlaceInv, ReadyInv, Owning
  <2> QED  BY <2>1, <2>2
<1> QED  BY <1>1, <1>2, <1>3, <1>4, <1>5

(* The body and its subtests, which find the pool open until all are done. *)
LEMMA BodySteps ==
    ASSUME IInv,
           \/ \E s \in Subtest : Register(s) \/ Advance(s)
           \/ Return \/ Drain \/ Cancel
    PROVE  IInv'
<1> USE ContainersAssumption DEF IInv, TypeOK, Place, Attempt, Registered
<1>1. ASSUME NEW s \in Subtest, Register(s) \/ Advance(s) PROVE IInv'
  <2>1. TypeOK'  BY <1>1 DEF Register, Advance
  <2>2. CleanupInv' /\ PlaceInv'
      BY <1>1 DEF Register, Advance, CleanupInv, PlaceInv, Owning
  <2>3. ReadyInv'
    <3>1. pool = "open" /\ pc \in {"body", "drain"}
        BY <1>1 DEF Register, Advance, ReadyInv, CleanupInv, PlaceInv
    <3> QED  BY <1>1, <3>1 DEF Register, Advance, ReadyInv
  <2> QED  BY <2>1, <2>2, <2>3
<1>2. CASE Return \/ Drain \/ Cancel
  <2>1. TypeOK'  BY <1>2 DEF Return, Drain, Cancel
  <2>2. CleanupInv' /\ PlaceInv'
      BY <1>2 DEF Return, Drain, Cancel, CleanupInv, PlaceInv, Owning
  <2>3. ReadyInv'
      BY <1>2 DEF Return, Drain, Cancel, ReadyInv
  <2> QED  BY <2>1, <2>2, <2>3
<1> QED  BY <1>1, <1>2

(* Cleaning up, last registered first.                                     *)
LEMMA CleanupSteps ==
    ASSUME IInv, ClosePool \/ Terminate \/ End PROVE IInv'
<1> USE ContainersAssumption DEF IInv, TypeOK, Place, Attempt, Registered
<1>1. ReadyInv'
    BY DEF ClosePool, Terminate, End, CleanUp, ReadyInv
<1>2. CASE ClosePool
  <2>1. Registered(2) /\ Owning
      BY <1>2 DEF ClosePool, CleanUp, CleanupInv
  <2>2. Registered(1)'
      BY <1>2, <2>1 DEF ClosePool, CleanUp
  <2>3. TypeOK'  BY <1>2, <2>2 DEF ClosePool, CleanUp
  <2>4. CleanupInv' /\ PlaceInv'
      BY <1>2, <2>1, <2>2 DEF ClosePool, CleanUp, CleanupInv, PlaceInv, Owning
  <2> QED  BY <1>1, <2>3, <2>4
<1>3. CASE Terminate
  <2>1. Registered(1) /\ Owning /\ pool # "open"
      BY <1>3 DEF Terminate, CleanUp, CleanupInv
  <2>2. Registered(0)' /\ cleanups' \in Seq({"terminate", "close"})
    <3>1. Len(cleanups) = 1 /\ cleanups' = SubSeq(cleanups, 1, Len(cleanups) - 1)
        BY <1>3, <2>1 DEF Terminate, CleanUp
    <3>2. Len(cleanups') = 0 /\ cleanups' \in Seq({"terminate", "close"})
        BY <3>1, DropOnly
    <3> QED  BY <3>2
  <2>3. TypeOK'  BY <1>3, <2>1, <2>2 DEF Terminate, CleanUp
  <2>4. daemon = "answers" => machine'[owned] = "gone"
      BY <1>3, <2>1 DEF Terminate, ShutdownContext, Owning
  <2>5. CleanupInv' /\ PlaceInv'
      BY <1>3, <2>1, <2>2, <2>4 DEF Terminate, CleanUp, CleanupInv, PlaceInv, Owning
  <2> QED  BY <1>1, <2>3, <2>5
<1>4. CASE End
  <2>1. TypeOK'  BY <1>4 DEF End
  <2>2. CleanupInv' /\ PlaceInv'
      BY <1>4 DEF End, CleanupInv, PlaceInv, Owning
  <2> QED  BY <1>1, <2>1, <2>2
<1> QED  BY <1>2, <1>3, <1>4

LEMMA StutterStep == ASSUME IInv, UNCHANGED vars PROVE IInv'
BY DEF IInv, TypeOK, CleanupInv, PlaceInv, ReadyInv, Owning, Registered, vars

LEMMA NextIInv == ASSUME IInv, [Next]_vars PROVE IInv'
BY StartSteps, ReadySteps, BodySteps, CleanupSteps, StutterStep DEF Next, Step

LEMMA Inductive == Spec => []IInv
BY InitIInv, NextIInv, PTL DEF Spec

(* Every variable keeps its type.                                          *)
THEOREM TypeCorrect == Spec => []TypeOK
BY Inductive, PTL DEF IInv

(* What runs finds its pool open and its container up.                     *)
THEOREM UsedOnlyWhileUp == Spec => []UsedWhileUp
<1>1. IInv => UsedWhileUp
  <2> SUFFICES ASSUME IInv, Using PROVE Owning /\ pool = "open"
      BY ContainersAssumption DEF UsedWhileUp, Owning, Attempt
  <2>1. pool = "open"
      BY DEF IInv, Using, Registered, ReadyInv, PlaceInv, CleanupInv
  <2> QED  BY <2>1 DEF IInv, Registered, CleanupInv
<1> QED  BY <1>1, Inductive, PTL

(* The pool is closed before its container is terminated.                  *)
THEOREM ClosedFirst == Spec => []PoolClosedFirst
<1>1. IInv => PoolClosedFirst
    BY ContainersAssumption DEF IInv, Registered, CleanupInv, Owning, Attempt, PoolClosedFirst
<1> QED  BY <1>1, Inductive, PTL

(* A container that Run owned is gone when its test is over.               *)
THEOREM Reaped == Spec => []OwnedIsReaped
<1>1. IInv => OwnedIsReaped
    BY DEF IInv, Registered, CleanupInv, PlaceInv, OwnedIsReaped
<1> QED  BY <1>1, Inductive, PTL

-----------------------------------------------------------------------------
(* The ladder of pings.  The n-th ping comes after waited[n], and a pause  *)
(* of pauses[n] follows it.                                                *)
Ping == 1..ReadyAttempts

IsLadder(pauses, waited) ==
    /\ pauses \in [Ping -> Nat] /\ waited \in [Ping -> Nat]
    /\ pauses[1] = ReadyDelay /\ waited[1] = 0
    /\ \A n \in Ping : n + 1 \in Ping =>
          /\ pauses[n + 1] = Capped(2 * pauses[n])
          /\ waited[n + 1] = waited[n] + pauses[n]

(* Where a test is on the ladder, and that it gives up only at its end.    *)
LadderInv(pauses, waited) ==
    /\ pc \notin {"drain", "cleanup", "over"} => result = "ok"
    /\ pc = "open" => clock = 0
    /\ pc \in {"ping", "pause"} =>
          attempt \in Ping /\ delay = pauses[attempt] /\ clock = waited[attempt]
    /\ pc = "pause" => attempt # ReadyAttempts
    /\ result = "gaveUp" /\ owned # 0 => clock = waited[ReadyAttempts]

LEMMA LadderStep ==
    ASSUME NEW pauses, NEW waited, IsLadder(pauses, waited),
           IInv, LadderInv(pauses, waited), [Next]_vars
    PROVE  LadderInv(pauses, waited)'
<1> USE ContainersAssumption
<1> owned \in Nat /\ (pc \in {"start", "backoff"} => owned = 0)
    BY DEF IInv, TypeOK, PlaceInv
<1>1. CASE StartSucceeds \/ StartFails \/ BackOff
    BY <1>1 DEF LadderInv, StartSucceeds, StartFails, BackOff, Fail
<1>2. CASE SleepCancelled \/ OpenFails \/ PingSucceeds
    BY <1>2 DEF LadderInv, SleepCancelled, OpenFails, PingSucceeds, Fail
<1>3. CASE OpenPool
    BY <1>3 DEF LadderInv, IsLadder, OpenPool, Ping
<1>4. CASE PingFails
    BY <1>4 DEF LadderInv, PingFails, Fail
<1>5. CASE Pause
  <2>1. attempt \in Ping /\ attempt + 1 \in Ping
      BY <1>5 DEF LadderInv, Pause, Ping
  <2> QED  BY <1>5, <2>1 DEF LadderInv, IsLadder, Pause
<1>6. CASE \E s \in Subtest : Register(s) \/ Advance(s)
    BY <1>6 DEF LadderInv, Register, Advance
<1>7. CASE Return \/ Drain \/ Cancel
    BY <1>7 DEF LadderInv, Return, Drain, Cancel
<1>8. CASE ClosePool \/ Terminate \/ End
    BY <1>8 DEF LadderInv, ClosePool, Terminate, End, CleanUp
<1>9. CASE UNCHANGED vars
    BY <1>9 DEF LadderInv, vars
<1> QED  BY <1>1, <1>2, <1>3, <1>4, <1>5, <1>6, <1>7, <1>8, <1>9 DEF Next, Step

(* A test that gives up on a server has waited for it as long as the       *)
(* ladder is, whatever came before: the attempts to start do not count,    *)
(* and no pause is left out or cut short.                                  *)
THEOREM PatientAsTheLadder ==
    ASSUME NEW pauses, NEW waited, IsLadder(pauses, waited),
           waited[ReadyAttempts] \in Patience..(Patience + ReadyMaxDelay)
    PROVE  Spec => []PatientEnough
<1>1. Init => LadderInv(pauses, waited)
    BY DEF Init, LadderInv
<1>2. IInv /\ LadderInv(pauses, waited) /\ [Next]_vars => LadderInv(pauses, waited)'
    BY LadderStep
<1>3. LadderInv(pauses, waited) => PatientEnough
    BY DEF LadderInv, PatientEnough
<1> QED  BY <1>1, <1>2, <1>3, Inductive, PTL DEF Spec

(* PingUntilReady: with its numbers the ladder is 111 long, and the        *)
(* documented "roughly 100s" holds whatever start was configured to do and *)
(* whatever servers do.                                                    *)
THEOREM Patient ==
    ASSUME ReadyAttempts = 10, ReadyDelay = 1, ReadyMaxDelay = 20, Patience = 100
    PROVE  Spec => []PatientEnough
<1> DEFINE pauses == [n \in Ping |-> IF n = 1 THEN 1 ELSE IF n = 2 THEN 2
                        ELSE IF n = 3 THEN 4 ELSE IF n = 4 THEN 8
                        ELSE IF n = 5 THEN 16 ELSE 20]
           waited == [n \in Ping |-> IF n = 1 THEN 0 ELSE IF n = 2 THEN 1
                        ELSE IF n = 3 THEN 3 ELSE IF n = 4 THEN 7
                        ELSE IF n = 5 THEN 15 ELSE 31 + 20 * (n - 6)]
<1>1. IsLadder(pauses, waited)
    BY DEF IsLadder, Ping, Capped
<1>2. waited[ReadyAttempts] \in Patience..(Patience + ReadyMaxDelay)
    BY DEF Ping
<1> QED  BY <1>1, <1>2, PatientAsTheLadder
=============================================================================
