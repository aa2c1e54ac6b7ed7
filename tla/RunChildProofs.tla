--------------------------- MODULE RunChildProofs ---------------------------
(***************************************************************************)
(* SignalsArrive, StaysWithChild and OnlyTheTailIsLost for any pipes,      *)
(* signals and bounds.                                                     *)
(*                                                                         *)
(* Of every signal raised while the child is there to have it, penv or its *)
(* handler still holds it or the child has it; that sum is kept by every   *)
(* step but a discard, and only a signal penv was started ignoring is      *)
(* discarded.  Of the output, what the child wrote itself is in its pipe,  *)
(* its pump, its masker or with its reader, and the drain ends on a tick   *)
(* that found it with the reader.                                          *)
(***************************************************************************)
EXTENDS RunChild, TLAPS

-----------------------------------------------------------------------------
(* The invariant.                                                          *)

\* What penv or its handler holds of a signal.
Pending(sig) == IF signals[sig].pending THEN 1 ELSE 0
Taking(sig)  == IF handling # None /\ handling.sig = sig THEN 1 ELSE 0
Known(sig)   == signals[sig].received + Pending(sig) + Taking(sig)

\* Every variable but the output's, which no signal reads.
Typed ==
  /\ pc \in {"forward", "forked", "spawned", "waiting", "reaped", "draining"} \cup Ended
  /\ installed \in 0..2
  /\ signals \in [Signals -> Signal]
  /\ handling \in Handler \cup {None}
  /\ CHILD \in BOOLEAN /\ foreground \in BOOLEAN
  /\ child \in {"none", "forked", "running", "zombie", "reaped"}

\* FORWARDED[installed + 1] without the sequence.
Place(sig) == IF sig = SIGTERM THEN 1 ELSE 2

Starting == {"forked", "spawned", "waiting", "reaped"}

\* `forward` has been over the signals up to `installed`, and between its two steps
\* only an ignored one has penv's handler.
Laid ==
  /\ pc \in Starting => installed = 2
  /\ \A sig \in Signals :
       LET s == signals[sig] IN
       /\ pc \in Starting \cup {"forward"} /\ Place(sig) <= installed => s.now # "default"
       /\ pc = "forward" /\ Place(sig) > installed /\ s.now = "handler" => s.previous = "ignored"
       /\ s.now = "ignored" => s.previous = "ignored"
       /\ s.previous = "ignored" =>
            /\ s.now # "default"
            /\ s.now = "handler" => pc \in {"forward", "killed"} /\ Place(sig) = installed + 1

Alive == {"running", "zombie", "reaped"}

\* Whoever knows of a child has one, and a handler that runs while penv waits knows.
Held ==
  /\ pc = "forward" => child = "none" /\ ~CHILD
  /\ pc = "forked" => child # "none"
  /\ pc \in {"spawned", "waiting"} => child \in Alive
  /\ pc = "waiting" => CHILD
  /\ CHILD => child \in Alive
  /\ handling # None =>
       /\ handling.child => child \in Alive /\ signals[handling.sig].previous = "default"
       /\ handling.waiting => handling.child

\* What a terminal does not also send to the child.
Direct(sig) == sig = SIGTERM \/ ~foreground

Counted ==
  \A sig \in Signals :
    LET s == signals[sig] IN
    /\ s.received <= s.raised
    /\ s.previous = "ignored" => s.received = 0
    /\ Direct(sig) => Known(sig) <= s.raised
    /\ Direct(sig) /\ s.previous = "default" /\ pc \notin Ended /\ child \in {"none", "forked", "running"}
         => Known(sig) = s.raised

IInv == Typed /\ Laid /\ Held /\ Counted

-----------------------------------------------------------------------------
(* The two signals, in the order `forward` takes them.                     *)

LEMMA Order ==
  /\ Len(FORWARDED) = 2
  /\ \A n \in 0..1 :
       /\ FORWARDED[n + 1] \in Signals
       /\ \A sig \in Signals : Place(sig) = n + 1 <=> sig = FORWARDED[n + 1]
  <1>1. /\ Len(FORWARDED) = 2
        /\ FORWARDED[1] = SIGTERM /\ FORWARDED[2] = SIGINT
    BY DEF FORWARDED
  <1>2. SIGTERM # SIGINT /\ Signals = {SIGTERM, SIGINT}
    BY DEF SIGTERM, SIGINT, Signals
  <1>3. \A n \in 0..1 : (n = 0 \/ n = 1)
    OBVIOUS
  <1> QED
    BY <1>1, <1>2, <1>3 DEF Place

LEMMA Initially == Init => IInv
  <1> SUFFICES ASSUME Init PROVE IInv
    OBVIOUS
  <1>1. PICK ignored \in SUBSET Nohup :
          signals = [sig \in Signals |->
            [previous |-> IF sig \in ignored THEN "ignored" ELSE "default",
             now |-> IF sig \in ignored THEN "ignored" ELSE "default",
             pending |-> FALSE, raised |-> 0, received |-> 0]]
    BY DEF Init
  <1>2. 0 \in 0..MaxSignals
    BY RunAssumption
  <1>3. Typed
    <2>1. signals \in [Signals -> Signal]
      BY <1>1, <1>2 DEF Signal
    <2>2. /\ pc = "forward" /\ installed = 0 /\ handling = None /\ CHILD = FALSE
          /\ foreground \in BOOLEAN /\ child = "none"
      BY DEF Init
    <2>3. 0 \in 0..2
      OBVIOUS
    <2> QED
      BY <2>1, <2>2, <2>3, Zenon DEF Typed
  <1>4. Laid
    BY <1>1 DEF Init, Laid, Starting, Place
  <1>5. Held
    BY DEF Init, Held
  <1>6. Counted
    BY <1>1 DEF Init, Counted, Known, Pending, Taking, Ended
  <1> QED
    BY <1>3, <1>4, <1>5, <1>6 DEF IInv

-----------------------------------------------------------------------------
(* `forward`.                                                              *)

LEMMA InstallKeeps == IInv /\ Install => IInv'
  <1> SUFFICES ASSUME IInv, Install PROVE IInv'
    OBVIOUS
  <1> DEFINE sig == FORWARDED[installed + 1]
  <1>1. /\ sig \in Signals /\ installed \in 0..1
        /\ \A s \in Signals : Place(s) = installed + 1 <=> s = sig
    BY Order DEF IInv, Typed, Install
  <1>2. /\ pc = "forward" /\ signals[sig].now # "handler"
        /\ signals' = [signals EXCEPT ![sig].now = "handler"]
        /\ installed' = IF signals[sig].previous = "ignored" THEN installed ELSE installed + 1
        /\ UNCHANGED <<handling, pc, CHILD, foreground, child>>
    BY DEF Install, signalsRest
  <1>3. signals' \in [Signals -> Signal]
    BY <1>1, <1>2 DEF IInv, Typed, Signal
  <1>4. /\ \A s \in Signals : signals'[s] = IF s = sig THEN [signals[s] EXCEPT !.now = "handler"] ELSE signals[s]
        /\ \A s \in Signals : signals[s] \in Signal
    BY <1>1, <1>2 DEF IInv, Typed
  <1>5. \A s \in Signals :
          /\ s # sig => signals'[s] = signals[s]
          /\ signals'[s].previous = signals[s].previous /\ signals'[s].pending = signals[s].pending
          /\ signals'[s].raised = signals[s].raised /\ signals'[s].received = signals[s].received
          /\ s = sig => signals'[s].now = "handler"
    BY <1>4 DEF Signal
  <1> HIDE DEF sig
  <1>6. Typed'
    BY <1>1, <1>2, <1>3 DEF IInv, Typed
  <1>7. Laid'
    BY <1>1, <1>2, <1>5 DEF IInv, Typed, Laid, Starting, Place, Signal
  <1>8. Held'
    BY <1>2, <1>5 DEF IInv, Held, Typed, Handler
  <1>9. Counted'
    BY <1>2, <1>5 DEF IInv, Counted, Known, Pending, Taking, Direct
  <1> QED
    BY <1>6, <1>7, <1>8, <1>9 DEF IInv

LEMMA KeepKeeps == IInv /\ Keep => IInv'
  <1> SUFFICES ASSUME IInv, Keep PROVE IInv'
    OBVIOUS
  <1> DEFINE sig == FORWARDED[installed + 1]
  <1>1. /\ sig \in Signals /\ installed \in 0..1
        /\ \A s \in Signals : Place(s) = installed + 1 <=> s = sig
    BY Order DEF IInv, Typed, Keep
  <1>2. /\ pc = "forward" /\ signals[sig].now = "handler"
        /\ signals' = [signals EXCEPT ![sig] = Kept(@)]
        /\ installed' = installed + 1
        /\ UNCHANGED <<handling, pc, CHILD, foreground, child>>
    BY DEF Keep, signalsRest
  <1>3. \A s \in Signals : signals[s] \in Signal
    BY DEF IInv, Typed
  <1>4. signals' \in [Signals -> Signal]
    <2>1. Kept(signals[sig]) \in Signal
      BY <1>1, <1>3 DEF Kept, Signal
    <2> QED
      BY <1>1, <1>2, <2>1 DEF IInv, Typed
  <1>5. \A s \in Signals :
          /\ s # sig => signals'[s] = signals[s]
          /\ signals'[s].previous = signals[s].previous
          /\ signals'[s].raised = signals[s].raised /\ signals'[s].received = signals[s].received
          /\ s = sig => signals'[s].now = "ignored" /\ signals'[s].pending = FALSE
    BY <1>1, <1>2, <1>3 DEF IInv, Typed, Signal, Kept
  <1> HIDE DEF sig
  \* Only an ignored signal has the handler here, so only it loses what is pending.
  <1>6. signals[sig].previous = "ignored"
    BY <1>1, <1>2 DEF IInv, Laid, Typed, Place
  <1>7. Typed'
    BY <1>1, <1>2, <1>4 DEF IInv, Typed
  <1>8. Laid'
    BY <1>1, <1>2, <1>5, <1>6 DEF IInv, Typed, Laid, Starting, Place, Signal
  <1>9. Held'
    BY <1>2, <1>5 DEF IInv, Held, Typed, Handler
  <1>10. Counted'
    <2>1. \A s \in Signals : signals[s].received \in Nat /\ signals[s].raised \in Nat
      BY <1>3, RunAssumption DEF Signal
    <2>2. \A s \in Signals : Known(s)' <= Known(s) /\ (s # sig => Known(s)' = Known(s))
      BY <1>2, <1>5, <2>1 DEF Known, Pending, Taking
    <2>3. \A s \in Signals : Known(s) \in Nat /\ Known(s)' \in Nat
      BY <1>2, <1>5, <2>1 DEF Known, Pending, Taking
    <2> QED
      BY <1>2, <1>5, <1>6, <2>1, <2>2, <2>3 DEF IInv, Counted, Direct
  <1> QED
    BY <1>7, <1>8, <1>9, <1>10 DEF IInv

-----------------------------------------------------------------------------
(* The signals.                                                            *)

LEMMA RaiseKeeps ==
  ASSUME IInv, NEW sig \in Signals, NEW terminal \in BOOLEAN, Raise(sig, terminal)
  PROVE  IInv'
  <1>1. \A s \in Signals :
          /\ signals[s] \in Signal
          /\ signals[s].received \in Nat /\ signals[s].raised \in Nat
    BY RunAssumption DEF IInv, Typed, Signal
  <1>2. /\ SIGTERM \in Signals /\ SIGINT \in Signals /\ SIGTERM # SIGINT
        /\ \A s \in Signals : s = SIGTERM \/ s = SIGINT
    BY DEF Signals, SIGTERM, SIGINT
  <1>3. \A s \in Signals :
          /\ s # sig => signals'[s] = signals[s]
          /\ signals'[s].previous = signals[s].previous /\ signals'[s].now = signals[s].now
          /\ s = sig => /\ signals'[s].pending = TRUE /\ signals'[s].raised = signals[s].raised + 1
                        /\ signals'[s].received = IF terminal /\ child = "running"
                                                   THEN signals[s].received + 1 ELSE signals[s].received
    BY <1>1 DEF Raise, IInv, Typed, Signal
  <1>4. /\ UNCHANGED <<pc, installed, handling, CHILD, foreground>>
        /\ child' = IF terminal /\ child = "forked" THEN "zombie" ELSE child
        /\ pc \notin Ended /\ ~signals[sig].pending /\ signals[sig].now # "ignored"
        /\ terminal => foreground /\ sig = SIGINT
    BY DEF Raise
  <1>5. signals[sig].raised + 1 <= MaxSignals
    BY <1>1, <1>2, RunAssumption DEF Raise
  \* A terminal's signal penv was started ignoring can only be raised before the fork.
  <1>6. signals[sig].previous = "ignored" => child = "none"
    BY <1>1, <1>4 DEF IInv, Laid, Held, Signal, Ended
  <1>7. Typed'
    <2>1. signals'[sig].raised \in 0..MaxSignals /\ signals'[sig].received \in 0..MaxSignals
      BY <1>1, <1>3, <1>5, RunAssumption DEF IInv, Counted
    <2>2. signals' \in [Signals -> Signal]
      BY <1>1, <1>3, <2>1 DEF Raise, IInv, Typed, Signal
    <2> QED
      BY <1>4, <2>2 DEF IInv, Typed
  <1>8. Laid'
    BY <1>3, <1>4 DEF IInv, Laid, Place
  <1>9. Held'
    BY <1>3, <1>4 DEF IInv, Held, Typed, Handler, Alive
  <1>10. Counted'
    <2>1. \A s \in Signals : s # sig => Known(s)' = Known(s)
      BY <1>3, <1>4 DEF Known, Pending, Taking
    <2>2. Direct(sig) => Known(sig)' = Known(sig) + 1 /\ ~terminal
      BY <1>1, <1>2, <1>3, <1>4 DEF Known, Pending, Taking, Direct
    <2>3. \A s \in Signals : Known(s) \in Nat
      BY <1>1 DEF Known, Pending, Taking
    <2> SUFFICES ASSUME NEW s \in Signals
                 PROVE  /\ signals'[s].received <= signals'[s].raised
                        /\ signals'[s].previous = "ignored" => signals'[s].received = 0
                        /\ Direct(s) => Known(s)' <= signals'[s].raised
                        /\ /\ Direct(s) /\ signals'[s].previous = "default" /\ pc' \notin Ended
                           /\ child' \in {"none", "forked", "running"}
                           => Known(s)' = signals'[s].raised
      BY <1>4 DEF Counted, Direct
    <2>4. CASE s # sig
      BY <1>3, <1>4, <2>1, <2>4 DEF IInv, Counted
    <2>5. CASE s = sig
      BY <1>1, <1>3, <1>4, <1>6, <2>2, <2>3, <2>5 DEF IInv, Counted
    <2> QED
      BY <2>4, <2>5
  <1> QED
    BY <1>7, <1>8, <1>9, <1>10 DEF IInv

LEMMA DieKeeps == IInv /\ Die => IInv'
  <1> SUFFICES ASSUME IInv, Die PROVE IInv'
    OBVIOUS
  <1>1. pc' = "killed" /\ UNCHANGED <<installed, signals, handling, CHILD, foreground, child>>
    BY DEF Die
  <1>2. Typed'
    BY <1>1 DEF IInv, Typed, Ended
  <1>3. Laid'
    BY <1>1 DEF IInv, Laid, Starting, Place
  <1>4. Held'
    BY <1>1 DEF IInv, Held
  <1>5. Counted'
    BY <1>1 DEF IInv, Counted, Known, Pending, Taking, Direct, Ended
  <1> QED
    BY <1>2, <1>3, <1>4, <1>5 DEF IInv

LEMMA HandleKeeps == ASSUME IInv, NEW sig \in Signals, Handle(sig) PROVE IInv'
  <1>1. \A s \in Signals :
          /\ signals[s] \in Signal
          /\ signals[s].received \in Nat /\ signals[s].raised \in Nat
    BY RunAssumption DEF IInv, Typed, Signal
  <1>2. /\ signals[sig].pending /\ signals[sig].now = "handler" /\ handling = None
        /\ handling' = [sig |-> sig, child |-> CHILD, waiting |-> pc = "waiting"]
        /\ signals' = [signals EXCEPT ![sig].pending = FALSE]
        /\ UNCHANGED <<pc, installed, CHILD, foreground, child>>
        /\ pc \notin Ended
    BY DEF Handle, signalsRest
  <1>3. \A s \in Signals :
          /\ s # sig => signals'[s] = signals[s]
          /\ signals'[s].previous = signals[s].previous /\ signals'[s].now = signals[s].now
          /\ signals'[s].raised = signals[s].raised /\ signals'[s].received = signals[s].received
          /\ s = sig => signals'[s].pending = FALSE
    BY <1>1, <1>2 DEF IInv, Typed, Signal
  <1>4. handling' \in Handler /\ handling' # None /\ handling'.sig = sig
        /\ handling'.child = CHILD /\ handling'.waiting = (pc = "waiting")
    <2>1. CHILD \in BOOLEAN /\ (pc = "waiting") \in BOOLEAN
      BY Zenon DEF IInv, Typed
    <2>2. handling' \in Handler
      BY <1>2, <2>1, Zenon DEF Handler
    <2> QED
      BY <1>2, <2>2, RunAssumption, Zenon
  <1>5. Typed'
    <2>1. signals' \in [Signals -> Signal]
      BY <1>1, <1>2 DEF IInv, Typed, Signal
    <2> QED
      BY <1>2, <1>4, <2>1 DEF IInv, Typed
  <1>6. Laid'
    BY <1>2, <1>3 DEF IInv, Laid, Place
  \* A handler that knows of a child has a signal that was not ignored.
  <1>7. Held'
    <2>1. CHILD => signals[sig].previous = "default"
      BY <1>1, <1>2 DEF IInv, Laid, Held, Signal, Ended
    <2> QED
      BY <1>2, <1>3, <1>4, <2>1 DEF IInv, Held
  <1>8. Counted'
    <2>1. \A s \in Signals : Known(s)' = Known(s)
      BY <1>1, <1>2, <1>3, <1>4 DEF Known, Pending, Taking
    <2> QED
      BY <1>2, <1>3, <2>1 DEF IInv, Counted, Direct
  <1> QED
    BY <1>5, <1>6, <1>7, <1>8 DEF IInv

LEMMA PassOnKeeps == IInv /\ PassOn => IInv'
  <1> SUFFICES ASSUME IInv, PassOn PROVE IInv'
    OBVIOUS
  <1>0. PICK sig \in Signals : sig = handling.sig
    BY DEF PassOn, IInv, Typed, Handler
  <1> DEFINE sent == handling.child /\ ~FromTerminal(sig) /\ child = "running"
  <1>1. \A s \in Signals :
          /\ signals[s] \in Signal
          /\ signals[s].received \in Nat /\ signals[s].raised \in Nat
    BY RunAssumption DEF IInv, Typed, Signal
  <1>2. /\ handling # None /\ handling \in Handler /\ sig = handling.sig
        /\ pc \notin Ended /\ handling' = None
        /\ pc' = IF handling.child THEN pc ELSE "killed"
        /\ signals' = IF sent THEN [signals EXCEPT ![sig].received = @ + 1] ELSE signals
        /\ UNCHANGED <<installed, CHILD, foreground, child>>
    BY <1>0 DEF PassOn, IInv, Typed
  <1>3. \A s \in Signals :
          /\ (s # sig \/ ~sent) => signals'[s] = signals[s]
          /\ signals'[s].previous = signals[s].previous /\ signals'[s].now = signals[s].now
          /\ signals'[s].raised = signals[s].raised /\ signals'[s].pending = signals[s].pending
          /\ s = sig /\ sent => signals'[s].received = signals[s].received + 1
    BY <1>1, <1>2 DEF IInv, Typed, Signal
  <1>4. /\ sent <=> handling.child /\ Direct(sig) /\ child = "running"
        /\ handling.child => child \in Alive /\ signals[sig].previous = "default"
    BY <1>2 DEF FromTerminal, Direct, IInv, Held
  <1>5. Known(sig) = signals[sig].received + Pending(sig) + 1 /\ Pending(sig) \in {0, 1}
    BY <1>1, <1>2 DEF Known, Pending, Taking
  <1> HIDE DEF sent
  <1>6. Typed'
    <2>1. sent => signals[sig].received + 1 \in 0..MaxSignals
      BY <1>1, <1>2, <1>4, <1>5, RunAssumption DEF IInv, Counted, Signal
    <2>2. signals' \in [Signals -> Signal]
      BY <1>1, <1>2, <2>1 DEF IInv, Typed, Signal
    <2> QED
      BY <1>2, <2>2 DEF IInv, Typed, Ended
  <1>7. Laid'
    BY <1>2, <1>3 DEF IInv, Laid, Place, Starting
  <1>8. Held'
    BY <1>2, <1>3 DEF IInv, Held
  <1>9. Counted'
    <2>1. \A s \in Signals : s # sig => Known(s)' = Known(s)
      BY <1>2, <1>3 DEF Known, Pending, Taking
    <2>2. Known(sig)' = IF sent THEN Known(sig) ELSE Known(sig) - 1
      <3>1. Taking(sig)' = 0
        BY <1>2 DEF Taking
      <3>2. Pending(sig)' = Pending(sig)
        BY <1>2, <1>3 DEF Pending
      <3>3. signals'[sig].received = IF sent THEN signals[sig].received + 1 ELSE signals[sig].received
        BY <1>2, <1>3
      <3>4. Known(sig)' = signals'[sig].received + Pending(sig)
        BY <1>1, <1>2, <1>5, <3>1, <3>2, <3>3 DEF Known
      <3> QED
        BY <1>1, <1>2, <1>5, <3>3, <3>4
    <2>3. \A s \in Signals : Known(s) \in Nat
      BY <1>1 DEF Known, Pending, Taking
    <2> SUFFICES ASSUME NEW s \in Signals
                 PROVE  /\ signals'[s].received <= signals'[s].raised
                        /\ signals'[s].previous = "ignored" => signals'[s].received = 0
                        /\ Direct(s) => Known(s)' <= signals'[s].raised
                        /\ /\ Direct(s) /\ signals'[s].previous = "default" /\ pc' \notin Ended
                           /\ child' \in {"none", "forked", "running"}
                           => Known(s)' = signals'[s].raised
      BY <1>2 DEF Counted, Direct
    <2>4. CASE s # sig
      BY <1>2, <1>3, <2>1, <2>4 DEF IInv, Counted, Ended
    <2>5. CASE s = sig
      <3>1. CASE sent
        BY <1>1, <1>2, <1>3, <1>4, <1>5, <2>2, <2>3, <2>5, <3>1 DEF IInv, Counted, Alive, Ended
      <3>2. CASE ~sent
        <4>1. signals'[s] = signals[s]
          BY <1>3, <2>5, <3>2
        <4>2. /\ signals[s].received <= signals[s].raised
              /\ signals[s].previous = "ignored" => signals[s].received = 0
              /\ Direct(s) => Known(s) <= signals[s].raised
          BY DEF IInv, Counted
        <4>3. Known(s)' <= Known(s) /\ Known(s)' = Known(s) - 1
          BY <2>2, <2>3, <2>5, <3>2
        \* Not handed on: penv dies of it, or the child does not run.
        <4>4. Direct(s) => pc' \in Ended \/ child' \notin {"none", "forked", "running"}
          BY <1>2, <1>4, <2>5, <3>2 DEF Alive, Ended
        <4> QED
          BY <1>1, <1>2, <2>2, <2>3, <2>5, <3>2, <4>1, <4>2, <4>3, <4>4
      <3> QED
        BY <3>1, <3>2
    <2> QED
      BY <2>4, <2>5
  <1> QED
    BY <1>6, <1>7, <1>8, <1>9 DEF IInv

-----------------------------------------------------------------------------
(* The child.                                                              *)

\* What is not the signals' own, and how it may change without moving a count.
LEMMA SignalsKept ==
  ASSUME IInv, UNCHANGED <<signals, handling, foreground>>,
         \/ pc' \in Ended
         \/ child' \notin {"none", "forked", "running"}
         \/ pc \notin Ended /\ child \in {"none", "forked", "running"}
  PROVE  Counted'
  <1>1. \A s \in Signals : Known(s)' = Known(s)
    BY DEF Known, Pending, Taking
  <1> QED
    BY <1>1 DEF IInv, Counted, Direct

LEMMA ForkKeeps == IInv /\ Fork => IInv'
  <1> SUFFICES ASSUME IInv, Fork PROVE IInv'
    OBVIOUS
  <1>1. /\ pc = "forward" /\ installed = 2 /\ pc' = "forked" /\ child' = "forked"
        /\ UNCHANGED <<signals, CHILD, installed, handling, foreground>>
    BY Order DEF Fork, childRest
  <1>2. Typed'
    BY <1>1 DEF IInv, Typed
  <1>3. Laid'
    BY <1>1 DEF IInv, Laid, Starting, Place, Signal
  <1>4. Held'
    BY <1>1 DEF IInv, Held, Alive
  <1>5. Counted'
    BY <1>1, SignalsKept DEF IInv, Held, Ended
  <1> QED
    BY <1>2, <1>3, <1>4, <1>5 DEF IInv

LEMMA SpawnKeeps == IInv /\ (Exec \/ Spawned \/ ChildStarted \/ ChildEnds \/ Wait) => IInv'
  <1> SUFFICES ASSUME IInv, Exec \/ Spawned \/ ChildStarted \/ ChildEnds \/ Wait PROVE IInv'
    OBVIOUS
  <1>1. /\ UNCHANGED <<signals, installed, handling, foreground>>
        /\ \/ pc' = pc /\ CHILD' = CHILD /\ child = "forked" /\ child' = "running"
           \/ pc = "forked" /\ pc' = "spawned" /\ child # "forked" /\ UNCHANGED <<child, CHILD>>
           \/ pc = "spawned" /\ pc' = "waiting" /\ CHILD' = TRUE /\ child' = child
           \/ pc' = pc /\ CHILD' = CHILD /\ child = "running" /\ child' = "zombie"
           \/ pc = "waiting" /\ pc' = "reaped" /\ CHILD' = CHILD /\ child = "zombie" /\ child' = "reaped"
    BY DEF Exec, Spawned, ChildStarted, ChildEnds, Wait, childRest, Stored
  <1>2. Typed'
    BY <1>1 DEF IInv, Typed
  <1>3. Laid'
    BY <1>1 DEF IInv, Laid, Starting, Place
  <1>4. Held'
    BY <1>1 DEF IInv, Held, Alive, Typed
  <1>5. Counted'
    BY <1>1, SignalsKept DEF IInv, Ended
  <1> QED
    BY <1>2, <1>3, <1>4, <1>5 DEF IInv

\* No child, and every disposition as penv was started with it.
LEMMA RestoreKeeps ==
  ASSUME IInv, Restore, UNCHANGED <<installed, handling, foreground>>,
         \/ pc = "forked" /\ pc' = "failed" /\ child = "forked" /\ child' = "none"
         \/ pc = "reaped" /\ pc' = "draining" /\ child' = child
  PROVE  IInv'
  <1>1. \A s \in Signals : signals[s] \in Signal
    BY DEF IInv, Typed
  <1>2. \A s \in Signals : signals'[s] = [signals[s] EXCEPT !.now = signals[s].previous]
    BY DEF Restore
  <1>3. \A s \in Signals :
          /\ signals'[s] \in Signal
          /\ signals'[s].previous = signals[s].previous /\ signals'[s].now = signals[s].previous
          /\ signals'[s].raised = signals[s].raised /\ signals'[s].received = signals[s].received
          /\ signals'[s].pending = signals[s].pending
    BY <1>1, <1>2 DEF Signal
  <1>4. Typed'
    <2>1. signals' \in [Signals -> Signal]
      BY <1>3 DEF Restore
    <2> QED
      BY <2>1 DEF IInv, Typed, Ended, Restore
  <1>5. Laid'
    BY <1>1, <1>3 DEF IInv, Laid, Starting, Place, Signal
  <1>6. Held'
    BY <1>3 DEF IInv, Held, Alive, Restore, Typed, Handler
  <1>7. Counted'
    <2>1. \A s \in Signals : Known(s)' = Known(s)
      BY <1>3 DEF Known, Pending, Taking
    <2> QED
      BY <1>3, <2>1 DEF IInv, Counted, Direct, Ended
  <1> QED
    BY <1>4, <1>5, <1>6, <1>7 DEF IInv

-----------------------------------------------------------------------------
(* Its output, and what is left.                                           *)

LEMMA RestKeeps ==
  /\ IInv
  /\ UNCHANGED <<installed, signals, handling, CHILD, foreground, child>>
  /\ pc' = pc \/ (pc = "draining" /\ pc' = "exited")
  => IInv'
  <1> SUFFICES ASSUME IInv, UNCHANGED <<installed, signals, handling, CHILD, foreground, child>>,
                      pc' = pc \/ (pc = "draining" /\ pc' = "exited")
               PROVE  IInv'
    OBVIOUS
  <1>1. Typed'
    BY DEF IInv, Typed, Ended
  <1>2. Laid'
    BY DEF IInv, Laid, Starting, Place
  <1>3. Held'
    BY DEF IInv, Held
  <1>4. Counted'
    <2>1. \A s \in Signals : Known(s)' = Known(s)
      BY DEF Known, Pending, Taking
    <2> QED
      BY <2>1 DEF IInv, Counted, Direct, Ended
  <1> QED
    BY <1>1, <1>2, <1>3, <1>4 DEF IInv

LEMMA OutputOnly ==
  ASSUME NEW p, NEW o, Becomes(p, o)
  PROVE  UNCHANGED <<pc, installed, signals, handling, CHILD, foreground, child>>
  BY DEF Becomes

LEMMA Steps == IInv /\ [Next]_vars => IInv'
  <1> SUFFICES ASSUME IInv, [Next]_vars PROVE IInv'
    OBVIOUS
  <1>1. CASE Install \/ Keep
    BY <1>1, InstallKeeps, KeepKeeps
  <1>2. CASE Fork
    BY <1>2, ForkKeeps
  <1>3. CASE Exec \/ Spawned \/ ChildStarted \/ ChildEnds \/ Wait
    BY <1>3, SpawnKeeps
  <1>4. CASE SpawnFails \/ Restored
    BY <1>4, RestoreKeeps DEF SpawnFails, Restored, childRest
  <1>5. CASE Tick \/ Exit \/ DescendantEnds
    <2>1. /\ UNCHANGED <<installed, signals, handling, CHILD, foreground, child>>
          /\ pc' = pc \/ (pc = "draining" /\ pc' = "exited")
      BY <1>5 DEF Tick, Exit, DescendantEnds, childRest
    <2> QED
      BY <2>1, RestKeeps
  <1>6. CASE Taken
    BY <1>6, DieKeeps, PassOnKeeps, HandleKeeps DEF Taken
  <1>7. CASE \E sig \in Signals, terminal \in BOOLEAN : Raise(sig, terminal)
    BY <1>7, RaiseKeeps
  <1>8. CASE \E p \in Pumps : Pump(p) \/ Write(p) \/ ReaderLeaves(p)
    <2> PICK p \in Pumps : Pump(p) \/ Write(p) \/ ReaderLeaves(p)
      BY <1>8
    <2>1. UNCHANGED <<pc, installed, signals, handling, CHILD, foreground, child>>
      BY OutputOnly DEF Pump, PumpReads, PumpSends, PumpStops, PumpEnds, PumpFinishes, Write, ReaderLeaves
    <2>2. UNCHANGED <<installed, signals, handling, CHILD, foreground, child>> /\ pc' = pc
      BY <2>1
    <2> QED
      BY <2>2, RestKeeps
  <1>9. CASE UNCHANGED vars
    <2>1. UNCHANGED <<installed, signals, handling, CHILD, foreground, child>> /\ pc' = pc
      BY <1>9 DEF vars
    <2> QED
      BY <2>1, RestKeeps
  <1> QED
    BY <1>1, <1>2, <1>3, <1>4, <1>5, <1>6, <1>7, <1>8, <1>9 DEF Next, Spawn

LEMMA Invariance == Spec => []IInv
  BY Initially, Steps, PTL DEF Spec

-----------------------------------------------------------------------------
(* What follows.                                                           *)

\* Every variable a signal reads keeps its type (the output's units are bounded by
\* a sum over the pipes, which stays with TLC).
THEOREM Typing == Spec => []Typed
  <1>1. IInv => Typed
    BY DEF IInv
  <1> QED
    BY <1>1, Invariance, PTL

\* No signal reaches the child twice or after penv was started ignoring it, and those
\* only penv was sent reach it as often as they were raised (run.rs, pass_on).
THEOREM Arriving == Spec => []SignalsArrive
  <1>1. IInv => SignalsArrive
    <2> SUFFICES ASSUME IInv, NEW sig \in Signals
                 PROVE  /\ signals[sig].received <=
                             (IF signals[sig].previous = "ignored" THEN 0 ELSE signals[sig].raised)
                        /\ Settled(sig) /\ (sig = SIGTERM \/ ~foreground) =>
                             signals[sig].received = signals[sig].raised
      BY DEF SignalsArrive, SignalsReachOnce, PassedOn
    <2>1. signals[sig].received \in Nat /\ signals[sig].raised \in Nat
      BY RunAssumption DEF IInv, Typed, Signal
    <2>2. Settled(sig) => Known(sig) = signals[sig].received
      BY <2>1 DEF Settled, Known, Pending, Taking
    <2> QED
      BY <2>1, <2>2 DEF IInv, Counted, Direct, Settled
  <1> QED
    BY <1>1, Invariance, PTL

\* penv does not die, before its child, of a signal it takes while it waits for it
\* (run.rs, signals).
THEOREM Staying == Spec => StaysWithChild
  <1> DEFINE Stays == pc' = "killed" /\ child = "running" /\ pc \in {"waiting", "reaped"}
                        => handling # None /\ ~handling.waiting
  <1>1. IInv /\ [Next]_vars => [Stays]_vars
    <2> SUFFICES ASSUME IInv, Next, pc' = "killed", pc \in {"waiting", "reaped"}
                 PROVE  handling # None /\ ~handling.waiting
      BY DEF vars
    <2>1. \A sig \in Signals : signals[sig].now # "default"
      BY DEF IInv, Laid, Starting, Place
    <2>2. ~Die
      BY <2>1 DEF Die
    <2>3. ~Install /\ ~Keep /\ ~Fork /\ ~Tick
      BY DEF Install, Keep, Fork, Tick
    <2>4. ~SpawnFails /\ ~Spawned /\ ~ChildStarted /\ ~Wait /\ ~Restored /\ ~Exit
      BY DEF SpawnFails, Spawned, ChildStarted, Wait, Restored, Exit
    <2>5. ~Exec /\ ~ChildEnds /\ ~DescendantEnds
      BY DEF Exec, ChildEnds, DescendantEnds
    <2>6. ~\E sig \in Signals : Handle(sig) \/ \E terminal \in BOOLEAN : Raise(sig, terminal)
      BY DEF Handle, Raise, signalsRest
    <2>7. ~\E p \in Pumps : Pump(p) \/ Write(p) \/ ReaderLeaves(p)
      BY DEF Pump, PumpReads, PumpSends, PumpStops, PumpEnds, PumpFinishes, Write, ReaderLeaves, Becomes
    <2>8. PassOn
      BY <2>2, <2>3, <2>4, <2>5, <2>6, <2>7 DEF Next, Spawn, Taken
    <2>9. handling # None /\ ~handling.child
      BY <2>8 DEF PassOn
    <2> QED
      BY <2>9 DEF IInv, Held
  <1> QED
    BY <1>1, Invariance, PTL DEF Spec, StaysWithChild

-----------------------------------------------------------------------------
(* What of its output is lost.                                             *)

Flow == [pump : {"off", "reading", "writing", "finishing", "closed"}, reader : {"reading", "gone"},
         pipe : Nat, held : 0..1, chunk : Nat, delivered : Nat, own : Nat]

FlowTyped ==
  /\ out \in [Pumps -> Flow]
  /\ idle \in Nat
  /\ piped \in BOOLEAN

\* Up to the last unit the child wrote, everything is on its way to a reader that
\* stays: a pump that stops has handed it on, and stops only after the child.
OnItsWay(p) ==
  LET o == out[p] IN
  /\ o.pump \in {"off", "reading"} => o.chunk = 0
  /\ o.reader = "reading" =>
       /\ o.own <= o.pipe + o.held + o.chunk + o.delivered
       /\ o.pump \in {"finishing", "closed"} => child \in {"zombie", "reaped"}
       /\ o.pump = "finishing" => o.own <= o.held + o.delivered
       /\ o.pump = "closed" => o.own <= o.delivered

TailOnly(p) == out[p].reader = "reading" => out[p].own <= out[p].delivered + 1

\* The drain begins after the child has left; a tick that counts found nothing of the
\* child's outside the maskers.
Draining ==
  /\ pc \in {"forward", "forked", "spawned"} => \A p \in Pumps : out[p].pump = "off"
  /\ pc \in {"waiting", "reaped", "draining", "exited"} /\ piped => \A p \in Pumps : out[p].pump # "off"
  /\ ~piped => \A p \in Pumps : out[p].own = 0
  /\ pc \in {"reaped", "draining", "exited"} => child = "reaped"
  /\ pc \notin {"draining"} \cup Ended => idle = 0
  /\ idle # 0 => child = "reaped" /\ \A p \in Pumps : TailOnly(p)

TailInv ==
  /\ FlowTyped
  /\ \A p \in Pumps : OnItsWay(p)
  /\ Draining
  /\ OnlyTheTailIsLost

LEMMA TailInitially == Init => TailInv
  <1> SUFFICES ASSUME Init PROVE TailInv
    OBVIOUS
  <1>1. out = [p \in Pumps |-> [pump |-> "off", reader |-> "reading",
                                pipe |-> 0, held |-> 0, chunk |-> 0, delivered |-> 0, own |-> 0]]
    BY DEF Init
  <1>2. FlowTyped
    <2>1. [pump |-> "off", reader |-> "reading", pipe |-> 0, held |-> 0, chunk |-> 0,
           delivered |-> 0, own |-> 0] \in Flow
      BY DEF Flow
    <2>2. out \in [Pumps -> Flow]
      BY <1>1, <2>1
    <2>3. idle \in Nat /\ piped \in BOOLEAN
      BY DEF Init
    <2> QED
      BY <2>2, <2>3, Zenon DEF FlowTyped
  <1>3. \A p \in Pumps : OnItsWay(p)
    BY <1>1 DEF OnItsWay
  <1>4. Draining
    BY <1>1 DEF Init, Draining
  <1>5. OnlyTheTailIsLost
    BY <1>1 DEF OnlyTheTailIsLost
  <1> QED
    BY <1>2, <1>3, <1>4, <1>5 DEF TailInv

\* One pipe moves, and what it becomes is as it should be.
LEMMA OneFlow ==
  ASSUME TailInv, NEW p \in Pumps, NEW o \in Flow, Becomes(p, o),
         OnItsWay(p)', o.pump = "off" <=> out[p].pump = "off",
         ~piped => o.own = 0, idle # 0 => TailOnly(p)'
  PROVE  TailInv'
  <1>1. /\ out' = [out EXCEPT ![p] = o] /\ pc \notin Ended
        /\ UNCHANGED <<pc, child, piped, idle>>
    BY DEF Becomes
  <1>2. out'[p] = o /\ \A q \in Pumps : q # p => out'[q] = out[q]
    BY <1>1 DEF TailInv, FlowTyped
  <1>3. FlowTyped'
    BY <1>1 DEF TailInv, FlowTyped
  <1>4. \A q \in Pumps : OnItsWay(q)'
    BY <1>1, <1>2 DEF TailInv, OnItsWay
  <1>5. Draining'
    <2>1. \A q \in Pumps : q # p => (TailOnly(q)' <=> TailOnly(q))
      BY <1>2 DEF TailOnly
    <2> QED
      BY <1>1, <1>2, <2>1 DEF TailInv, Draining
  <1>6. OnlyTheTailIsLost'
    BY <1>1 DEF OnlyTheTailIsLost, Ended
  <1> QED
    BY <1>3, <1>4, <1>5, <1>6 DEF TailInv

\* What a pump does to its pipe, the child's last unit aside.
LEMMA PumpKeepsTail ==
  ASSUME TailInv, NEW p \in Pumps, Pump(p)
  PROVE  TailInv'
  <1> DEFINE o == out[p]
  <1>0. o \in Flow /\ OnItsWay(p) /\ (~piped => o.own = 0) /\ (idle # 0 => TailOnly(p))
    BY DEF TailInv, FlowTyped, Draining
  <1>1. CASE PumpReads(p)
    <2> PICK n \in 1..o.pipe, kept \in 0..1 :
          Becomes(p, [o EXCEPT !.pump = IF o.held + n - kept = 0 THEN "reading" ELSE "writing",
                               !.pipe = @ - n, !.held = kept, !.chunk = o.held + n - kept])
      BY <1>1 DEF PumpReads
    <2> DEFINE sent == o.held + n - kept
               new == [o EXCEPT !.pump = IF sent = 0 THEN "reading" ELSE "writing",
                                !.pipe = @ - n, !.held = kept, !.chunk = sent]
    <2>1. sent \in Nat /\ o.pipe - n \in Nat
      BY <1>0 DEF Flow
    <2>2. new \in Flow
      BY <1>0, <2>1 DEF Flow
    <2>3. out'[p] = new /\ child' = child
      BY DEF Becomes, TailInv, FlowTyped
    <2>4. OnItsWay(p)'
      BY <1>0, <1>1, <2>1, <2>2, <2>3 DEF OnItsWay, Flow, PumpReads
    <2>5. TailOnly(p) => TailOnly(p)'
      BY <1>0, <2>3 DEF TailOnly, Flow
    <2>6. Becomes(p, new) /\ o.pump = "reading" /\ new.pump # "off" /\ new.own = o.own
      BY <1>0, <1>1 DEF PumpReads, Flow
    <2> QED
      BY <1>0, <2>2, <2>4, <2>5, <2>6, OneFlow
  <1>2. CASE PumpSends(p)
    <2> DEFINE sum == o.delivered + o.chunk
               new == [o EXCEPT !.pump = "reading", !.chunk = 0, !.delivered = sum]
    <2>1. Becomes(p, new) /\ o.pump = "writing"
      BY <1>2 DEF PumpSends
    <2>2. new \in Flow
      <3>1. sum \in Nat /\ 0 \in Nat
        BY <1>0 DEF Flow
      <3> HIDE DEF sum
      <3> QED
        BY <1>0, <3>1 DEF Flow
    <2>3. out'[p] = new /\ child' = child
      BY <2>1 DEF Becomes, TailInv, FlowTyped
    <2>4. OnItsWay(p)'
      BY <1>0, <2>1, <2>3 DEF OnItsWay, Flow
    <2>5. TailOnly(p) => TailOnly(p)'
      BY <1>0, <2>3 DEF TailOnly, Flow
    <2> QED
      BY <1>0, <2>1, <2>2, <2>4, <2>5, OneFlow DEF Flow
  <1>3. CASE PumpStops(p)
    <2> DEFINE new == [o EXCEPT !.pump = "closed"]
    <2>1. Becomes(p, new) /\ o.reader = "gone" /\ o.pump = "writing"
      BY <1>3 DEF PumpStops
    <2>2. new \in Flow
      BY <1>0 DEF Flow
    <2>3. out'[p] = new
      BY <2>1 DEF Becomes, TailInv, FlowTyped
    <2>4. OnItsWay(p)' /\ TailOnly(p)'
      BY <1>0, <2>1, <2>3 DEF OnItsWay, TailOnly, Flow
    <2> QED
      BY <1>0, <2>1, <2>2, <2>4, OneFlow DEF Flow
  <1>4. CASE PumpEnds(p)
    <2> DEFINE new == [o EXCEPT !.pump = IF o.held = 0 THEN "closed" ELSE "finishing"]
    <2>1. Becomes(p, new) /\ o.pump = "reading" /\ o.pipe = 0 /\ child \in {"zombie", "reaped"}
      BY <1>4 DEF PumpEnds, Eof
    <2>2. new \in Flow
      BY <1>0 DEF Flow
    <2>3. out'[p] = new /\ child' = child
      BY <2>1 DEF Becomes, TailInv, FlowTyped
    <2>4. OnItsWay(p)'
      BY <1>0, <2>1, <2>3 DEF OnItsWay, Flow
    <2>5. TailOnly(p) => TailOnly(p)'
      BY <1>0, <2>3 DEF TailOnly, Flow
    <2> QED
      BY <1>0, <2>1, <2>2, <2>4, <2>5, OneFlow DEF Flow
  <1>5. CASE PumpFinishes(p)
    <2> DEFINE taken == IF o.reader = "reading" THEN o.held ELSE 0
               sum == o.delivered + taken
               new == [o EXCEPT !.pump = "closed", !.held = 0, !.delivered = sum]
    <2>1. Becomes(p, new) /\ o.pump = "finishing"
      BY <1>5 DEF PumpFinishes
    <2>2. new \in Flow /\ taken \in Nat
      <3>1. sum \in Nat /\ taken \in Nat /\ 0 \in 0..1
        BY <1>0 DEF Flow
      <3> HIDE DEF sum, taken
      <3> QED
        BY <1>0, <3>1 DEF Flow
    <2>3. out'[p] = new /\ child' = child
      BY <2>1 DEF Becomes, TailInv, FlowTyped
    <2>4. OnItsWay(p)'
      BY <1>0, <2>1, <2>2, <2>3 DEF OnItsWay, Flow
    <2>5. TailOnly(p) => TailOnly(p)'
      BY <1>0, <2>2, <2>3 DEF TailOnly, Flow
    <2> QED
      BY <1>0, <2>1, <2>2, <2>4, <2>5, OneFlow DEF Flow
  <1> QED
    BY <1>1, <1>2, <1>3, <1>4, <1>5 DEF Pump

\* A unit of a descendant's comes after the child's; the child's own comes while it
\* runs, so before any tick counts.
LEMMA WriteKeepsTail ==
  ASSUME TailInv, NEW p \in Pumps, Write(p) \/ ReaderLeaves(p)
  PROVE  TailInv'
  <1> DEFINE o == out[p]
  <1>0. o \in Flow /\ OnItsWay(p) /\ (~piped => o.own = 0) /\ (idle # 0 => TailOnly(p))
    BY DEF TailInv, FlowTyped, Draining
  <1>1. CASE Write(p)
    <2> DEFINE own == IF child = "running" THEN Written(p) + 1 ELSE o.own
               new == [o EXCEPT !.pipe = @ + 1, !.own = own]
    <2>1. Becomes(p, new) /\ piped
      BY <1>1 DEF Write
    <2>2. new \in Flow /\ own \in Nat
      <3>1. own \in Nat /\ o.pipe + 1 \in Nat
        BY <1>0 DEF Flow, Written
      <3> HIDE DEF own
      <3> QED
        BY <1>0, <3>1 DEF Flow
    <2>3. out'[p] = new /\ child' = child
      BY <2>1 DEF Becomes, TailInv, FlowTyped
    <2>4. OnItsWay(p)'
      BY <1>0, <2>2, <2>3 DEF OnItsWay, Flow, Written
    <2>5. idle # 0 => TailOnly(p)'
      BY <1>0, <2>3 DEF TailInv, Draining, TailOnly, Flow
    <2> QED
      BY <1>0, <2>1, <2>2, <2>4, <2>5, OneFlow DEF Flow
  <1>2. CASE ReaderLeaves(p)
    <2> DEFINE new == [o EXCEPT !.reader = "gone"]
    <2>1. Becomes(p, new)
      BY <1>2 DEF ReaderLeaves
    <2>2. new \in Flow
      BY <1>0 DEF Flow
    <2>3. out'[p] = new
      BY <2>1 DEF Becomes, TailInv, FlowTyped
    <2>4. OnItsWay(p)' /\ TailOnly(p)'
      BY <1>0, <2>3 DEF OnItsWay, TailOnly, Flow
    <2> QED
      BY <1>0, <2>1, <2>2, <2>4, OneFlow DEF Flow
  <1> QED
    BY <1>1, <1>2

\* What moves no pipe, no tick and no child that left, and does not end the drain.
LEMMA Unmoved ==
  ASSUME TailInv, UNCHANGED <<out, piped, idle>>,
         child' = child \/ child \notin {"zombie", "reaped"} \/ (child = "zombie" /\ child' = "reaped"),
         pc' \in {"waiting", "reaped", "draining", "exited"} =>
           \/ pc = pc'
           \/ pc = "waiting" /\ pc' = "reaped"
           \/ pc = "reaped" /\ pc' = "draining",
         pc' \in {"reaped", "draining", "exited"} => child' = "reaped",
         pc \in {"draining"} \cup Ended => pc' \in {"draining"} \cup Ended,
         pc' \in {"forward", "forked", "spawned"} => pc \in {"forward", "forked", "spawned"}
  PROVE  TailInv'
  <1>1. FlowTyped'
    BY DEF TailInv, FlowTyped
  <1>2. \A p \in Pumps : OnItsWay(p)'
    BY DEF TailInv, OnItsWay
  <1>3. Draining'
    BY DEF TailInv, Draining, TailOnly, Ended
  <1>4. OnlyTheTailIsLost'
    BY DEF TailInv, OnlyTheTailIsLost
  <1> QED
    BY <1>1, <1>2, <1>3, <1>4 DEF TailInv

LEMMA TailSteps == TailInv /\ IInv /\ [Next]_vars => TailInv'
  <1> SUFFICES ASSUME TailInv, IInv, [Next]_vars PROVE TailInv'
    OBVIOUS
  <1>0. /\ pc \in {"reaped", "draining", "exited"} => child = "reaped"
        /\ pc \in {"waiting", "reaped", "draining", "exited"} /\ piped => \A p \in Pumps : out[p].pump # "off"
        /\ pc = "forward" => child = "none"
    BY DEF TailInv, Draining, IInv, Held
  <1>1. CASE Install \/ Keep \/ Die \/ PassOn \/ \E sig \in Signals : Handle(sig)
    <2>1. UNCHANGED <<out, piped, idle, child>> /\ (pc' = pc \/ (pc \notin Ended /\ pc' = "killed"))
      BY <1>1 DEF Install, Keep, Die, PassOn, Handle, signalsRest
    <2> QED
      BY <1>0, <2>1, Unmoved DEF Ended
  <1>2. CASE \E sig \in Signals, terminal \in BOOLEAN : Raise(sig, terminal)
    <2>1. UNCHANGED <<out, piped, idle, pc>> /\ (child' = child \/ child = "forked")
      BY <1>2 DEF Raise
    <2> QED
      BY <1>0, <2>1, Unmoved
  <1>3. CASE Fork \/ SpawnFails \/ Spawned
    <2>1. /\ UNCHANGED <<out, piped, idle>> /\ pc \in {"forward", "forked"}
          /\ pc' \in {"forked", "failed", "spawned"}
          /\ child' = child \/ child \in {"none", "forked"}
      BY <1>0, <1>3 DEF Fork, SpawnFails, Spawned, childRest
    <2> QED
      BY <2>1, Unmoved DEF Ended
  <1>4. CASE Exec \/ ChildEnds \/ DescendantEnds
    <2>1. UNCHANGED <<out, piped, idle, pc>> /\ (child' = child \/ child \in {"forked", "running"})
      BY <1>4 DEF Exec, ChildEnds, DescendantEnds, childRest
    <2> QED
      BY <1>0, <2>1, Unmoved
  <1>5. CASE Wait \/ Restored
    <2>1. /\ UNCHANGED <<out, piped, idle>>
          /\ \/ pc = "waiting" /\ pc' = "reaped" /\ child = "zombie" /\ child' = "reaped"
             \/ pc = "reaped" /\ pc' = "draining" /\ child' = child
      BY <1>5 DEF Wait, Restored, childRest
    <2> QED
      BY <1>0, <2>1, Unmoved DEF Ended
  <1>6. CASE ChildStarted
    <2>1. /\ out' = [p \in Pumps |-> [out[p] EXCEPT !.pump = IF piped THEN "reading" ELSE "off"]]
          /\ pc = "spawned" /\ pc' = "waiting" /\ UNCHANGED <<child, piped, idle>>
      BY <1>6 DEF ChildStarted, childRest
    <2>2. \A p \in Pumps :
            /\ out[p] \in Flow
            /\ out'[p] = [out[p] EXCEPT !.pump = IF piped THEN "reading" ELSE "off"]
      BY <2>1 DEF TailInv, FlowTyped
    <2>3. FlowTyped'
      BY <2>1, <2>2 DEF TailInv, FlowTyped, Flow
    <2>4. \A p \in Pumps : out[p].pump = "off"
      BY <2>1 DEF TailInv, Draining
    <2>5. \A p \in Pumps : OnItsWay(p)'
      BY <2>1, <2>2, <2>4 DEF TailInv, OnItsWay, Flow
    <2>6. Draining'
      BY <2>1, <2>2 DEF TailInv, Draining, Flow, Ended
    <2>7. OnlyTheTailIsLost'
      BY <2>1 DEF OnlyTheTailIsLost
    <2> QED
      BY <2>3, <2>5, <2>6, <2>7 DEF TailInv
  <1>7. CASE Tick
    <2>1. /\ pc = "draining" /\ child = "reaped" /\ idle' = idle + 1
          /\ \A p \in Pumps : Waits(p) /\ out[p].pump # "writing"
          /\ UNCHANGED <<pc, child, piped, out>>
      BY <1>0, <1>7 DEF Tick, Counts
    <2>2. \A p \in Pumps : TailOnly(p)
      <3> SUFFICES ASSUME NEW p \in Pumps, out[p].reader = "reading"
                   PROVE  out[p].own <= out[p].delivered + 1
        BY DEF TailOnly
      <3>1. out[p] \in Flow /\ OnItsWay(p) /\ out[p].pump # "writing"
        BY <2>1 DEF TailInv, FlowTyped
      <3>2. CASE out[p].pump = "off"
        BY <1>0, <2>1, <3>1, <3>2 DEF TailInv, Draining, FlowTyped, Flow
      <3>3. CASE out[p].pump = "reading"
        BY <2>1, <3>1, <3>3 DEF Waits, OnItsWay, Flow
      <3>4. CASE out[p].pump \in {"finishing", "closed"}
        BY <3>1, <3>4 DEF OnItsWay, Flow
      <3> QED
        BY <3>1, <3>2, <3>3, <3>4 DEF Flow
    <2>3. FlowTyped' /\ OnlyTheTailIsLost'
      BY <2>1 DEF TailInv, FlowTyped, OnlyTheTailIsLost
    <2>4. \A p \in Pumps : OnItsWay(p)'
      BY <2>1 DEF TailInv, OnItsWay
    <2>5. Draining'
      BY <2>1, <2>2 DEF TailInv, Draining, TailOnly, Ended
    <2> QED
      BY <2>3, <2>4, <2>5 DEF TailInv
  <1>8. CASE Exit
    <2>1. /\ pc = "draining" /\ pc' = "exited" /\ child = "reaped" /\ (Drained \/ idle = Drain)
          /\ UNCHANGED <<child, piped, idle, out>>
      BY <1>0, <1>8 DEF Exit, childRest
    <2>2. \A p \in Pumps : TailOnly(p)
      <3> SUFFICES ASSUME NEW p \in Pumps PROVE TailOnly(p)
        OBVIOUS
      <3>1. out[p] \in Flow /\ OnItsWay(p)
        BY DEF TailInv, FlowTyped
      <3>2. CASE idle = Drain
        BY <3>2, RunAssumption DEF TailInv, Draining
      <3>3. CASE out[p].pump = "closed"
        BY <3>1, <3>3 DEF OnItsWay, TailOnly, Flow
      <3>4. CASE out[p].pump = "off"
        BY <1>0, <2>1, <3>1, <3>4 DEF TailInv, Draining, TailOnly, FlowTyped, Flow
      <3> QED
        BY <2>1, <3>2, <3>3, <3>4 DEF Drained
    <2>3. FlowTyped'
      BY <2>1 DEF TailInv, FlowTyped
    <2>4. \A p \in Pumps : OnItsWay(p)'
      BY <2>1 DEF TailInv, OnItsWay
    <2>5. Draining'
      BY <2>1 DEF TailInv, Draining, TailOnly, Ended
    <2>6. OnlyTheTailIsLost'
      BY <2>1, <2>2 DEF OnlyTheTailIsLost, TailOnly
    <2> QED
      BY <2>3, <2>4, <2>5, <2>6 DEF TailInv
  <1>9. CASE \E p \in Pumps : Pump(p) \/ Write(p) \/ ReaderLeaves(p)
    BY <1>9, PumpKeepsTail, WriteKeepsTail
  <1>10. CASE UNCHANGED vars
    BY <1>0, <1>10, Unmoved DEF vars
  <1> QED
    BY <1>1, <1>2, <1>3, <1>4, <1>5, <1>6, <1>7, <1>8, <1>9, <1>10 DEF Next, Spawn, Taken

\* What the child wrote reaches a reader that stays, but for the unit a masker keeps,
\* however slow the reader, however many pipes and whoever else holds them
\* (run.rs, the drain).
THEOREM TailLost == Spec => []OnlyTheTailIsLost
  <1>1. TailInv => OnlyTheTailIsLost
    BY DEF TailInv
  <1> QED
    BY <1>1, TailInitially, TailSteps, Invariance, PTL DEF Spec

=============================================================================
