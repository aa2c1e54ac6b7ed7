------------------------------ MODULE RunChild ------------------------------
(***************************************************************************)
(* `penv run` and its child (penv/src/commands/run.rs): starting it,       *)
(* handing it the signals penv gets, pumping its output through the        *)
(* masker, and leaving when it has left.                                   *)
(*                                                                         *)
(* Output is counted in units: of what it was fed, a masker keeps back one *)
(* or none at the end, and Masker says which.  SIGINT stands for every     *)
(* signal a terminal sends.  The child, what it leaves running, whoever    *)
(* raises signals and whoever reads penv's output are the environment.     *)
(* Windows is left out.                                                    *)
(***************************************************************************)
EXTENDS Naturals, Sequences, FiniteSetsExt

CONSTANTS
  Pumps,       \* the child's output pipes
  Drain,       \* DRAIN, in ticks of the drain loop
  None,        \* no handler running
  Nohup,       \* the signals penv may have been started ignoring
  MaxUnits,    \* bound: units written to all pipes
  MaxSignals   \* bound: signals raised

SIGTERM == "SIGTERM"
SIGINT  == "SIGINT"
FORWARDED == <<SIGTERM, SIGINT>>
Signals == {SIGTERM, SIGINT}

\* pass_on: its signal, whether the CHILD it loaded holds a pid, whether `spawn`
\* waited for the child then.
Handler == [sig : Signals, child : BOOLEAN, waiting : BOOLEAN]

ASSUME RunAssumption ==
  /\ None \notin Handler
  /\ Nohup \subseteq Signals
  /\ Drain \in Nat \ {0}
  /\ MaxUnits \in Nat
  /\ MaxSignals \in Nat

VARIABLES
  pc,          \* where `spawn` is
  installed,   \* how many of FORWARDED `forward` has done
  signals,     \* each signal's dispositions, pending bit and counts
  handling,    \* the handler running
  CHILD,       \* TRUE iff CHILD holds the child's pid
  foreground,  \* penv, and so its child, is in the foreground group of a terminal
  child,       \* the child process
  descendant,  \* a process the child left running holds the pipes
  piped,       \* there is something to scrub, so the output goes through penv
  out,         \* each pipe, its pump, its masker and its reader
  idle         \* ticks of the drain loop that counted

vars == <<pc, installed, signals, handling, CHILD, foreground, child, descendant, piped, out, idle>>

\* `previous` and `now` are dispositions; `raised` counts the signal, `received`
\* what of it the child got.
Signal == [previous : {"default", "ignored"}, now : {"default", "ignored", "handler"}, pending : BOOLEAN,
           raised : 0..MaxSignals, received : 0..MaxSignals]

\* Units in the pipe, kept back by the masker, being handed to the reader and
\* handed to it; `own` counts them up to the last one the child itself wrote.
Output == [pump : {"off", "reading", "writing", "finishing", "closed"}, reader : {"reading", "gone"},
           pipe : 0..MaxUnits, held : 0..1, chunk : 0..MaxUnits, delivered : 0..MaxUnits, own : 0..MaxUnits]

Ended == {"failed", "exited", "killed"}

TypeOK ==
  /\ pc \in {"forward", "forked", "spawned", "waiting", "reaped", "draining"} \cup Ended
  /\ installed \in 0..Len(FORWARDED)
  /\ signals \in [Signals -> Signal]
  /\ handling \in Handler \cup {None}
  /\ CHILD \in BOOLEAN /\ foreground \in BOOLEAN /\ descendant \in BOOLEAN /\ piped \in BOOLEAN
  /\ child \in {"none", "forked", "running", "zombie", "reaped"}
  /\ out \in [Pumps -> Output]
  /\ idle \in 0..Drain

Init ==
  /\ pc = "forward" /\ installed = 0 /\ handling = None /\ CHILD = FALSE
  /\ \E ignored \in SUBSET Nohup :
       LET at(sig) == IF sig \in ignored THEN "ignored" ELSE "default" IN
       signals = [sig \in Signals |->
         [previous |-> at(sig), now |-> at(sig), pending |-> FALSE, raised |-> 0, received |-> 0]]
  /\ foreground \in BOOLEAN /\ piped \in BOOLEAN
  /\ child = "none" /\ descendant = FALSE
  /\ out = [p \in Pumps |-> [pump |-> "off", reader |-> "reading",
                             pipe |-> 0, held |-> 0, chunk |-> 0, delivered |-> 0, own |-> 0]]
  /\ idle = 0

-----------------------------------------------------------------------------
(* Signals                                                                 *)

signalsRest == <<pc, CHILD, foreground, child, descendant, piped, out, idle>>

\* `forward` gives the next signal penv's handler.
Install ==
  LET sig == FORWARDED[installed + 1] IN
  /\ pc = "forward" /\ installed < Len(FORWARDED)
  /\ signals[sig].now # "handler"
  /\ signals' = [signals EXCEPT ![sig].now = "handler"]
  /\ installed' = IF signals[sig].previous = "ignored" THEN installed ELSE installed + 1
  /\ UNCHANGED <<handling, signalsRest>>

\* The handler is left where the signal was ignored.
MutantKept(s) == s

\* A signal penv was started ignoring is ignored again, which discards one that is
\* pending.
Kept(s) == [s EXCEPT !.now = "ignored", !.pending = FALSE]

Keep ==
  LET sig == FORWARDED[installed + 1] IN
  /\ pc = "forward" /\ installed < Len(FORWARDED)
  /\ signals[sig].now = "handler"
  /\ signals' = [signals EXCEPT ![sig] = Kept(@)]
  /\ installed' = installed + 1
  /\ UNCHANGED <<handling, signalsRest>>

\* A signal that is ignored is gone.  A terminal sends to its whole foreground
\* group, a process to penv alone.  Between fork and exec the child dies of it.
Raise(sig, terminal) ==
  /\ pc \notin Ended
  /\ signals[sig].now # "ignored" /\ ~signals[sig].pending
  /\ signals[SIGTERM].raised + signals[SIGINT].raised < MaxSignals
  /\ terminal => foreground /\ sig = SIGINT
  /\ signals' = [signals EXCEPT ![sig].pending = TRUE,
                                ![sig].raised = @ + 1,
                                ![sig].received = IF terminal /\ child = "running" THEN @ + 1 ELSE @]
  /\ child' = IF terminal /\ child = "forked" THEN "zombie" ELSE child
  /\ UNCHANGED <<pc, installed, handling, CHILD, foreground, descendant, piped, out, idle>>

\* One left to its default ends penv.
Die ==
  /\ pc \notin Ended
  /\ \E sig \in Signals : signals[sig].pending /\ signals[sig].now = "default"
  /\ pc' = "killed"
  /\ UNCHANGED <<installed, signals, handling, CHILD, foreground, child, descendant, piped, out, idle>>

\* pass_on runs on any of penv's threads, beside `spawn`.  It loads CHILD first.
Handle(sig) ==
  /\ pc \notin Ended
  /\ signals[sig].pending /\ signals[sig].now = "handler"
  /\ handling = None
  /\ handling' = [sig |-> sig, child |-> CHILD, waiting |-> pc = "waiting"]
  /\ signals' = [signals EXCEPT ![sig].pending = FALSE]
  /\ UNCHANGED <<installed, signalsRest>>

\* The guess: any of these that penv gets in the foreground the child got too.
FromTerminal(sig) == sig # SIGTERM /\ foreground

\* With no child the signal is penv's own.  A kill finds the child while it runs.
PassOn ==
  LET sig == handling.sig IN
  /\ pc \notin Ended /\ handling # None
  /\ handling' = None
  /\ pc' = IF handling.child THEN pc ELSE "killed"
  /\ signals' = IF handling.child /\ ~FromTerminal(sig) /\ child = "running"
                  THEN [signals EXCEPT ![sig].received = @ + 1]
                  ELSE signals
  /\ UNCHANGED <<installed, CHILD, foreground, child, descendant, piped, out, idle>>

-----------------------------------------------------------------------------
(* The child                                                               *)

childRest == <<installed, handling, foreground, piped, idle>>

Fork ==
  /\ pc = "forward" /\ installed = Len(FORWARDED)
  /\ pc' = "forked" /\ child' = "forked"
  /\ UNCHANGED <<signals, CHILD, descendant, out, childRest>>

\* The child lays down penv's handlers before it becomes the command.
Exec ==
  /\ child = "forked" /\ child' = "running"
  /\ UNCHANGED <<pc, signals, CHILD, descendant, out, childRest>>

\* CHILD is emptied and every disposition put back.
Restore ==
  /\ CHILD' = FALSE
  /\ signals' = [sig \in Signals |-> [signals[sig] EXCEPT !.now = signals[sig].previous]]

\* No such command: the error is this command's answer.
SpawnFails ==
  /\ pc = "forked" /\ pc' = "failed"
  /\ child = "forked" /\ child' = "none"
  /\ Restore
  /\ UNCHANGED <<descendant, out, childRest>>

Spawned ==
  /\ pc = "forked" /\ child # "forked"
  /\ pc' = "spawned"
  /\ UNCHANGED <<signals, CHILD, child, descendant, out, childRest>>

\* child_started is not called.
MutantStored == FALSE

\* child_started has the pid in CHILD.
Stored == TRUE

\* The pumps start with it.
ChildStarted ==
  /\ pc = "spawned" /\ pc' = "waiting"
  /\ CHILD' = Stored
  /\ out' = [p \in Pumps |-> [out[p] EXCEPT !.pump = IF piped THEN "reading" ELSE "off"]]
  /\ UNCHANGED <<signals, child, descendant, childRest>>

\* The child ends, by itself or by a signal, and may leave a descendant.
ChildEnds ==
  /\ child = "running" /\ child' = "zombie"
  /\ descendant' \in BOOLEAN
  /\ UNCHANGED <<pc, signals, CHILD, out, childRest>>

DescendantEnds ==
  /\ descendant /\ descendant' = FALSE
  /\ UNCHANGED <<pc, signals, CHILD, child, out, childRest>>

Wait ==
  /\ pc = "waiting" /\ pc' = "reaped"
  /\ child = "zombie" /\ child' = "reaped"
  /\ UNCHANGED <<signals, CHILD, descendant, out, childRest>>

\* A handler that runs before the last disposition is back finds no child, and
\* does what the disposition would have done: the store and they are one step.
Restored ==
  /\ pc = "reaped" /\ pc' = "draining"
  /\ Restore
  /\ UNCHANGED <<child, descendant, out, childRest>>

-----------------------------------------------------------------------------
(* Its output                                                              *)

\* Pipe p's side of things becomes o; penv is there to see it.
Becomes(p, o) ==
  /\ pc \notin Ended
  /\ out' = [out EXCEPT ![p] = o]
  /\ UNCHANGED <<pc, installed, signals, handling, CHILD, foreground, child, descendant, piped, idle>>

Written(p) == out[p].pipe + out[p].held + out[p].chunk + out[p].delivered

\* A pump that left has closed its end: who writes then gets an error.
Write(p) ==
  /\ child = "running" \/ descendant
  /\ piped /\ out[p].pump # "closed"
  /\ MapThenSumSet(Written, Pumps) < MaxUnits
  /\ Becomes(p, [out[p] EXCEPT !.pipe = @ + 1, !.own = IF child = "running" THEN Written(p) + 1 ELSE @])

ReaderLeaves(p) ==
  /\ piped /\ out[p].reader = "reading"
  /\ Becomes(p, [out[p] EXCEPT !.reader = "gone"])

\* What one read returns is fed to the masker, which keeps some back.  With nothing
\* to hand on the next read follows.
PumpReads(p) ==
  /\ out[p].pump = "reading"
  /\ \E n \in 1..out[p].pipe, kept \in 0..1 :
       LET sent == out[p].held + n - kept IN
       Becomes(p, [out[p] EXCEPT !.pump = IF sent = 0 THEN "reading" ELSE "writing",
                                 !.pipe = @ - n, !.held = kept, !.chunk = sent])

\* The reader takes it, when it does.
PumpSends(p) ==
  /\ out[p].pump = "writing" /\ out[p].reader = "reading"
  /\ Becomes(p, [out[p] EXCEPT !.pump = "reading", !.chunk = 0, !.delivered = @ + out[p].chunk])

\* With the reader gone the pump closes the child's pipe too.
PumpStops(p) ==
  /\ out[p].pump = "writing" /\ out[p].reader = "gone"
  /\ Becomes(p, [out[p] EXCEPT !.pump = "closed"])

\* Nobody is left to write.
Eof(p) == out[p].pipe = 0 /\ child \in {"zombie", "reaped"} /\ ~descendant

\* The stream ended: what the masker kept back goes out after it.
PumpEnds(p) ==
  /\ out[p].pump = "reading" /\ Eof(p)
  /\ Becomes(p, [out[p] EXCEPT !.pump = IF out[p].held = 0 THEN "closed" ELSE "finishing"])

PumpFinishes(p) ==
  LET taken == IF out[p].reader = "reading" THEN out[p].held ELSE 0 IN
  /\ out[p].pump = "finishing"
  /\ Becomes(p, [out[p] EXCEPT !.pump = "closed", !.held = 0, !.delivered = @ + taken])

Pump(p) == PumpReads(p) \/ PumpSends(p) \/ PumpStops(p) \/ PumpEnds(p) \/ PumpFinishes(p)

\* Every tick counts, a slow reader's too.
MutantCounts == TRUE

\* Only the end of the output ends the drain.
MutantNeverCounts == FALSE

\* `writing` is zero: no pump is handing on what it read.
Counts == \A p \in Pumps : out[p].pump # "writing"

\* A pump with something to do does it within the tick: what the tick finds waits
\* for more output, or for the reader.
Waits(p) ==
  /\ out[p].pump = "reading" => out[p].pipe = 0 /\ ~Eof(p)
  /\ out[p].pump \in {"writing", "finishing"} => out[p].reader = "reading"

Drained == \A p \in Pumps : out[p].pump \in {"off", "closed"}

Tick ==
  /\ pc = "draining" /\ ~Drained /\ idle < Drain
  /\ \A p \in Pumps : Waits(p)
  /\ Counts
  /\ idle' = idle + 1
  /\ UNCHANGED <<pc, installed, signals, handling, CHILD, foreground, child, descendant, piped, out>>

Exit ==
  /\ pc = "draining" /\ pc' = "exited"
  /\ Drained \/ idle = Drain
  /\ UNCHANGED <<signals, CHILD, child, descendant, out, childRest>>

-----------------------------------------------------------------------------
Spawn ==
  \/ Install \/ Keep \/ Fork \/ SpawnFails \/ Spawned \/ ChildStarted
  \/ Wait \/ Restored \/ Tick \/ Exit

Taken == Die \/ PassOn \/ \E sig \in Signals : Handle(sig)

Next ==
  \/ Spawn
  \/ Taken
  \/ \E sig \in Signals, terminal \in BOOLEAN : Raise(sig, terminal)
  \/ Exec \/ ChildEnds \/ DescendantEnds
  \/ \E p \in Pumps : Pump(p) \/ Write(p) \/ ReaderLeaves(p)

Spec == Init /\ [][Next]_vars

\* penv's threads are scheduled, a child that was forked goes on to the command,
\* and a reader that stays reads on.
FairSpec ==
  /\ Spec
  /\ WF_vars(Spawn) /\ WF_vars(Taken) /\ WF_vars(Exec)
  /\ \A p \in Pumps : WF_vars(Pump(p))

-----------------------------------------------------------------------------
(* What it promises                                                        *)

\* The child gets a signal no more often than it was raised, though a terminal
\* sends it to both, and never one penv was started ignoring (run.rs, pass_on and
\* forward): whatever thread took it and whenever the child started or ended.
SignalsReachOnce ==
  \A sig \in Signals :
    signals[sig].received <= (IF signals[sig].previous = "ignored" THEN 0 ELSE signals[sig].raised)

\* penv has dealt with what was raised of sig, and the child runs.
Settled(sig) ==
  /\ pc \notin Ended /\ child = "running"
  /\ signals[sig].previous = "default" /\ ~signals[sig].pending
  /\ handling # None => handling.sig # sig

\* SIGTERM, and every signal when penv has no terminal, reaches the child as often as
\* it was sent to penv, once penv has handled it (run.rs, signals: "nor swallow them").
PassedOn ==
  \A sig \in Signals :
    Settled(sig) /\ (sig = SIGTERM \/ ~foreground) => signals[sig].received = signals[sig].raised

\* No more and, where penv can know, no fewer.
SignalsArrive == SignalsReachOnce /\ PassedOn

\* run.rs, signals: "penv must neither die first".  A signal penv takes while it
\* waits does not end it before the child; one taken while the child was being
\* started may, even after it was.
StaysWithChild ==
  [][ pc' = "killed" /\ child = "running" /\ pc \in {"waiting", "reaped"}
        => handling # None /\ ~handling.waiting ]_vars

\* run.rs, the drain: what the child wrote is handed to a reader that stays, however
\* slow it is and whatever else holds the pipe, but for the unit a masker keeps back.
OnlyTheTailIsLost ==
  \A p \in Pumps :
    pc = "exited" /\ out[p].reader = "reading" => out[p].own <= out[p].delivered + 1

\* Once the child has ended so does penv, though a descendant keeps the pipes open
\* for good.
EndsWithChild == child = "zombie" ~> pc \in Ended

=============================================================================
