--------------------------- MODULE ServerRuntime ---------------------------
(***************************************************************************)
(* The server runtime, src/src/llama_server_runtime.cpp: the list of live  *)
(* sequences over the host cache (MultisequenceCache) and the CUDA         *)
(* resolver (MsCudaResolver), each of which has a mutex of its own.  Slot  *)
(* creation, reset, cancellation and copy hold the runtime mutex           *)
(* throughout.  Partial removal, shift, append and execute_batch check     *)
(* liveness under it, drop it, and then call the two caches; shutdown      *)
(* takes the list of sequences under it and works through them unlocked.   *)
(*                                                                         *)
(* The host cache receives no appends from here, so its tails stay empty   *)
(* and its range calls succeed on every sequence it has.  Of the resolver  *)
(* a sequence keeps whether it exists, whether it is dispatchable and the  *)
(* length of its active tail (one layer).  "life" numbers are ghosts: one  *)
(* for each sequence object built under an id.                             *)
(***************************************************************************)
EXTENDS Integers, FiniteSets

CONSTANTS
  Seqs,     \* sequence ids
  Threads,  \* server threads that call the runtime
  MaxLives, \* bound: sequence objects built
  MaxTail,  \* bound: tokens staged in an active tail
  MaxSnaps, \* bound: batches whose snapshots are outstanding
  MaxFaults \* bound: CUDA calls that fail

ASSUME RuntimeBounds == {MaxLives, MaxTail, MaxSnaps, MaxFaults} \subseteq Nat

VARIABLES
  live,    \* runtime->live_sequences
  down,    \* runtime->shutting_down
  host,    \* host[s]: life of the host cache's sequence, 0 when it has none
  dev,     \* dev[s]: the resolver's sequence, its life 0 when it has none
  call,    \* call[w]: the call thread w is in after its locked check, or how its shutdown ended
  snap,    \* snap[i]: snapshots of a batch: none, held, pending, finished, or one leaked
  lives,   \* sequence objects built so far
  lost,    \* page references a failed copy has leaked in the resolver
  faults

vars == <<live, down, host, dev, call, snap, lives, lost, faults>>

Idle == [op |-> "idle", seq |-> "none", n |-> 0, todo |-> {}]
NoSeq == [life |-> 0, disp |-> FALSE, tail |-> 0]
Snaps == 1 .. MaxSnaps
SnapStates == {"none", "held", "pending", "finished", "leaked"}
OnHost(s) == host[s] # 0
OnDevice(s) == dev[s].life # 0

Fails == faults < MaxFaults /\ faults' = faults + 1
Running(w, ops) == call[w].op \in ops
Return(w) == call' = [call EXCEPT ![w] = Idle]

Init ==
  /\ live = {} /\ down = FALSE
  /\ host = [s \in Seqs |-> 0]
  /\ dev = [s \in Seqs |-> NoSeq]
  /\ call = [w \in Threads |-> Idle]
  /\ snap = [i \in Snaps |-> "none"]
  /\ lives = 0
  /\ lost = FALSE /\ faults = 0

---------------------------------------------------------------------------
(* Calls that hold the mutex. *)

\* cf_llama_server_slot_create: an id the host cache or the resolver still has
\* is refused (a host sequence just created is removed again).
SlotCreate(s) ==
  /\ ~down /\ s \notin live /\ ~OnHost(s) /\ ~OnDevice(s)
  /\ lives < MaxLives /\ lives' = lives + 1
  /\ live' = live \cup {s}
  /\ host' = [host EXCEPT ![s] = lives + 1]
  /\ dev' = [dev EXCEPT ![s] = [life |-> lives + 1, disp |-> TRUE, tail |-> 0]]
  /\ UNCHANGED <<down, call, snap, lost, faults>>

ResetKeepsLive(s) ==
  /\ s \in live /\ OnDevice(s) /\ OnHost(s)
  /\ host' = [host EXCEPT ![s] = 0]
  /\ dev' = [dev EXCEPT ![s] = NoSeq]
  /\ UNCHANGED <<live, down, call, snap, lives, lost, faults>>

\* cf_llama_server_slot_reset_async, also the whole-sequence removal.
SlotReset(s) ==
  /\ s \in live /\ OnDevice(s)
  /\ dev' = [dev EXCEPT ![s] = NoSeq]
  /\ host' = [host EXCEPT ![s] = 0]
  /\ live' = IF OnHost(s) THEN live \ {s} ELSE live
  /\ UNCHANGED <<down, call, snap, lives, lost, faults>>

\* cf_llama_server_cancel_async
Cancel(s) ==
  /\ s \in live /\ OnDevice(s)
  /\ dev' = [dev EXCEPT ![s].disp = FALSE]
  /\ UNCHANGED <<live, down, host, call, snap, lives, lost, faults>>

\* cf_llama_server_sequence_copy_async: the host copy first, then the resolver's,
\* which can fail and leaves the host copy in place.
Copy(a, d, works) ==
  /\ ~down /\ a \in live /\ a # d /\ OnHost(a)
  /\ lives < MaxLives /\ lives' = lives + 1
  /\ host' = [host EXCEPT ![d] = lives + 1]
  /\ IF works /\ OnDevice(a)
     THEN /\ dev' = [dev EXCEPT ![d] = [life |-> lives + 1, disp |-> TRUE, tail |-> dev[a].tail]]
          /\ live' = live \cup {d}
          /\ UNCHANGED <<lost, faults>>
     ELSE Fails /\ lost' \in {lost, TRUE} /\ UNCHANGED <<dev, live>>
  /\ UNCHANGED <<down, call, snap>>

---------------------------------------------------------------------------
(* Calls that check under the mutex and work after it. *)

\* sequence_is_live: w starts an append, a shift or a partial removal of s,
\* with the length n, and goes on without the mutex.
Check(w, op, s, n) ==
  /\ op \in {"append", "shift", "cut"} /\ Running(w, {"idle"})
  /\ ~down /\ s \in live
  /\ op = "shift" => n = 0
  /\ op = "append" => n > 0
  /\ call' = [call EXCEPT ![w] = [Idle EXCEPT !.op = op, !.seq = s, !.n = n]]
  /\ UNCHANGED <<live, down, host, dev, snap, lives, lost, faults>>

\* cf_ms_cuda_stage_active_async for an append.
Stage(w) ==
  LET s == call[w].seq IN
  /\ Running(w, {"append"}) /\ Return(w)
  /\ IF OnDevice(s)
     THEN dev' = [dev EXCEPT ![s].tail = call[w].n]
     ELSE UNCHANGED dev
  /\ UNCHANGED <<live, down, host, snap, lives, lost, faults>>

\* cf_sequence_remove_async from position n on: the host cache only.
CutHost(w) ==
  /\ Running(w, {"cut"}) /\ Return(w)
  /\ UNCHANGED <<live, down, host, dev, snap, lives, lost, faults>>

\* cf_sequence_shift_async on the host, which fails when the sequence has gone.
ShiftHost(w) ==
  LET s == call[w].seq IN
  /\ Running(w, {"shift"})
  /\ IF OnHost(s) THEN call' = [call EXCEPT ![w].op = "shift_device"] ELSE Return(w)
  /\ UNCHANGED <<live, down, host, dev, snap, lives, lost, faults>>

\* cf_ms_cuda_shift_sequence
ShiftDevice(w) ==
  /\ Running(w, {"shift_device"}) /\ Return(w)
  /\ UNCHANGED <<live, down, host, dev, snap, lives, lost, faults>>

\* cf_llama_server_execute_batch_async, its locked check of every sequence.
Submit(w, S) ==
  /\ Running(w, {"idle"}) /\ ~down /\ S # {} /\ S \subseteq live
  /\ call' = [call EXCEPT ![w] = [Idle EXCEPT !.op = "execute", !.todo = S]]
  /\ UNCHANGED <<live, down, host, dev, snap, lives, lost, faults>>

\* The resolver's execute_batch: acquires a snapshot of every sequence or of none.
Acquire(w, i) ==
  /\ Running(w, {"execute"}) /\ snap[i] = "none"
  /\ IF \A s \in call[w].todo : OnDevice(s) /\ dev[s].disp
     THEN /\ snap' = [snap EXCEPT ![i] = "held"]
          /\ call' = [call EXCEPT ![w].op = "launch", ![w].n = i]
     ELSE Return(w) /\ UNCHANGED snap
  /\ UNCHANGED <<live, down, host, dev, lives, lost, faults>>

\* Kernels are launched and the snapshots left pending behind their events.
Record(w) ==
  /\ Running(w, {"launch"}) /\ Return(w)
  /\ snap' = [snap EXCEPT ![call[w].n] = "pending"]
  /\ UNCHANGED <<live, down, host, dev, lives, lost, faults>>

\* A launch fails: the snapshots are released at once.
LaunchFails(w) ==
  /\ Running(w, {"launch"}) /\ Return(w) /\ Fails
  /\ snap' = [snap EXCEPT ![call[w].n] = "none"]
  /\ UNCHANGED <<live, down, host, dev, lives, lost>>

\* The event of one of the batch's snapshots cannot be created: that snapshot is
\* lost with its references, whatever becomes of the others.
RecordFails(w) ==
  /\ Running(w, {"launch"}) /\ Return(w) /\ Fails
  /\ snap' = [snap EXCEPT ![call[w].n] = "leaked"]
  /\ UNCHANGED <<live, down, host, dev, lives, lost>>

\* The device completes the batch whose snapshots are in slot i.
Finish(i) ==
  /\ snap[i] = "pending" /\ snap' = [snap EXCEPT ![i] = "finished"]
  /\ UNCHANGED <<live, down, host, dev, call, lives, lost, faults>>

---------------------------------------------------------------------------
(* cf_llama_server_shutdown_async. *)

\* The locked part of the first call.
ShutdownBegin(w) ==
  /\ ~down /\ Running(w, {"idle"})
  /\ down' = TRUE /\ live' = {}
  /\ call' = [call EXCEPT ![w] = [Idle EXCEPT !.op = "release", !.todo = live]]
  /\ UNCHANGED <<host, dev, snap, lives, lost, faults>>

\* A later call returns at once, 0 unless a shutdown has failed: the first may
\* still be at work on its list.
ShutdownAgain(w) ==
  /\ down /\ Running(w, {"idle"})
  /\ call' = [call EXCEPT ![w] = [Idle EXCEPT !.op =
                 IF \E v \in Threads : call[v].op = "failed" THEN "again_failed" ELSE "again_ok"]]
  /\ UNCHANGED <<live, down, host, dev, snap, lives, lost, faults>>

\* The three calls for a sequence of the list, in order.
ShutdownCancel(w, s) ==
  /\ Running(w, {"release"}) /\ call[w].seq = "none" /\ s \in call[w].todo
  /\ dev' = IF OnDevice(s) THEN [dev EXCEPT ![s].disp = FALSE] ELSE dev
  /\ call' = [call EXCEPT ![w].seq = s, ![w].n = 1]
  /\ UNCHANGED <<live, down, host, snap, lives, lost, faults>>

ShutdownDevice(w) ==
  /\ Running(w, {"release"}) /\ call[w].n = 1
  /\ dev' = [dev EXCEPT ![call[w].seq] = NoSeq]
  /\ call' = [call EXCEPT ![w].n = 2]
  /\ UNCHANGED <<live, down, host, snap, lives, lost, faults>>

ShutdownHost(w) ==
  /\ Running(w, {"release"}) /\ call[w].n = 2
  /\ host' = [host EXCEPT ![call[w].seq] = 0]
  /\ call' = [call EXCEPT ![w].seq = "none", ![w].n = 0, ![w].todo = @ \ {call[w].seq}]
  /\ UNCHANGED <<live, down, dev, snap, lives, lost, faults>>

\* One reclaim releases the snapshots whose batches are finished.
ShutdownReclaim(w) ==
  /\ Running(w, {"release"}) /\ call[w].seq = "none" /\ call[w].todo = {}
  /\ snap' = [i \in Snaps |-> IF snap[i] = "finished" THEN "none" ELSE snap[i]]
  /\ call' = [call EXCEPT ![w].op = "audit"]
  /\ UNCHANGED <<live, down, host, dev, lives, lost, faults>>

\* The audits: the resolver's compares reference counts, which a failed copy
\* has left too high.  Nothing looks at the snapshots.
AuditPasses == ~lost
ShutdownEnd(w) ==
  /\ Running(w, {"audit"})
  /\ call' = [call EXCEPT ![w].op = IF AuditPasses THEN "stopped" ELSE "failed"]
  /\ UNCHANGED <<live, down, host, dev, snap, lives, lost, faults>>

LockedNext ==
  \/ \E s \in Seqs : SlotCreate(s) \/ SlotReset(s) \/ Cancel(s)
  \/ \E a, d \in Seqs, works \in BOOLEAN : Copy(a, d, works)
  \/ \E w \in Threads : ShutdownBegin(w) \/ ShutdownAgain(w)

Step(w) ==
  \/ Stage(w) \/ CutHost(w) \/ ShiftHost(w) \/ ShiftDevice(w)
  \/ \E i \in Snaps : Acquire(w, i)
  \/ Record(w)
  \/ \E s \in Seqs : ShutdownCancel(w, s)
  \/ ShutdownDevice(w) \/ ShutdownHost(w) \/ ShutdownReclaim(w) \/ ShutdownEnd(w)

Next ==
  \/ LockedNext
  \/ \E w \in Threads, op \in {"append", "shift", "cut"}, s \in Seqs, n \in 0 .. MaxTail : Check(w, op, s, n)
  \/ \E w \in Threads, S \in SUBSET Seqs : Submit(w, S)
  \/ \E w \in Threads : Step(w) \/ LaunchFails(w) \/ RecordFails(w)
  \/ \E i \in Snaps : Finish(i)

Spec == Init /\ [][Next]_vars

---------------------------------------------------------------------------
(* Properties. *)

TypeOK ==
  /\ live \subseteq Seqs /\ down \in BOOLEAN
  /\ host \in [Seqs -> 0 .. MaxLives]
  /\ dev \in [Seqs -> [life : 0 .. MaxLives, disp : BOOLEAN, tail : 0 .. MaxTail]]
  /\ snap \in [Snaps -> SnapStates]
  /\ \A w \in Threads : call[w].todo \subseteq Seqs
  /\ lives \in 0 .. MaxLives /\ faults \in 0 .. MaxFaults /\ lost \in BOOLEAN

\* The shutdown that took the list of sequences has returned.
Stopped == \E w \in Threads : call[w].op \in {"stopped", "failed"}

\* Until shutdown starts the live list is what the resolver has, and the host
\* cache has all of it, whichever calls failed half-way: a sequence that can be
\* named can be reset, and an id that is not listed holds no device memory.  As
\* long as no CUDA call has failed both hold the same life of every id.
LiveIsBacked ==
  ~down => \A s \in Seqs : /\ s \in live <=> OnDevice(s)
                           /\ s \in live => OnHost(s)
                           /\ faults = 0 => host[s] = dev[s].life

\* Once the first shutdown, the one that took the list, has returned, the
\* resolver has no sequence left, nor has the host cache when nothing failed,
\* although calls that were checked before it began may still be running.  The
\* return of a later shutdown says nothing of the kind.
StoppedIsEmpty ==
  Stopped => \A s \in Seqs : ~OnDevice(s) /\ (faults = 0 => ~OnHost(s))

\* Snapshots that wait for their launch belong to exactly one running batch,
\* until they are handed to their events, released on a failed launch, or lost to
\* a failed event: no interleaving leaves them held by no batch, or by two.
HeldHasLauncher ==
  \A i \in Snaps : snap[i] = "held" =>
    Cardinality({w \in Threads : call[w].op = "launch" /\ call[w].n = i}) = 1

\* What the two caches and the pool hold between any two steps of the calls.
ServerInv == TypeOK /\ LiveIsBacked /\ StoppedIsEmpty /\ HeldHasLauncher
=============================================================================
