------------------------ MODULE ServerRuntime_proofs ------------------------
(***************************************************************************)
(* Theorems of ServerRuntime, for any sequences, threads, batches and CUDA *)
(* failures: the live list stays backed by both caches, held snapshots     *)
(* have one launcher, and the first shutdown empties the resolver.         *)
(***************************************************************************)
EXTENDS ServerRuntime, FiniteSetTheorems, TLAPS

Ops == {"idle", "append", "cut", "shift", "shift_device", "execute", "launch",
        "release", "audit", "stopped", "failed", "again_ok", "again_failed"}
Shutting == {"release", "audit", "stopped", "failed"}
Calls == [op : Ops, seq : Seqs \cup {"none"}, n : Nat, todo : SUBSET Seqs]
DevSeqs == [life : 0 .. MaxLives, disp : BOOLEAN, tail : 0 .. MaxTail]

CallTypes == call \in [Threads -> Calls]

Typed ==
  /\ live \subseteq Seqs /\ down \in BOOLEAN
  /\ host \in [Seqs -> 0 .. MaxLives] /\ dev \in [Seqs -> DevSeqs]
  /\ snap \in [Snaps -> SnapStates]
  /\ CallTypes
  /\ \A w \in Threads : call[w].op = "append" => call[w].n \in 0 .. MaxTail
  /\ lives \in 0 .. MaxLives /\ faults \in 0 .. MaxFaults /\ lost \in BOOLEAN

\* One thread has the list of the shutdown, and what the caches still have is on its list.
Closing ==
  /\ \A w \in Threads : call[w].op \in Shutting => down
  /\ \A w, v \in Threads : call[w].op \in Shutting /\ call[v].op \in Shutting => w = v
  /\ down => live = {}
  /\ \A w \in Threads, s \in Seqs :
       call[w].op = "release" /\ call[w].n = 2 /\ call[w].seq = s => ~OnDevice(s)
  /\ down => \A s \in Seqs : OnDevice(s) \/ (faults = 0 /\ OnHost(s)) =>
       \E w \in Threads : call[w].op = "release" /\ s \in call[w].todo

\* A launching thread has snapshots of its own, and each held one is launched.
Launches(w, i) == call[w].op = "launch" /\ call[w].n = i
Launching ==
  /\ \A w \in Threads : call[w].op = "launch" => call[w].n \in Snaps /\ snap[call[w].n] = "held"
  /\ \A w, v \in Threads : call[w].op = "launch" /\ Launches(v, call[w].n) => w = v
  /\ \A i \in Snaps : snap[i] = "held" => \E w \in Threads : Launches(w, i)

IInv == Typed /\ LiveIsBacked /\ Closing /\ Launching

LEMMA Bounds == MaxLives \in Nat /\ MaxTail \in Nat /\ MaxSnaps \in Nat /\ MaxFaults \in Nat
  BY RuntimeBounds

---------------------------------------------------------------------------
(* How the steps move a thread from call to call. *)

\* Thread w goes to the call given by its four parts, and the others stay.
Went(w, op, seq, n, todo) ==
  /\ CallTypes'
  /\ call'[w].op = op /\ call'[w].seq = seq /\ call'[w].n = n /\ call'[w].todo = todo
  /\ \A v \in Threads : v # w => call'[v] = call[v]

LEMMA GoesTo ==
  ASSUME CallTypes, NEW w \in Threads, NEW c \in Calls, call' = [call EXCEPT ![w] = c]
  PROVE  Went(w, c.op, c.seq, c.n, c.todo)
<1>1. call' \in [Threads -> Calls] /\ call'[w] = c /\ \A v \in Threads : v # w => call'[v] = call[v]
  BY DEF CallTypes
<1> QED
  BY <1>1 DEF Went, CallTypes

LEMMA CallParts ==
  ASSUME CallTypes, NEW w \in Threads
  PROVE  /\ call[w] \in Calls /\ call[w].op \in Ops /\ call[w].n \in Nat
         /\ call[w].seq \in Seqs \cup {"none"} /\ call[w].todo \subseteq Seqs
  BY DEF CallTypes, Calls

LEMMA Returns ==
  ASSUME CallTypes, NEW w \in Threads, Return(w)
  PROVE  Went(w, "idle", "none", 0, {})
<1>1. Idle \in Calls /\ Idle.op = "idle" /\ Idle.seq = "none" /\ Idle.n = 0 /\ Idle.todo = {}
  BY DEF Idle, Calls, Ops
<1>2. call' = [call EXCEPT ![w] = Idle]
  BY DEF Return
<1>3. Went(w, Idle.op, Idle.seq, Idle.n, Idle.todo)
  BY <1>1, <1>2, GoesTo
<1> QED
  BY <1>1, <1>3

LEMMA IdleCall == Idle \in Calls /\ Idle.op = "idle" /\ Idle.seq = "none" /\ Idle.n = 0 /\ Idle.todo = {}
  BY DEF Idle, Calls, Ops

LEMMA Checked ==
  ASSUME CallTypes, NEW w \in Threads, NEW op, NEW s \in Seqs, NEW n \in 0 .. MaxTail, Check(w, op, s, n)
  PROVE  Went(w, op, s, n, {}) /\ op \in {"append", "shift", "cut"}
<1> DEFINE c == [Idle EXCEPT !.op = op, !.seq = s, !.n = n]
<1>1. op \in {"append", "shift", "cut"} /\ op \in Ops /\ n \in Nat
  BY Bounds DEF Check, Ops
<1>2. c \in Calls /\ c.op = op /\ c.seq = s /\ c.n = n /\ c.todo = {}
  BY <1>1, IdleCall DEF Calls
<1>3. call' = [call EXCEPT ![w] = c]
  BY DEF Check
<1> HIDE DEF c
<1> QED
  BY <1>1, <1>2, <1>3, GoesTo

LEMMA Submitted ==
  ASSUME CallTypes, NEW w \in Threads, NEW S \in SUBSET Seqs, Submit(w, S)
  PROVE  Went(w, "execute", "none", 0, S)
<1> DEFINE c == [Idle EXCEPT !.op = "execute", !.todo = S]
<1>1. c \in Calls /\ c.op = "execute" /\ c.seq = "none" /\ c.n = 0 /\ c.todo = S
  BY IdleCall DEF Calls, Ops
<1>2. call' = [call EXCEPT ![w] = c]
  BY DEF Submit
<1> HIDE DEF c
<1> QED
  BY <1>1, <1>2, GoesTo

LEMMA Begun ==
  ASSUME CallTypes, NEW w \in Threads, ShutdownBegin(w), live \subseteq Seqs
  PROVE  Went(w, "release", "none", 0, live)
<1> DEFINE c == [Idle EXCEPT !.op = "release", !.todo = live]
<1>1. c \in Calls /\ c.op = "release" /\ c.seq = "none" /\ c.n = 0 /\ c.todo = live
  BY IdleCall DEF Calls, Ops
<1>2. call' = [call EXCEPT ![w] = c]
  BY DEF ShutdownBegin
<1> HIDE DEF c
<1> QED
  BY <1>1, <1>2, GoesTo

LEMMA Acquired ==
  ASSUME CallTypes, NEW w \in Threads, NEW i \in Snaps, call' = [call EXCEPT ![w].op = "launch", ![w].n = i]
  PROVE  Went(w, "launch", call[w].seq, i, call[w].todo)
<1> DEFINE c == [call[w] EXCEPT !.op = "launch", !.n = i]
<1>1. c \in Calls /\ c.op = "launch" /\ c.seq = call[w].seq /\ c.n = i /\ c.todo = call[w].todo
  <2>1. i \in Nat /\ call[w] \in Calls
    BY CallParts, Bounds DEF Snaps
  <2> QED
    BY <2>1 DEF Calls, Ops
<1>2. call' = [call EXCEPT ![w] = c]
  OBVIOUS
<1> HIDE DEF c
<1> QED
  BY <1>1, <1>2, GoesTo

LEMMA Renamed ==
  ASSUME CallTypes, NEW w \in Threads, NEW op \in Ops, call' = [call EXCEPT ![w].op = op]
  PROVE  Went(w, op, call[w].seq, call[w].n, call[w].todo)
<1> DEFINE c == [call[w] EXCEPT !.op = op]
<1>0. call[w] \in Calls
  BY CallParts
<1>1. c \in Calls /\ c.op = op /\ c.seq = call[w].seq /\ c.n = call[w].n /\ c.todo = call[w].todo
  BY <1>0 DEF Calls, Ops
<1>2. call' = [call EXCEPT ![w] = c]
  OBVIOUS
<1> HIDE DEF c
<1> QED
  BY <1>1, <1>2, GoesTo

LEMMA Cancelled ==
  ASSUME CallTypes, NEW w \in Threads, NEW s \in Seqs, ShutdownCancel(w, s)
  PROVE  Went(w, "release", s, 1, call[w].todo) /\ call[w].op = "release"
<1> DEFINE c == [call[w] EXCEPT !.seq = s, !.n = 1]
<1>0. call[w] \in Calls
  BY CallParts
<1>1. call[w].op = "release"
  BY DEF ShutdownCancel, Running
<1>2. c \in Calls /\ c.op = "release" /\ c.seq = s /\ c.n = 1 /\ c.todo = call[w].todo
  BY <1>0, <1>1 DEF Calls, Ops
<1>3. call' = [call EXCEPT ![w] = c]
  BY DEF ShutdownCancel
<1> HIDE DEF c
<1> QED
  BY <1>1, <1>2, <1>3, GoesTo

LEMMA DeviceDone ==
  ASSUME CallTypes, NEW w \in Threads, ShutdownDevice(w)
  PROVE  Went(w, "release", call[w].seq, 2, call[w].todo) /\ call[w].op = "release"
<1> DEFINE c == [call[w] EXCEPT !.n = 2]
<1>0. call[w] \in Calls
  BY CallParts
<1>1. call[w].op = "release"
  BY DEF ShutdownDevice, Running
<1>2. c \in Calls /\ c.op = "release" /\ c.seq = call[w].seq /\ c.n = 2 /\ c.todo = call[w].todo
  BY <1>0, <1>1 DEF Calls, Ops
<1>3. call' = [call EXCEPT ![w] = c]
  BY DEF ShutdownDevice
<1> HIDE DEF c
<1> QED
  BY <1>1, <1>2, <1>3, GoesTo

LEMMA HostDone ==
  ASSUME CallTypes, NEW w \in Threads, ShutdownHost(w)
  PROVE  Went(w, "release", "none", 0, call[w].todo \ {call[w].seq}) /\ call[w].op = "release"
<1> DEFINE T == call[w].todo \ {call[w].seq}
           c == [call[w] EXCEPT !.seq = "none", !.n = 0, !.todo = T]
<1>0. call[w] \in Calls
  BY CallParts
<1>1. call[w].op = "release" /\ T \in SUBSET Seqs
  BY CallParts DEF ShutdownHost, Running
<1>3. call' = [call EXCEPT ![w] = c]
  BY DEF ShutdownHost
<1> HIDE DEF T
<1>2. c \in Calls /\ c.op = "release" /\ c.seq = "none" /\ c.n = 0 /\ c.todo = T
  BY <1>0, <1>1 DEF Calls, Ops
<1> HIDE DEF c
<1>4. Went(w, c.op, c.seq, c.n, c.todo)
  BY <1>2, <1>3, GoesTo
<1> QED
  BY <1>1, <1>2, <1>4 DEF T

---------------------------------------------------------------------------
(* What keeps each part of the invariant. *)

Plain(op) == op \notin Shutting /\ op # "launch"

\* Steps of threads that are not launching, while the held snapshots stay.
LEMMA LaunchingKept ==
  ASSUME Launching, \A i \in Snaps : snap'[i] = "held" <=> snap[i] = "held",
         \/ call' = call
         \/ \E w \in Threads : \E op, s, n, T : Went(w, op, s, n, T) /\ op # "launch" /\ call[w].op # "launch"
  PROVE  Launching'
<1>1. \A v \in Threads : \/ call'[v] = call[v]
                         \/ call'[v].op # "launch" /\ call[v].op # "launch"
  BY DEF Went
<1>2. /\ \A w \in Threads : call[w].op = "launch" => call[w].n \in Snaps /\ snap[call[w].n] = "held"
      /\ \A w, v \in Threads : call[w].op = "launch" /\ Launches(v, call[w].n) => w = v
      /\ \A i \in Snaps : snap[i] = "held" => \E w \in Threads : Launches(w, i)
  BY DEF Launching
<1>3. \A w \in Threads : call'[w].op = "launch" => call'[w].n \in Snaps /\ snap'[call'[w].n] = "held"
  BY <1>1, <1>2
<1>4. \A w, v \in Threads : call'[w].op = "launch" /\ call'[v].op = "launch" /\ call'[v].n = call'[w].n => w = v
  BY <1>1, <1>2 DEF Launches
<1>5. \A i \in Snaps : snap'[i] = "held" => \E w \in Threads : call'[w].op = "launch" /\ call'[w].n = i
  BY <1>1, <1>2 DEF Launches
<1> QED
  BY <1>3, <1>4, <1>5 DEF Launching, Launches

\* Steps that neither start nor advance a shutdown.
LEMMA ClosingKept ==
  ASSUME Closing, UNCHANGED <<live, down, host>>, faults' = 0 => faults = 0,
         \A s \in Seqs : dev'[s].life = dev[s].life,
         \/ call' = call
         \/ \E w \in Threads : \E op, s, n, T : Went(w, op, s, n, T) /\ op \notin Shutting /\ call[w].op \notin Shutting
  PROVE  Closing'
<1>1. \A v \in Threads : \/ call'[v] = call[v]
                         \/ call'[v].op \notin Shutting /\ call[v].op \notin Shutting
  BY DEF Went
<1>2. "release" \in Shutting
  BY DEF Shutting
<1>3. \A s \in Seqs : (OnDevice(s)' <=> OnDevice(s)) /\ (OnHost(s)' <=> OnHost(s))
  BY DEF OnDevice, OnHost
<1>4. \A w \in Threads : call'[w].op \in Shutting => down'
  BY <1>1 DEF Closing
<1>5. \A w, v \in Threads : call'[w].op \in Shutting /\ call'[v].op \in Shutting => w = v
  BY <1>1 DEF Closing
<1>6. down' => live' = {}
  BY DEF Closing
<1>7. \A w \in Threads, s \in Seqs :
        call'[w].op = "release" /\ call'[w].n = 2 /\ call'[w].seq = s => ~OnDevice(s)'
  BY <1>1, <1>2, <1>3 DEF Closing
<1>8. down' => \A s \in Seqs : OnDevice(s)' \/ (faults' = 0 /\ OnHost(s)') =>
                 \E w \in Threads : call'[w].op = "release" /\ s \in call'[w].todo
  <2>1. down => \A s \in Seqs : OnDevice(s) \/ (faults = 0 /\ OnHost(s)) =>
                 \E w \in Threads : call[w].op = "release" /\ s \in call[w].todo
    BY DEF Closing
  <2>2. \A w \in Threads : call[w].op = "release" => call'[w] = call[w]
    BY <1>1, <1>2
  <2> QED
    BY <1>3, <2>1, <2>2
<1> QED
  BY <1>4, <1>5, <1>6, <1>7, <1>8 DEF Closing

\* Before a shutdown the calls do not touch its part.
LEMMA ClosingOpen == ASSUME Closing, ~down, ~down', call' = call PROVE Closing'
<1>1. \A w \in Threads : call[w].op \notin Shutting
  BY DEF Closing
<1>2. \A w \in Threads : call'[w].op # "release" /\ call'[w].op \notin Shutting
  BY <1>1 DEF Shutting
<1> QED
  BY <1>2 DEF Closing

\* Once it is listed, every sequence is on both caches.
LEMMA BackedKept ==
  ASSUME LiveIsBacked, live' = live, down' = down \/ down', host' = host, faults' = 0 => faults = 0,
         \A s \in Seqs : dev'[s].life = dev[s].life
  PROVE  LiveIsBacked'
  BY DEF LiveIsBacked, OnDevice, OnHost

LEMMA Unlisted == ASSUME Closing, live # {} PROVE ~down
  BY DEF Closing

---------------------------------------------------------------------------
(* Calls that hold the mutex: the list and both caches change together. *)

\* How such a call changes the state: sequence d is built, changed or removed.
LEMMA LockedTyped ==
  ASSUME Typed, UNCHANGED <<call, snap, down>>, live' \subseteq Seqs,
         host' \in [Seqs -> 0 .. MaxLives], dev' \in [Seqs -> DevSeqs],
         lives' \in 0 .. MaxLives, faults' \in 0 .. MaxFaults, lost' \in BOOLEAN
  PROVE  Typed'
  BY DEF Typed, CallTypes

LEMMA LockedSound ==
  ASSUME IInv, Typed', LiveIsBacked', ~down, UNCHANGED <<call, snap, down>>
  PROVE  IInv'
<1>1. Closing'
  BY ClosingOpen DEF IInv
<1>2. Launching'
  BY LaunchingKept DEF IInv
<1> QED
  BY <1>1, <1>2 DEF IInv

\* One sequence object more, with the same life in both caches or with a fault.
LEMMA Built ==
  ASSUME Typed, lives < MaxLives
  PROVE  lives + 1 \in 0 .. MaxLives /\ lives + 1 # 0
  BY Bounds DEF Typed

LEMMA SlotCreateSound == ASSUME IInv, NEW s \in Seqs, SlotCreate(s) PROVE IInv'
<1> DEFINE new == [life |-> lives + 1, disp |-> TRUE, tail |-> 0]
<1>1. Typed /\ LiveIsBacked /\ ~down /\ lives + 1 \in 0 .. MaxLives /\ lives + 1 # 0
  BY Built DEF IInv, SlotCreate
<1>2. /\ live' = live \cup {s} /\ host' = [host EXCEPT ![s] = lives + 1] /\ dev' = [dev EXCEPT ![s] = new]
      /\ lives' = lives + 1 /\ UNCHANGED <<down, call, snap, lost, faults>>
  BY DEF SlotCreate
<1>3. new \in DevSeqs /\ new.life = lives + 1
  BY <1>1, Bounds DEF DevSeqs
<1> HIDE DEF new
<1>4. /\ host' \in [Seqs -> 0 .. MaxLives] /\ dev' \in [Seqs -> DevSeqs] /\ live' \subseteq Seqs
      /\ host'[s] = lives + 1 /\ dev'[s].life = lives + 1
      /\ \A r \in Seqs : r # s => host'[r] = host[r] /\ dev'[r] = dev[r]
  BY <1>1, <1>2, <1>3 DEF Typed
<1>5. Typed'
  BY <1>1, <1>2, <1>4, LockedTyped DEF Typed
<1>6. LiveIsBacked'
  BY <1>1, <1>2, <1>4 DEF LiveIsBacked, OnDevice, OnHost
<1> QED
  BY <1>1, <1>2, <1>5, <1>6, LockedSound

LEMMA SlotResetSound == ASSUME IInv, NEW s \in Seqs, SlotReset(s) PROVE IInv'
<1>1. Typed /\ LiveIsBacked /\ ~down /\ s \in live /\ OnHost(s)
  BY Unlisted DEF IInv, SlotReset, LiveIsBacked
<1>2. /\ live' = live \ {s} /\ host' = [host EXCEPT ![s] = 0] /\ dev' = [dev EXCEPT ![s] = NoSeq]
      /\ UNCHANGED <<down, call, snap, lives, lost, faults>>
  BY <1>1 DEF SlotReset
<1>3. NoSeq \in DevSeqs /\ NoSeq.life = 0 /\ 0 \in 0 .. MaxLives
  BY Bounds DEF DevSeqs, NoSeq
<1>4. /\ host' \in [Seqs -> 0 .. MaxLives] /\ dev' \in [Seqs -> DevSeqs] /\ live' \subseteq Seqs
      /\ host'[s] = 0 /\ dev'[s].life = 0
      /\ \A r \in Seqs : r # s => host'[r] = host[r] /\ dev'[r] = dev[r]
  BY <1>1, <1>2, <1>3 DEF Typed
<1>5. Typed'
  BY <1>1, <1>2, <1>4, LockedTyped DEF Typed
<1>6. LiveIsBacked'
  BY <1>1, <1>2, <1>4 DEF LiveIsBacked, OnDevice, OnHost
<1> QED
  BY <1>1, <1>2, <1>5, <1>6, LockedSound

LEMMA CancelSound == ASSUME IInv, NEW s \in Seqs, Cancel(s) PROVE IInv'
<1> DEFINE new == [dev[s] EXCEPT !.disp = FALSE]
<1>1. Typed /\ LiveIsBacked /\ ~down /\ dev[s] \in DevSeqs
  BY Unlisted DEF IInv, Cancel, Typed
<1>2. dev' = [dev EXCEPT ![s] = new] /\ UNCHANGED <<live, host, down, call, snap, lives, lost, faults>>
  BY DEF Cancel
<1>3. new \in DevSeqs /\ new.life = dev[s].life
  BY <1>1 DEF DevSeqs
<1> HIDE DEF new
<1>4. dev' \in [Seqs -> DevSeqs] /\ \A r \in Seqs : dev'[r].life = dev[r].life
  BY <1>1, <1>2, <1>3 DEF Typed
<1>5. Typed'
  BY <1>1, <1>2, <1>4, LockedTyped DEF Typed
<1>6. LiveIsBacked'
  BY <1>1, <1>2, <1>4, BackedKept
<1> QED
  BY <1>1, <1>2, <1>5, <1>6, LockedSound

LEMMA FailsCounts == ASSUME Typed, Fails PROVE faults' \in 0 .. MaxFaults /\ faults' # 0 /\ (faults' = 0 => faults = 0)
  BY Bounds DEF Typed, Fails

LEMMA CopySound == ASSUME IInv, NEW a \in Seqs, NEW d \in Seqs, NEW works \in BOOLEAN, Copy(a, d, works) PROVE IInv'
<1> DEFINE new == [life |-> lives + 1, disp |-> TRUE, tail |-> dev[a].tail]
<1>1. Typed /\ LiveIsBacked /\ ~down /\ lives + 1 \in 0 .. MaxLives /\ lives + 1 # 0 /\ a \in live /\ OnDevice(a)
  BY Built DEF IInv, Copy, LiveIsBacked
<1>2. host' = [host EXCEPT ![d] = lives + 1] /\ lives' = lives + 1 /\ UNCHANGED <<down, call, snap>>
  BY DEF Copy
<1>3. /\ host' \in [Seqs -> 0 .. MaxLives] /\ host'[d] = lives + 1
      /\ \A r \in Seqs : r # d => host'[r] = host[r]
  BY <1>1, <1>2 DEF Typed
<1>4. CASE works
  <2>1. /\ dev' = [dev EXCEPT ![d] = new] /\ live' = live \cup {d} /\ UNCHANGED <<lost, faults>>
    BY <1>1, <1>4 DEF Copy
  <2>2. new \in DevSeqs /\ new.life = lives + 1
    <3>1. dev[a] \in DevSeqs
      BY <1>1 DEF Typed
    <3> QED
      BY <1>1, <3>1 DEF DevSeqs
  <2> HIDE DEF new
  <2>3. /\ dev' \in [Seqs -> DevSeqs] /\ dev'[d].life = lives + 1 /\ live' \subseteq Seqs
        /\ \A r \in Seqs : r # d => dev'[r] = dev[r]
    BY <1>1, <2>1, <2>2 DEF Typed
  <2>4. Typed'
    BY <1>1, <1>2, <1>3, <2>1, <2>3, LockedTyped DEF Typed
  <2>5. LiveIsBacked'
    BY <1>1, <1>2, <1>3, <2>1, <2>3 DEF LiveIsBacked, OnDevice, OnHost
  <2> QED
    BY <1>1, <1>2, <2>4, <2>5, LockedSound
<1>5. CASE ~works
  <2>1. Fails /\ lost' \in {lost, TRUE} /\ dev' = dev /\ live' = live
    BY <1>5 DEF Copy
  <2>2. faults' \in 0 .. MaxFaults /\ faults' # 0
    BY <1>1, <2>1, FailsCounts
  <2>3. Typed'
    <3>1. live \subseteq Seqs /\ dev \in [Seqs -> DevSeqs] /\ lost' \in BOOLEAN /\ lives' \in 0 .. MaxLives
      BY <1>1, <1>2, <2>1 DEF Typed
    <3> QED
      BY <1>1, <1>2, <1>3, <2>1, <2>2, <3>1, LockedTyped
  <2>4. LiveIsBacked'
    BY <1>1, <1>2, <1>3, <2>1, <2>2 DEF LiveIsBacked, OnDevice, OnHost
  <2> QED
    BY <1>1, <1>2, <2>3, <2>4, LockedSound
<1> QED
  BY <1>4, <1>5

---------------------------------------------------------------------------
(* Calls that work after the check, and batches. *)

LEMMA CallTyped ==
  ASSUME Typed, NEW w \in Threads, NEW op, NEW s, NEW n, NEW T, Went(w, op, s, n, T),
         op = "append" => n \in 0 .. MaxTail, live' \subseteq Seqs, down' \in BOOLEAN,
         host' \in [Seqs -> 0 .. MaxLives], dev' \in [Seqs -> DevSeqs], snap' \in [Snaps -> SnapStates],
         UNCHANGED <<lives, lost>>, faults' \in 0 .. MaxFaults
  PROVE  Typed'
  BY DEF Typed, Went

LEMMA PlainSound ==
  ASSUME IInv, NEW w \in Threads, NEW op, NEW s, NEW n, NEW T, Went(w, op, s, n, T), Plain(op), Plain(call[w].op),
         op = "append" => n \in 0 .. MaxTail, dev' \in [Seqs -> DevSeqs], \A r \in Seqs : dev'[r].life = dev[r].life,
         UNCHANGED <<live, down, host, snap, lives, lost, faults>>
  PROVE  IInv'
<1>1. Typed'
  BY CallTyped DEF IInv, Typed
<1>2. LiveIsBacked'
  BY BackedKept DEF IInv
<1>3. Closing'
  BY ClosingKept DEF IInv, Plain
<1>4. Launching'
  BY LaunchingKept DEF IInv, Plain
<1> QED
  BY <1>1, <1>2, <1>3, <1>4 DEF IInv

LEMMA PlainOps ==
  \A op \in {"idle", "append", "cut", "shift", "shift_device", "execute", "again_ok", "again_failed"} : Plain(op)
  BY DEF Plain, Shutting

LEMMA CheckSound ==
  ASSUME IInv, NEW w \in Threads, NEW op, NEW s \in Seqs, NEW n \in 0 .. MaxTail, Check(w, op, s, n)
  PROVE  IInv'
<1>1. CallTypes /\ dev \in [Seqs -> DevSeqs]
  BY DEF IInv, Typed
<1>2. Went(w, op, s, n, {}) /\ Plain(op)
  BY <1>1, Checked, PlainOps
<1>3. Plain(call[w].op) /\ UNCHANGED <<live, down, host, dev, snap, lives, lost, faults>>
  BY PlainOps DEF Check, Running
<1> QED
  BY <1>1, <1>2, <1>3, PlainSound

LEMMA SubmitSound == ASSUME IInv, NEW w \in Threads, NEW S \in SUBSET Seqs, Submit(w, S) PROVE IInv'
<1>1. CallTypes /\ dev \in [Seqs -> DevSeqs]
  BY DEF IInv, Typed
<1>2. Went(w, "execute", "none", 0, S)
  BY <1>1, Submitted
<1>3. Plain(call[w].op) /\ Plain("execute") /\ UNCHANGED <<live, down, host, dev, snap, lives, lost, faults>>
  BY PlainOps DEF Submit, Running
<1> QED
  BY <1>1, <1>2, <1>3, PlainSound

\* A later shutdown only returns.
LEMMA ShutdownAgainSound == ASSUME IInv, NEW w \in Threads, ShutdownAgain(w) PROVE IInv'
<1>1. CallTypes /\ dev \in [Seqs -> DevSeqs]
  BY DEF IInv, Typed
<1>2. PICK op \in {"again_ok", "again_failed"} : call' = [call EXCEPT ![w] = [Idle EXCEPT !.op = op]]
  BY DEF ShutdownAgain
<1> DEFINE c == [Idle EXCEPT !.op = op]
<1>3. c \in Calls /\ c.op = op /\ c.seq = "none" /\ c.n = 0 /\ c.todo = {}
  BY IdleCall DEF Calls, Ops
<1>4. call' = [call EXCEPT ![w] = c]
  BY <1>2
<1> HIDE DEF c
<1>5. Went(w, op, "none", 0, {})
  BY <1>1, <1>3, <1>4, GoesTo
<1>6. Plain(call[w].op) /\ Plain(op) /\ UNCHANGED <<live, down, host, dev, snap, lives, lost, faults>>
  BY PlainOps DEF ShutdownAgain, Running
<1> QED
  BY <1>1, <1>5, <1>6, PlainSound

\* The host cache's part of a call, and its return.
LEMMA ReturnSound ==
  ASSUME IInv, NEW w \in Threads, Return(w), Plain(call[w].op),
         UNCHANGED <<live, down, host, dev, snap, lives, lost, faults>>
  PROVE  IInv'
<1>1. CallTypes /\ dev \in [Seqs -> DevSeqs]
  BY DEF IInv, Typed
<1>2. Went(w, "idle", "none", 0, {}) /\ Plain("idle")
  BY <1>1, Returns, PlainOps
<1> QED
  BY <1>1, <1>2, PlainSound

LEMMA StageSound == ASSUME IInv, NEW w \in Threads, Stage(w) PROVE IInv'
<1>1. /\ CallTypes /\ dev \in [Seqs -> DevSeqs] /\ call[w].n \in 0 .. MaxTail
      /\ Plain(call[w].op) /\ Plain("idle") /\ call[w].seq \in Seqs \cup {"none"}
  BY PlainOps, CallParts DEF IInv, Typed, Stage, Running
<1>2. Went(w, "idle", "none", 0, {}) /\ UNCHANGED <<live, down, host, snap, lives, lost, faults>>
  BY <1>1, Returns DEF Stage
<1>3. dev' \in [Seqs -> DevSeqs] /\ \A r \in Seqs : dev'[r].life = dev[r].life
  <2>1. CASE dev' = dev
    BY <1>1, <2>1
  <2>2. CASE dev' # dev /\ call[w].seq \in Seqs
    <3> DEFINE q == call[w].seq
               new == [dev[q] EXCEPT !.tail = call[w].n]
    <3>1. q \in Seqs /\ dev[q] \in DevSeqs
      BY <1>1, <2>2
    <3>2. new \in DevSeqs /\ new.life = dev[q].life
      BY <1>1, <3>1 DEF DevSeqs
    <3>3. dev' = [dev EXCEPT ![q] = new]
      BY <2>2 DEF Stage
    <3> HIDE DEF new, q
    <3> QED
      BY <1>1, <3>1, <3>2, <3>3
  <2>3. CASE dev' # dev /\ call[w].seq \notin Seqs
    BY <1>1, <2>3 DEF Stage
  <2> QED
    BY <2>1, <2>2, <2>3
<1> QED
  BY <1>1, <1>2, <1>3, PlainSound

LEMMA HostPartSound ==
  ASSUME IInv, NEW w \in Threads, CutHost(w) \/ ShiftHost(w) \/ ShiftDevice(w)
  PROVE  IInv'
<1>1. Plain(call[w].op) /\ UNCHANGED <<live, down, host, dev, snap, lives, lost, faults>>
  BY PlainOps DEF CutHost, ShiftHost, ShiftDevice, Running
<1>2. CASE Return(w)
  BY <1>1, <1>2, ReturnSound
<1>3. CASE call' = [call EXCEPT ![w].op = "shift_device"]
  <2>1. CallTypes /\ dev \in [Seqs -> DevSeqs] /\ "shift_device" \in Ops /\ Plain("shift_device")
    BY PlainOps DEF IInv, Typed, Ops
  <2>2. Went(w, "shift_device", call[w].seq, call[w].n, call[w].todo)
    BY <1>3, <2>1, Renamed
  <2> QED
    BY <1>1, <2>1, <2>2, PlainSound
<1> QED
  BY <1>2, <1>3 DEF CutHost, ShiftHost, ShiftDevice

\* A batch that has its snapshots is their only launcher.
LEMMA AcquireSound == ASSUME IInv, NEW w \in Threads, NEW i \in Snaps, Acquire(w, i) PROVE IInv'
<1>1. /\ Typed /\ CallTypes /\ dev \in [Seqs -> DevSeqs] /\ Plain(call[w].op) /\ call[w].op = "execute"
      /\ snap[i] = "none" /\ UNCHANGED <<live, down, host, dev, lives, lost, faults>>
  BY PlainOps DEF IInv, Typed, Acquire, Running
<1>2. CASE Return(w) /\ snap' = snap
  BY <1>1, <1>2, ReturnSound
<1>3. CASE call' = [call EXCEPT ![w].op = "launch", ![w].n = i] /\ snap' = [snap EXCEPT ![i] = "held"]
  <2>1. Went(w, "launch", call[w].seq, i, call[w].todo)
    BY <1>1, <1>3, Acquired
  <2>2. /\ snap' \in [Snaps -> SnapStates] /\ snap'[i] = "held"
        /\ \A j \in Snaps : j # i => snap'[j] = snap[j]
    BY <1>1, <1>3 DEF Typed, SnapStates
  <2>3. Typed'
    BY <1>1, <2>1, <2>2, CallTyped DEF Typed
  <2>4. LiveIsBacked'
    BY <1>1, BackedKept DEF IInv
  <2>5. Closing'
    BY <1>1, <2>1, ClosingKept DEF IInv, Shutting
  <2>6. Launching'
    <3>1. /\ call'[w].op = "launch" /\ call'[w].n = i
          /\ \A v \in Threads : v # w => call'[v] = call[v]
      BY <2>1 DEF Went
    <3>2. /\ \A v \in Threads : call[v].op = "launch" => call[v].n \in Snaps /\ snap[call[v].n] = "held"
          /\ \A u, v \in Threads : call[u].op = "launch" /\ Launches(v, call[u].n) => u = v
          /\ \A j \in Snaps : snap[j] = "held" => \E v \in Threads : Launches(v, j)
      BY DEF IInv, Launching
    <3>3. \A v \in Threads : call[v].op = "launch" => call[v].n # i /\ v # w
      BY <1>1, <3>2
    <3>4. \A v \in Threads : call'[v].op = "launch" => call'[v].n \in Snaps /\ snap'[call'[v].n] = "held"
      BY <2>2, <3>1, <3>2, <3>3
    <3>5. \A u, v \in Threads : call'[u].op = "launch" /\ call'[v].op = "launch" /\ call'[v].n = call'[u].n => u = v
      BY <3>1, <3>2, <3>3 DEF Launches
    <3>6. \A j \in Snaps : snap'[j] = "held" => \E v \in Threads : call'[v].op = "launch" /\ call'[v].n = j
      BY <2>2, <3>1, <3>2, <3>3 DEF Launches
    <3> QED
      BY <3>4, <3>5, <3>6 DEF Launching, Launches
  <2> QED
    BY <2>3, <2>4, <2>5, <2>6 DEF IInv
<1> QED
  BY <1>2, <1>3 DEF Acquire

\* A batch hands its snapshots on, and stops being their launcher.
LEMMA LaunchEnds ==
  ASSUME IInv, NEW w \in Threads, call[w].op = "launch", Return(w),
         NEW st \in SnapStates, st # "held", snap' = [snap EXCEPT ![call[w].n] = st],
         UNCHANGED <<live, down, host, dev, lives, lost>>,
         faults' \in 0 .. MaxFaults, faults' = 0 => faults = 0
  PROVE  IInv'
<1>1. Typed /\ CallTypes /\ call[w].n \in Snaps
  BY DEF IInv, Typed, Launching
<1>2. Went(w, "idle", "none", 0, {})
  BY <1>1, Returns
<1>3. /\ snap' \in [Snaps -> SnapStates] /\ snap'[call[w].n] # "held"
      /\ \A j \in Snaps : j # call[w].n => snap'[j] = snap[j]
  BY <1>1 DEF Typed
<1>4. Typed'
  BY <1>1, <1>2, <1>3, CallTyped DEF Typed
<1>5. LiveIsBacked'
  BY <1>1, BackedKept DEF IInv
<1>6. Closing'
  BY <1>1, <1>2, ClosingKept DEF IInv, Shutting
<1>7. Launching'
  <2>1. call'[w].op = "idle" /\ \A v \in Threads : v # w => call'[v] = call[v]
    BY <1>2 DEF Went
  <2>2. /\ \A v \in Threads : call[v].op = "launch" => call[v].n \in Snaps /\ snap[call[v].n] = "held"
        /\ \A u, v \in Threads : call[u].op = "launch" /\ call[v].op = "launch" /\ call[v].n = call[u].n => u = v
        /\ \A j \in Snaps : snap[j] = "held" => \E v \in Threads : call[v].op = "launch" /\ call[v].n = j
    BY DEF IInv, Launching, Launches
  <2>3. \A v \in Threads : call'[v].op = "launch" => v # w /\ call[v].op = "launch" /\ call'[v].n = call[v].n
    BY <2>1
  <2>4. \A v \in Threads : call'[v].op = "launch" => call'[v].n \in Snaps /\ snap'[call'[v].n] = "held"
    BY <1>3, <2>2, <2>3
  <2>5. \A u, v \in Threads : call'[u].op = "launch" /\ call'[v].op = "launch" /\ call'[v].n = call'[u].n => u = v
    BY <2>2, <2>3
  <2>6. \A j \in Snaps : snap'[j] = "held" => \E v \in Threads : call'[v].op = "launch" /\ call'[v].n = j
    BY <1>3, <2>1, <2>2
  <2> QED
    BY <2>4, <2>5, <2>6 DEF Launching, Launches
<1> QED
  BY <1>4, <1>5, <1>6, <1>7 DEF IInv

LEMMA RecordSound == ASSUME IInv, NEW w \in Threads, Record(w) PROVE IInv'
<1>1. /\ call[w].op = "launch" /\ Return(w) /\ snap' = [snap EXCEPT ![call[w].n] = "pending"]
      /\ UNCHANGED <<live, down, host, dev, lives, lost, faults>> /\ faults' \in 0 .. MaxFaults
  BY DEF Record, Running, IInv, Typed
<1> QED
  BY <1>1, LaunchEnds DEF SnapStates

LEMMA LaunchFailsSound == ASSUME IInv, NEW w \in Threads, LaunchFails(w) PROVE IInv'
<1>1. /\ call[w].op = "launch" /\ Return(w) /\ snap' = [snap EXCEPT ![call[w].n] = "none"]
      /\ UNCHANGED <<live, down, host, dev, lives, lost>> /\ Fails /\ Typed
  BY DEF LaunchFails, Running, IInv
<1>2. faults' \in 0 .. MaxFaults /\ faults' # 0
  BY <1>1, FailsCounts
<1> QED
  BY <1>1, <1>2, LaunchEnds DEF SnapStates

LEMMA RecordFailsSound == ASSUME IInv, NEW w \in Threads, RecordFails(w) PROVE IInv'
<1>1. /\ call[w].op = "launch" /\ Return(w) /\ snap' = [snap EXCEPT ![call[w].n] = "leaked"]
      /\ UNCHANGED <<live, down, host, dev, lives, lost>> /\ Fails /\ Typed
  BY DEF RecordFails, Running, IInv
<1>2. faults' \in 0 .. MaxFaults /\ faults' # 0
  BY <1>1, FailsCounts
<1> QED
  BY <1>1, <1>2, LaunchEnds DEF SnapStates

LEMMA FinishSound == ASSUME IInv, NEW i \in Snaps, Finish(i) PROVE IInv'
<1>1. /\ snap[i] = "pending" /\ snap' = [snap EXCEPT ![i] = "finished"]
      /\ UNCHANGED <<live, down, host, dev, call, lives, lost, faults>> /\ Typed
  BY DEF Finish, IInv
<1>2. snap' \in [Snaps -> SnapStates] /\ \A j \in Snaps : snap'[j] = "held" <=> snap[j] = "held"
  BY <1>1 DEF Typed, SnapStates
<1>3. Typed'
  BY <1>1, <1>2 DEF Typed, CallTypes
<1>4. LiveIsBacked' /\ Closing' /\ Launching'
  BY <1>1, <1>2, BackedKept, ClosingKept, LaunchingKept DEF IInv
<1> QED
  BY <1>3, <1>4 DEF IInv

---------------------------------------------------------------------------
(* Shutdown: one thread has the list of what the caches still have. *)

\* What a cache may still have, as the thread that shuts down sees it.
Left(s) == OnDevice(s) \/ (faults = 0 /\ OnHost(s))

LEMMA ListedLeft ==
  ASSUME IInv, NEW w \in Threads, call[w].op \in Shutting
  PROVE  down /\ \A s \in Seqs : Left(s) => call[w].op = "release" /\ s \in call[w].todo
<1>1. down /\ \A v \in Threads : call[v].op = "release" => v = w
  BY DEF IInv, Closing, Shutting
<1>2. \A s \in Seqs : Left(s) => \E v \in Threads : call[v].op = "release" /\ s \in call[v].todo
  BY <1>1 DEF IInv, Closing, Left
<1> QED
  BY <1>1, <1>2

LEMMA ShutdownKept ==
  ASSUME IInv, NEW w \in Threads, call[w].op \in Shutting,
         NEW op \in Shutting, NEW s, NEW n, NEW T, Went(w, op, s, n, T),
         UNCHANGED <<live, down, lives, lost, faults>>, snap' \in [Snaps -> SnapStates],
         host' \in [Seqs -> 0 .. MaxLives], dev' \in [Seqs -> DevSeqs],
         \A i \in Snaps : snap'[i] = "held" <=> snap[i] = "held",
         op = "release" /\ n = 2 => \A r \in Seqs : s = r => ~OnDevice(r)',
         \A r \in Seqs : Left(r)' => op = "release" /\ r \in T
  PROVE  IInv'
<1>1. Typed'
  BY CallTyped DEF IInv, Typed, Shutting
<1>2. down /\ LiveIsBacked'
  BY ListedLeft DEF LiveIsBacked
<1>3. Launching'
  BY LaunchingKept DEF IInv, Shutting
<1>4. /\ call'[w].op = op /\ call'[w].seq = s /\ call'[w].n = n /\ call'[w].todo = T
      /\ \A v \in Threads : v # w => call'[v] = call[v] /\ call[v].op \notin Shutting
  BY DEF Went, IInv, Closing
<1>5. \A v \in Threads : call'[v].op \in Shutting => v = w
  BY <1>4
<1>6. \A v \in Threads, r \in Seqs :
        call'[v].op = "release" /\ call'[v].n = 2 /\ call'[v].seq = r => ~OnDevice(r)'
  BY <1>4, <1>5 DEF Shutting
<1>7. \A r \in Seqs : OnDevice(r)' \/ (faults' = 0 /\ OnHost(r)') =>
        \E v \in Threads : call'[v].op = "release" /\ r \in call'[v].todo
  BY <1>4 DEF Left
<1>8. down' /\ live' = {}
  BY <1>2 DEF IInv, Closing
<1>9. Closing'
  BY <1>5, <1>6, <1>7, <1>8 DEF Closing
<1> QED
  BY <1>1, <1>2, <1>3, <1>9 DEF IInv

LEMMA ShutdownBeginSound == ASSUME IInv, NEW w \in Threads, ShutdownBegin(w) PROVE IInv'
<1>1. /\ Typed /\ CallTypes /\ live \subseteq Seqs /\ ~down /\ down' = TRUE /\ live' = {} /\ call[w].op = "idle"
      /\ UNCHANGED <<host, dev, snap, lives, lost, faults>>
  BY DEF IInv, Typed, ShutdownBegin, Running
<1>2. Went(w, "release", "none", 0, live)
  BY <1>1, Begun
<1>3. Typed'
  BY <1>1, <1>2, CallTyped DEF Typed
<1>4. LiveIsBacked'
  BY <1>1 DEF LiveIsBacked
<1>5. Launching'
  BY <1>1, <1>2, LaunchingKept DEF IInv
<1>6. /\ call'[w].op = "release" /\ call'[w].n = 0 /\ call'[w].todo = live
      /\ \A v \in Threads : v # w => call'[v] = call[v] /\ call[v].op \notin Shutting
  BY <1>1, <1>2 DEF Went, IInv, Closing
<1>7. \A v \in Threads : call'[v].op \in Shutting => v = w
  BY <1>6
<1>8. \A s \in Seqs : OnDevice(s)' \/ (faults' = 0 /\ OnHost(s)') => s \in live
  BY <1>1 DEF IInv, LiveIsBacked, OnDevice, OnHost
<1>9. Closing'
  BY <1>1, <1>6, <1>7, <1>8 DEF Closing, Shutting
<1> QED
  BY <1>3, <1>4, <1>5, <1>9 DEF IInv

LEMMA ShutdownCancelSound == ASSUME IInv, NEW w \in Threads, NEW s \in Seqs, ShutdownCancel(w, s) PROVE IInv'
<1> DEFINE new == [dev[s] EXCEPT !.disp = FALSE]
<1>1. /\ CallTypes /\ dev \in [Seqs -> DevSeqs] /\ dev[s] \in DevSeqs
      /\ host \in [Seqs -> 0 .. MaxLives] /\ snap \in [Snaps -> SnapStates]
      /\ UNCHANGED <<live, down, host, snap, lives, lost, faults>>
  BY DEF IInv, Typed, ShutdownCancel
<1>2. Went(w, "release", s, 1, call[w].todo) /\ call[w].op = "release" /\ "release" \in Shutting
  BY <1>1, Cancelled DEF Shutting
<1>3. dev' = dev \/ dev' = [dev EXCEPT ![s] = new]
  BY DEF ShutdownCancel
<1>4. new \in DevSeqs /\ new.life = dev[s].life
  BY <1>1 DEF DevSeqs
<1> HIDE DEF new
<1>5. dev' \in [Seqs -> DevSeqs] /\ \A r \in Seqs : dev'[r].life = dev[r].life
  BY <1>1, <1>3, <1>4
<1>6. \A r \in Seqs : Left(r)' => r \in call[w].todo
  BY <1>1, <1>2, <1>5, ListedLeft DEF Left, OnDevice, OnHost
<1> QED
  BY <1>1, <1>2, <1>5, <1>6, ShutdownKept

LEMMA ShutdownDeviceSound == ASSUME IInv, NEW w \in Threads, ShutdownDevice(w) PROVE IInv'
<1>1. /\ CallTypes /\ dev \in [Seqs -> DevSeqs] /\ call[w].seq \in Seqs \cup {"none"}
      /\ host \in [Seqs -> 0 .. MaxLives] /\ snap \in [Snaps -> SnapStates]
      /\ UNCHANGED <<live, down, host, snap, lives, lost, faults>>
      /\ dev' = [dev EXCEPT ![call[w].seq] = NoSeq]
  BY CallParts DEF IInv, Typed, ShutdownDevice
<1>2. Went(w, "release", call[w].seq, 2, call[w].todo) /\ call[w].op = "release" /\ "release" \in Shutting
  BY <1>1, DeviceDone DEF Shutting
<1>3. NoSeq \in DevSeqs /\ NoSeq.life = 0
  BY Bounds DEF NoSeq, DevSeqs
<1>4. /\ dev' \in [Seqs -> DevSeqs] /\ \A r \in Seqs : call[w].seq = r => ~OnDevice(r)'
      /\ \A r \in Seqs : OnDevice(r)' => OnDevice(r)
  BY <1>1, <1>3 DEF OnDevice
<1>5. \A r \in Seqs : Left(r)' => r \in call[w].todo
  BY <1>1, <1>2, <1>4, ListedLeft DEF Left, OnHost
<1> QED
  BY <1>1, <1>2, <1>4, <1>5, ShutdownKept

LEMMA ShutdownHostSound == ASSUME IInv, NEW w \in Threads, ShutdownHost(w) PROVE IInv'
<1>1. /\ CallTypes /\ dev \in [Seqs -> DevSeqs] /\ call[w].n = 2
      /\ host \in [Seqs -> 0 .. MaxLives] /\ snap \in [Snaps -> SnapStates]
      /\ UNCHANGED <<live, down, dev, snap, lives, lost, faults>>
      /\ host' = [host EXCEPT ![call[w].seq] = 0]
  BY DEF IInv, Typed, ShutdownHost
<1>2. Went(w, "release", "none", 0, call[w].todo \ {call[w].seq}) /\ call[w].op = "release" /\ "release" \in Shutting
  BY <1>1, HostDone DEF Shutting
<1>3. host' \in [Seqs -> 0 .. MaxLives] /\ \A r \in Seqs : host'[r] = IF r = call[w].seq THEN 0 ELSE host[r]
  <2>1. 0 \in 0 .. MaxLives
    BY Bounds
  <2> QED
    BY <1>1, <2>1
<1>4. \A r \in Seqs : call[w].seq = r => ~OnDevice(r)
  BY <1>1, <1>2 DEF IInv, Closing
<1>5. \A r \in Seqs : Left(r)' => Left(r) /\ r # call[w].seq
  BY <1>1, <1>3, <1>4 DEF Left, OnHost, OnDevice
<1>6. \A r \in Seqs : Left(r)' => r \in call[w].todo \ {call[w].seq}
  BY <1>2, <1>5, ListedLeft
<1> QED
  BY <1>1, <1>2, <1>3, <1>6, ShutdownKept

LEMMA ShutdownReclaimSound == ASSUME IInv, NEW w \in Threads, ShutdownReclaim(w) PROVE IInv'
<1>1. /\ CallTypes /\ dev \in [Seqs -> DevSeqs] /\ host \in [Seqs -> 0 .. MaxLives] /\ snap \in [Snaps -> SnapStates]
      /\ UNCHANGED <<live, down, host, dev, lives, lost, faults>> /\ call[w].op = "release" /\ call[w].todo = {}
      /\ call' = [call EXCEPT ![w].op = "audit"]
  BY DEF IInv, Typed, ShutdownReclaim, Running
<1>2. Went(w, "audit", call[w].seq, call[w].n, call[w].todo) /\ "audit" \in Shutting /\ "release" \in Shutting
  BY <1>1, Renamed DEF Ops, Shutting
<1>3. snap' \in [Snaps -> SnapStates] /\ \A i \in Snaps : snap'[i] = "held" <=> snap[i] = "held"
  BY <1>1 DEF ShutdownReclaim, SnapStates
<1>4. \A r \in Seqs : ~Left(r)'
  BY <1>1, <1>2, ListedLeft DEF Left, OnDevice, OnHost
<1> QED
  BY <1>1, <1>2, <1>3, <1>4, ShutdownKept

LEMMA ShutdownEndSound == ASSUME IInv, NEW w \in Threads, ShutdownEnd(w) PROVE IInv'
<1>1. /\ CallTypes /\ dev \in [Seqs -> DevSeqs] /\ host \in [Seqs -> 0 .. MaxLives] /\ snap \in [Snaps -> SnapStates]
      /\ UNCHANGED <<live, down, host, dev, snap, lives, lost, faults>> /\ call[w].op = "audit"
  BY DEF IInv, Typed, ShutdownEnd, Running
<1>2. PICK op \in {"stopped", "failed"} : call' = [call EXCEPT ![w].op = op]
  BY DEF ShutdownEnd
<1>3. Went(w, op, call[w].seq, call[w].n, call[w].todo) /\ op \in Shutting /\ "audit" \in Shutting /\ op # "release"
  BY <1>1, <1>2, Renamed DEF Ops, Shutting
<1>4. \A r \in Seqs : ~Left(r)'
  BY <1>1, <1>3, ListedLeft DEF Left, OnDevice, OnHost
<1> QED
  BY <1>1, <1>3, <1>4, ShutdownKept

---------------------------------------------------------------------------
(* The theorem. *)

LEMMA InitSound == Init => IInv
<1> SUFFICES ASSUME Init PROVE IInv
  OBVIOUS
<1>1. /\ live = {} /\ down = FALSE /\ lives = 0 /\ faults = 0 /\ lost = FALSE
      /\ \A s \in Seqs : host[s] = 0 /\ dev[s] = NoSeq /\ \A w \in Threads : call[w] = Idle
      /\ \A w \in Threads : call[w] = Idle
      /\ \A i \in Snaps : snap[i] = "none"
  BY DEF Init
<1>2. NoSeq \in DevSeqs /\ NoSeq.life = 0 /\ 0 \in 0 .. MaxLives /\ 0 \in 0 .. MaxFaults
  BY Bounds DEF NoSeq, DevSeqs
<1>3. Typed
  BY <1>1, <1>2, IdleCall DEF Init, Typed, CallTypes, SnapStates
<1>4. LiveIsBacked
  BY <1>1, <1>2 DEF LiveIsBacked, OnDevice, OnHost
<1>5. Closing
  <2>1. \A w \in Threads : call[w].op \notin Shutting /\ call[w].op # "release"
    BY <1>1, IdleCall DEF Shutting
  <2> QED
    BY <1>1, <2>1 DEF Closing
<1>6. Launching
  <2>1. \A w \in Threads : call[w].op # "launch"
    BY <1>1, IdleCall
  <2> QED
    BY <1>1, <2>1 DEF Launching
<1> QED
  BY <1>3, <1>4, <1>5, <1>6 DEF IInv

LEMMA StepSound == ASSUME IInv, NEW w \in Threads, Step(w) PROVE IInv'
  BY StageSound, HostPartSound, AcquireSound, RecordSound, ShutdownCancelSound, ShutdownDeviceSound,
     ShutdownHostSound, ShutdownReclaimSound, ShutdownEndSound DEF Step

LEMMA LockedNextSound == ASSUME IInv, LockedNext PROVE IInv'
  BY SlotCreateSound, SlotResetSound, CancelSound, CopySound, ShutdownBeginSound,
     ShutdownAgainSound DEF LockedNext

LEMMA StutterSound == ASSUME IInv, UNCHANGED vars PROVE IInv'
<1>1. UNCHANGED <<live, down, host, dev, call, snap, lives, lost, faults>>
  BY DEF vars
<1>2. Typed'
  BY <1>1 DEF IInv, Typed, CallTypes
<1>3. LiveIsBacked' /\ Closing' /\ Launching'
  BY <1>1, BackedKept, ClosingKept, LaunchingKept DEF IInv
<1> QED
  BY <1>2, <1>3 DEF IInv

LEMMA NextSound == IInv /\ [Next]_vars => IInv'
<1> SUFFICES ASSUME IInv, [Next]_vars PROVE IInv'
  OBVIOUS
<1>1. CASE LockedNext
  BY <1>1, LockedNextSound
<1>2. CASE \E w \in Threads, op \in {"append", "shift", "cut"}, s \in Seqs, n \in 0 .. MaxTail : Check(w, op, s, n)
  BY <1>2, CheckSound
<1>3. CASE \E w \in Threads, S \in SUBSET Seqs : Submit(w, S)
  BY <1>3, SubmitSound
<1>4. CASE \E w \in Threads : Step(w) \/ LaunchFails(w) \/ RecordFails(w)
  BY <1>4, StepSound, LaunchFailsSound, RecordFailsSound
<1>5. CASE \E i \in Snaps : Finish(i)
  BY <1>5, FinishSound
<1>6. CASE UNCHANGED vars
  BY <1>6, StutterSound
<1> QED
  BY <1>1, <1>2, <1>3, <1>4, <1>5, <1>6 DEF Next

LEMMA Consequences == IInv => ServerInv
<1> SUFFICES ASSUME IInv PROVE ServerInv
  OBVIOUS
<1>1. TypeOK
  <2>1. \A w \in Threads : call[w].todo \subseteq Seqs
    BY CallParts DEF IInv, Typed
  <2> QED
    BY <2>1 DEF IInv, Typed, TypeOK, DevSeqs
<1>2. LiveIsBacked
  BY DEF IInv
<1>3. StoppedIsEmpty
  <2> SUFFICES ASSUME NEW w \in Threads, call[w].op \in {"stopped", "failed"}, NEW s \in Seqs PROVE ~Left(s)
    BY DEF StoppedIsEmpty, Stopped, Left
  <2> QED
    BY ListedLeft DEF Shutting
<1>4. HeldHasLauncher
  <2> SUFFICES ASSUME NEW i \in Snaps, snap[i] = "held"
               PROVE  Cardinality({w \in Threads : call[w].op = "launch" /\ call[w].n = i}) = 1
    BY DEF HeldHasLauncher
  <2>1. PICK w \in Threads : call[w].op = "launch" /\ call[w].n = i
    BY DEF IInv, Launching, Launches
  <2>2. \A v \in Threads : call[v].op = "launch" /\ call[v].n = i => v = w
    BY <2>1 DEF IInv, Launching, Launches
  <2>3. {v \in Threads : call[v].op = "launch" /\ call[v].n = i} = {w}
    BY <2>1, <2>2
  <2> QED
    BY <2>3, FS_Singleton
<1> QED
  BY <1>1, <1>2, <1>3, <1>4 DEF ServerInv

\* Whatever the interleaving of any number of threads and wherever a CUDA call
\* fails, the live list is what the resolver has and the host cache has it too
\* until shutdown starts, the shutdown that took the list leaves no sequence in
\* the resolver when it returns (nor in the host cache without a fault), and held
\* snapshots have one launcher.
THEOREM ServerSound == Spec => []ServerInv
<1>1. Spec => []IInv
  BY InitSound, NextSound, PTL DEF Spec
<1> QED
  BY <1>1, Consequences, PTL
=============================================================================
