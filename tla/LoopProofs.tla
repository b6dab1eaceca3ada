----------------------------- MODULE LoopProofs -----------------------------
(***************************************************************************)
(* Proofs about Loop, for any number of iterations, clients, watches,      *)
(* faults and crashes: iterations are counted and bounded, an ended timer  *)
(* is not registered again, an end is final.                               *)
(***************************************************************************)
EXTENDS LoopProperties, FiniteSetTheorems, TLAPS

\* Where the loop is tells how many ids were handed out, and the timers that
\* were consumed are those of the iterations before this one.
FileInv ==
  /\ ids \in 0 .. Limit /\ loop.iteration \in 0 .. Limit
  /\ loop.status = "absent" => loop.iteration = 0 /\ ids = 0
  /\ loop.status # "absent" => loop.iteration >= 1
  /\ loop.phase = "running" => ids + 1 = loop.iteration
  /\ loop.phase = "waiting" => loop.watch_id = ids /\ loop.iteration = ids /\ ids < Limit
  /\ begun = [i \in Timers |-> IF i < loop.iteration THEN 1 ELSE 0]

\* Where a command is that has yet to commit.
Committing == {"queued", "looked", "cancelling"}

\* Memory and disk know the loop before its file is there.
Known == loop.status # "absent" => registry.loops /\ disk.loops
Served ==
  \A a \in Actors : requests[a].pc \in Committing /\ requests[a].op = "init" =>
    registry.loops /\ disk.loops

\* Timers have ids that were handed out.  One that the registry file has shown
\* as ended is not run again, and as long as the loop waits for it both memory
\* and file have its record.
TimerInv ==
  /\ tasks \cup registry.active \cup disk.active \cup ended \subseteq 1 .. ids
  /\ registry.done \cap Timers \subseteq 1 .. ids
  /\ disk.done \cap Timers \subseteq ended
  /\ registry.active \cap registry.done = {}
  /\ disk.active \cap disk.done = {}
  /\ ~unread => \A i \in ended :
       /\ i \notin registry.active \cup disk.active
       /\ loop.watch_id = i => i \in registry.done /\ i \in disk.done

LInv == TypeOK /\ FileInv /\ Known /\ Served /\ TimerInv

-----------------------------------------------------------------------------
(* Data.                                                                   *)

Files == [status : {"absent", "active", "completed", "cancelled"},
          phase : {"none", "running", "waiting"}, iteration : Nat,
          watch_id : 0 .. Limit, last_event : 0 .. Limit]
Requests == [pc : {"idle", "queued", "looked", "register", "ran", "cancelling"},
             op : Ops, id : 0 .. Limit, open : BOOLEAN, served : BOOLEAN]

\* Every change of the file, written out.
File(status, phase, iteration, watch_id, event) ==
  [status |-> status, phase |-> phase, iteration |-> iteration,
   watch_id |-> watch_id, last_event |-> event]

Waited(i) == [loop EXCEPT !.phase = "waiting", !.watch_id = i]
Begun(i)  == [loop EXCEPT !.iteration = @ + 1, !.phase = "running",
                !.watch_id = 0, !.last_event = i]

\* A loop that is over, written out.
LEMMA FileOver ==
  ASSUME NEW f \in Files, NEW status
  PROVE  Over(f, status) = File(status, "none", f.iteration, 0, f.last_event)
<1> DEFINE a == [f EXCEPT !.status = status]
           b == [a EXCEPT !.phase = "none"]
           c == [b EXCEPT !.watch_id = 0]
<1>1. a = File(status, f.phase, f.iteration, f.watch_id, f.last_event)
  BY DEF Files, File
<1>2. b = File(status, "none", f.iteration, f.watch_id, f.last_event)
  <2> HIDE DEF a
  <2> QED BY <1>1 DEF File
<1>3. c = File(status, "none", f.iteration, 0, f.last_event)
  <2> HIDE DEF b
  <2> QED BY <1>2 DEF File
<1>4. QED
  BY <1>3, Zenon DEF Over

\* One whose wait was consumed after the deadline.
LEMMA FileExpired ==
  ASSUME loop \in Files, NEW i
  PROVE  expired(i) = File("completed", "none", loop.iteration, 0, i)
<1> DEFINE over == Over(loop, "completed")
<1>1. over = File("completed", "none", loop.iteration, 0, loop.last_event)
  BY FileOver
<1>2. [over EXCEPT !.last_event = i] = File("completed", "none", loop.iteration, 0, i)
  <2> HIDE DEF over
  <2> QED BY <1>1 DEF File
<1>3. QED
  BY <1>2, Zenon DEF expired

\* One that waits.
LEMMA FileWaited ==
  ASSUME loop \in Files, NEW i
  PROVE  Waited(i) = File(loop.status, "waiting", loop.iteration, i, loop.last_event)
<1> DEFINE a == [loop EXCEPT !.phase = "waiting"]
<1>1. a = File(loop.status, "waiting", loop.iteration, loop.watch_id, loop.last_event)
  BY DEF Files, File
<1>2. [a EXCEPT !.watch_id = i] = File(loop.status, "waiting", loop.iteration, i, loop.last_event)
  <2> HIDE DEF a
  <2> QED BY <1>1 DEF File
<1>3. QED
  BY <1>2, Zenon DEF Waited

\* One that began its next iteration.
LEMMA FileBegun ==
  ASSUME loop \in Files, NEW i
  PROVE  Begun(i) = File(loop.status, "running", loop.iteration + 1, 0, i)
<1> DEFINE a == [loop EXCEPT !.iteration = loop.iteration + 1]
           b == [a EXCEPT !.phase = "running"]
           c == [b EXCEPT !.watch_id = 0]
           d == [c EXCEPT !.last_event = i]
<1>1. a = File(loop.status, loop.phase, loop.iteration + 1, loop.watch_id, loop.last_event)
  BY DEF Files, File
<1>2. b = File(loop.status, "running", loop.iteration + 1, loop.watch_id, loop.last_event)
  <2> HIDE DEF a
  <2> QED BY <1>1 DEF File
<1>3. c = File(loop.status, "running", loop.iteration + 1, 0, loop.last_event)
  <2> HIDE DEF b
  <2> QED BY <1>2 DEF File
<1>4. d = File(loop.status, "running", loop.iteration + 1, 0, i)
  <2> HIDE DEF c
  <2> QED BY <1>3 DEF File
<1>5. QED
  BY <1>4, Zenon DEF Begun

\* The watches are finitely many.
LEMMA WatchesFinite == IsFiniteSet(Watches) /\ Cardinality(Watches) \in Nat
<1>1. IsFiniteSet(Timers)
  BY LoopAssumption, FS_Interval DEF Timers
<1>2. IsFiniteSet(Watches)
  BY <1>1, LoopAssumption, FS_Union DEF Watches
<1>3. QED
  BY <1>2, FS_CardinalityType

\* The ranks of the updates are numbers.
LEMMA Ranks ==
  ASSUME NEW r \in Registries
  PROVE  Ranked(r) \in [Watches -> Nat]
<1>1. ASSUME NEW w \in Watches
      PROVE  Cardinality({v \in r.done : r.at[v] <= r.at[w]}) \in Nat
  <2>1. IsFiniteSet({v \in r.done : r.at[v] <= r.at[w]})
    BY WatchesFinite, FS_Subset DEF Registries
  <2>2. QED
    BY <2>1, FS_CardinalityType
<1>2. QED
  BY <1>1 DEF Ranked

\* What save writes, or fails to write: it drops records of ended watches, never
\* the one a known loop shows as long as its file can be read.
LEMMA Saved ==
  ASSUME TypeOK, NEW r \in Registries, Save(r) \/ SaveFails(r)
  PROVE  /\ registry' \in Registries /\ disk' \in {registry', disk} /\ disk' \in Registries
         /\ ended' = ended \cup (disk'.done \cap Timers)
         /\ unread' \in BOOLEAN /\ (unread => unread') /\ faults' \in Nat
         /\ registry'.loops = r.loops /\ registry'.active = r.active
         /\ registry'.done \subseteq r.done
         /\ ~unread' /\ r.loops /\ loop.watch_id \in r.done =>
              loop.watch_id \in registry'.done
<1>1. PICK readable \in BOOLEAN : InMemory(r, readable)
  BY DEF Save, SaveFails
<1>2. /\ disk' \in {registry', disk} /\ faults' \in {faults, faults + 1}
      /\ ended' = ended \cup (disk'.done \cap Timers)
  BY DEF Save, SaveFails, Fault, OnDisk
<1> DEFINE kept == [r EXCEPT !.done = r.done \ Evicted(r, readable)]
<1>3. registry' = [kept EXCEPT !.at = Ranked(kept)] /\ unread' = (unread \/ ~readable)
  BY <1>1, Zenon DEF InMemory
<1>4. /\ kept \in Registries /\ kept.loops = r.loops /\ kept.active = r.active
      /\ kept.done = r.done \ Evicted(r, readable)
  BY DEF Registries
<1>5. Ranked(kept) \in [Watches -> Nat]
  BY <1>4, Ranks
<1>6. /\ registry' \in Registries /\ registry'.loops = r.loops
      /\ registry'.active = r.active /\ registry'.done = r.done \ Evicted(r, readable)
  <2> HIDE DEF kept
  <2> QED BY <1>3, <1>4, <1>5 DEF Registries
<1>7. unread' \in BOOLEAN /\ (unread => unread') /\ (~unread' => readable)
  <2>1. unread \in BOOLEAN
    BY Zenon DEF TypeOK
  <2>2. QED
    BY <1>3, <2>1, Zenon
<1>8. r.loops /\ readable => loop.watch_id \notin Evicted(r, readable)
  BY DEF Evicted
<1>9. faults' \in Nat /\ disk' \in Registries
  BY <1>2, <1>6 DEF TypeOK
<1>10. QED
  BY <1>2, <1>6, <1>7, <1>8, <1>9

\* A record that was updated now.
LEMMA TouchedType ==
  ASSUME NEW r \in Registries, NEW w \in Watches
  PROVE  /\ Touched(r, w) \in Registries /\ Touched(r, w).loops = r.loops
         /\ Touched(r, w).active = r.active /\ Touched(r, w).done = r.done
<1> DEFINE at == [r.at EXCEPT ![w] = Cardinality(Watches) + 1]
<1>1. at \in [Watches -> Nat]
  BY WatchesFinite DEF Registries
<1>2. Touched(r, w) = [r EXCEPT !.at = at]
  BY Zenon DEF Touched
<1>3. QED
  <2> HIDE DEF at
  <2> QED BY <1>1, <1>2 DEF Registries

\* The registry once w has ended.
LEMMA EndedType ==
  ASSUME LInv, NEW w \in Watches
  PROVE  /\ Ended(w) \in Registries /\ Ended(w).loops = registry.loops
         /\ Ended(w).active = registry.active \ {w}
         /\ Ended(w).done = registry.done \cup {w}
<1> DEFINE gone == [registry EXCEPT !.active = registry.active \ {w}]
           over == [gone EXCEPT !.done = gone.done \cup {w}]
<1>1. /\ gone \in Registries /\ gone.loops = registry.loops
      /\ gone.active = registry.active \ {w} /\ gone.done = registry.done
  BY DEF LInv, TypeOK, Registries
<1>2. /\ over \in Registries /\ over.loops = registry.loops
      /\ over.active = registry.active \ {w} /\ over.done = registry.done \cup {w}
  <2> HIDE DEF gone
  <2> QED BY <1>1 DEF Registries
<1>3. over = [registry EXCEPT !.active = @ \ {w}, !.done = @ \cup {w}]
  BY DEF LInv, TypeOK, Registries
<1>4. Ended(w) = Touched(over, w)
  BY <1>3, Zenon DEF Ended
<1>5. QED
  <2> HIDE DEF over
  <2> QED BY <1>2, <1>4, TouchedType

\* A command that is not there.
LEMMA IdleType == Idle \in Requests
<1>1. TRUE \in BOOLEAN
  OBVIOUS
<1>2. QED
  BY <1>1, LoopAssumption DEF Idle, Requests, Ops

\* How a step of one command changes the commands.
LEMMA RequestAt ==
  ASSUME TypeOK, NEW a \in Actors,
         NEW pc \in {"idle", "queued", "looked", "register", "ran", "cancelling"},
         At(a, pc)
  PROVE  /\ requests' \in [Actors -> Requests]
         /\ requests'[a].pc = pc /\ requests'[a].op = "goal"
         /\ \A b \in Actors \ {a} : requests'[b] = requests[b]
<1> DEFINE at == [Idle EXCEPT !.pc = pc]
<1>1. requests' = [requests EXCEPT ![a] = at]
  BY Zenon DEF At
<1>2. requests \in [Actors -> Requests]
  BY DEF TypeOK, Requests
<1>3. at \in Requests /\ at.pc = pc /\ at.op = "goal"
  <2>1. Idle \in Requests /\ Idle.op = "goal"
    BY IdleType DEF Idle
  <2>2. QED
    BY <2>1 DEF Requests
<1> HIDE DEF at
<1>4. QED
  BY <1>1, <1>2, <1>3

\* How the end of one command changes the commands.
LEMMA RequestDone ==
  ASSUME TypeOK, NEW a \in Actors, Done(a)
  PROVE  /\ requests' \in [Actors -> Requests] /\ requests'[a] = Idle
         /\ \A b \in Actors \ {a} : requests'[b] = requests[b]
<1>1. requests \in [Actors -> Requests]
  BY DEF TypeOK, Requests
<1>2. Idle \in Requests
  BY IdleType
<1>3. QED
  BY <1>1, <1>2 DEF Done

-----------------------------------------------------------------------------
(* The loop's file.                                                        *)

FileType == /\ loop \in Files
            /\ loop.phase = "none" <=> loop.status # "active"
            /\ loop.watch_id # 0 <=> loop.phase = "waiting"
            /\ begun \in [Timers -> Nat]

\* A loop that ends keeps its count.
LEMMA EndOnFile ==
  ASSUME TypeOK, FileInv, loop.status # "absent",
         loop'.status \in {"completed", "cancelled"}, loop'.phase = "none",
         loop'.watch_id = 0, loop'.iteration = loop.iteration, loop' \in Files,
         UNCHANGED <<ids, begun>>
  PROVE  FileType' /\ FileInv'
<1>1. begun' \in [Timers -> Nat]
  BY DEF TypeOK
<1>2. FileType'
  BY <1>1 DEF FileType
<1>3. QED
  BY <1>2 DEF FileInv

\* An operation keeps the file's part of the invariant, shows a timer only under
\* a new id, and revives no loop that ended.
LEMMA OperationOnFile ==
  ASSUME TypeOK, FileInv, NEW op, NEW id, NEW open, Operation(op, id, open)
  PROVE  /\ FileType' /\ FileInv' /\ late' \in BOOLEAN
         /\ ids' \in {ids, ids + 1}
         /\ \/ loop'.watch_id \in {0, loop.watch_id}
            \/ loop'.watch_id = ids + 1 /\ ids' = ids + 1
         /\ loop.status = "absent" => op = "init"
         /\ loop.status \in {"completed", "cancelled"} =>
              loop'.status \in {"completed", "cancelled"} /\ loop'.iteration = loop.iteration
<1> USE LoopAssumption
<1>f. loop \in Files /\ begun \in [Timers -> Nat]
  BY DEF TypeOK, Files
<1>d. late' \in BOOLEAN
  <2>1. late \in BOOLEAN
    BY DEF TypeOK
  <2>2. late' = late
    BY Zenon DEF Operation, init, complete, NextWait, begin, expire, cancel
  <2>3. QED
    BY <2>1, <2>2, Zenon
<1>1. CASE op = "init" /\ init(open)
  <2>1. /\ loop' = [status |-> "active", phase |-> "running", iteration |-> 1,
                    watch_id |-> 0, last_event |-> 0]
        /\ loop.status = "absent"
        /\ UNCHANGED <<ids, late, begun>>
    BY <1>1 DEF init, NoFile, MayInit
  <2>2. FileType'
    BY <1>f, <2>1 DEF FileType, Files
  <2>3. FileInv'
    BY <2>1 DEF FileInv, Timers
  <2>4. QED
    BY <1>d, <1>1, <2>1, <2>2, <2>3
<1>2. CASE complete(open)
  <2>1. CASE loop' \in {Over(loop, "cancelled"), Over(loop, "completed")}
             /\ UNCHANGED <<ids, late, begun>>
    <3>1. PICK status \in {"cancelled", "completed"} :
            loop' = File(status, "none", loop.iteration, 0, loop.last_event)
      BY <1>f, <2>1, FileOver
    <3>2. /\ loop'.status \in {"completed", "cancelled"} /\ loop'.phase = "none"
          /\ loop'.watch_id = 0 /\ loop'.iteration = loop.iteration /\ loop' \in Files
      BY <1>f, <3>1 DEF Files, File
    <3>3. loop.status = "active" /\ UNCHANGED <<ids, begun>>
      BY <1>2, <2>1 DEF complete, MayComplete
    <3>4. QED
      BY <1>d, <3>2, <3>3, EndOnFile
  <2>2. CASE NextWait /\ loop.iteration < Limit
    <3>1. /\ loop' = File("active", "waiting", loop.iteration, ids + 1, loop.last_event)
          /\ ids' = ids + 1 /\ UNCHANGED begun
          /\ loop.status = "active" /\ loop.phase = "running"
      <4>1. loop' = Waited(ids + 1)
        BY <2>2, Zenon DEF NextWait, Waited
      <4>2. loop' = File(loop.status, "waiting", loop.iteration, ids + 1, loop.last_event)
        BY <1>f, <4>1, FileWaited
      <4>3. loop.status = "active" /\ loop.phase = "running"
        BY <1>2 DEF complete, MayComplete
      <4>4. ids' = ids + 1 /\ UNCHANGED begun
        BY <2>2 DEF NextWait
      <4>5. QED
        BY <4>2, <4>3, <4>4
    <3>2. ids + 1 \in 1 .. Limit /\ ids + 1 = loop.iteration
      BY <2>2, <3>1 DEF FileInv
    <3>3. FileType'
      <4>1. loop' \in Files
        BY <1>f, <3>1, <3>2 DEF Files, File
      <4>2. loop'.phase = "waiting" /\ loop'.status = "active" /\ loop'.watch_id = ids + 1
        BY <3>1 DEF File
      <4>3. begun' \in [Timers -> Nat]
        BY <1>f, <3>1
      <4>4. ids + 1 # 0
        BY <3>2
      <4>5. QED
        BY <4>1, <4>2, <4>3, <4>4 DEF FileType
    <3>4. FileInv'
      BY <1>f, <2>2, <3>1, <3>2 DEF FileInv, Files, File
    <3>5. QED
      BY <1>f, <1>d, <3>1, <3>3, <3>4 DEF Files, File
  <2>3. QED
    BY <1>2, <1>f, <2>1, <2>2 DEF complete, FileInv, Files
<1>3. CASE begin(id, open) \/ expire(id, open)
  <2>1. /\ loop.status = "active" /\ loop.phase = "waiting" /\ loop.watch_id = id
        /\ id \in Timers /\ id = ids /\ loop.iteration = ids /\ ids < Limit
    BY <1>3, <1>f DEF begin, expire, MayExpire, MayConsume, Waits, FileInv, TypeOK, Timers
  <2>2. CASE loop' = expired(id) /\ UNCHANGED begun
    <3>1. loop' = File("completed", "none", loop.iteration, 0, id)
      BY <2>2, <1>f, FileExpired
    <3>2. UNCHANGED <<ids, late>>
      BY <1>3 DEF begin, expire
    <3>3. /\ loop'.status \in {"completed", "cancelled"} /\ loop'.phase = "none"
          /\ loop'.watch_id = 0 /\ loop'.iteration = loop.iteration /\ loop' \in Files
      BY <1>f, <2>1, <3>1 DEF Files, File, Timers
    <3>4. QED
      BY <1>d, <2>1, <2>2, <3>2, <3>3, EndOnFile
  <2>3. CASE /\ loop' = Begun(id)
             /\ begun' = [begun EXCEPT ![id] = @ + 1]
             /\ begin(id, open)
    <3>1. UNCHANGED <<ids, late>>
      BY <2>3 DEF begin
    <3>0. begun' = [begun EXCEPT ![id] = begun[id] + 1]
      BY <2>3
    <3>2. /\ loop'.iteration = ids + 1 /\ loop'.phase = "running"
          /\ loop'.watch_id = 0 /\ loop'.status = "active" /\ loop' \in Files
      <4>1. id \in 0 .. Limit /\ loop.iteration \in Nat
        BY <1>f, <2>1 DEF Files, Timers
      <4>2. loop' = File("active", "running", ids + 1, 0, id)
        BY <1>f, <2>1, <2>3, FileBegun
      <4>3. QED
        BY <1>f, <2>1, <4>1, <4>2 DEF Files, File
    <3>3. begun' = [i \in Timers |-> IF i < ids + 1 THEN 1 ELSE 0]
      <4>1. begun = [i \in Timers |-> IF i < ids THEN 1 ELSE 0] /\ ids \in Nat
        BY <2>1 DEF FileInv
      <4>2. \A i \in Timers : i # ids => (i < ids <=> i < ids + 1)
        BY <4>1 DEF Timers
      <4>3. QED
        BY <2>1, <3>0, <4>1, <4>2 DEF Timers
    <3>4. FileType'
      <4>1. begun' \in [Timers -> Nat]
        BY <3>3
      <4>2. QED
        BY <3>2, <4>1 DEF FileType
    <3>5. FileInv'
      BY <2>1, <3>1, <3>2, <3>3 DEF FileInv
    <3>6. QED
      BY <1>d, <2>1, <3>1, <3>2, <3>4, <3>5
  <2>4. QED
    <3>1. \/ loop' = expired(id) /\ UNCHANGED begun
          \/ /\ loop' = Begun(id)
             /\ begun' = [begun EXCEPT ![id] = @ + 1]
             /\ begin(id, open)
      BY <1>3, Zenon DEF begin, expire, Begun
    <3>2. QED
      BY <2>2, <2>3, <3>1
<1>4. CASE cancel
  <2>1. loop' = File("cancelled", "none", loop.iteration, 0, loop.last_event)
        /\ UNCHANGED <<ids, begun>> /\ loop.status \in {"active", "cancelled"}
    BY <1>4, <1>f, FileOver DEF cancel, MayCancel
  <2>2. /\ loop'.status \in {"completed", "cancelled"} /\ loop'.phase = "none"
        /\ loop'.watch_id = 0 /\ loop'.iteration = loop.iteration /\ loop' \in Files
    BY <1>f, <2>1 DEF Files, File
  <2>3. QED
    BY <1>d, <2>1, <2>2, EndOnFile
<1>5. QED
  BY <1>1, <1>2, <1>3, <1>4 DEF Operation

-----------------------------------------------------------------------------
(* The steps.  Each leaves or keeps the file, the registry, the timers and *)
(* the commands being served.                                              *)

\* A step that leaves the file, the registry and the timers alone.
LEMMA NothingMoves ==
  ASSUME LInv, UNCHANGED <<loop, ids, begun, records, tasks>>
  PROVE  FileType' /\ FileInv' /\ TimerInv' /\ Known'
<1>1. loop \in Files /\ begun \in [Timers -> Nat]
  BY DEF LInv, TypeOK, Files
<1>2. FileType'
  BY <1>1 DEF FileType, LInv, TypeOK
<1>3. QED
  BY <1>2 DEF LInv, FileInv, TimerInv, Known, Served, records

\* An operation on the file beside the timers: the timer it newly shows never
\* ran.
LEMMA OperationOnTimers ==
  ASSUME LInv, NEW op, NEW id, NEW open, Operation(op, id, open),
         op = "init" => registry.loops /\ disk.loops,
         UNCHANGED <<records, tasks>>
  PROVE  TimerInv' /\ Known'
<1>1. /\ ids' \in {ids, ids + 1} /\ ids \in Nat
      /\ \/ loop'.watch_id \in {0, loop.watch_id}
         \/ loop'.watch_id = ids + 1 /\ ids' = ids + 1
      /\ loop.status = "absent" => op = "init"
  BY OperationOnFile DEF LInv, FileInv
<1>2. Known'
  BY <1>1 DEF Known, LInv, Served, records
<1>3. UNCHANGED <<registry, disk, ended, unread, tasks>>
  BY DEF records
<1>4. \A i \in ended : loop'.watch_id = i => loop.watch_id = i
  BY <1>1 DEF LInv, TimerInv
<1>5. QED
  BY <1>1, <1>2, <1>3, <1>4 DEF LInv, TimerInv

\* A save or a failed one, of a registry with one more active timer at most.
LEMMA SavedOnTimers ==
  ASSUME LInv, NEW r \in Registries, Save(r) \/ SaveFails(r),
         registry.loops => r.loops, registry.done \subseteq r.done,
         r.active \cap r.done = {}, r.done \cap Timers \subseteq 1 .. ids,
         \A i \in r.active : /\ i \in 1 .. ids
                             /\ i \in registry.active \/ i \notin ended \/ unread,
         tasks' \subseteq tasks \cup r.active, UNCHANGED <<loop, ids, begun>>
  PROVE  FileType' /\ FileInv' /\ TimerInv' /\ Known'
<1>1. /\ registry' \in Registries /\ disk' \in {registry', disk}
      /\ ended' = ended \cup (disk'.done \cap Timers) /\ (unread => unread')
      /\ registry'.loops = r.loops /\ registry'.active = r.active
      /\ registry'.done \subseteq r.done
      /\ ~unread' /\ r.loops /\ loop.watch_id \in r.done =>
           loop.watch_id \in registry'.done
  BY Saved DEF LInv
<1>2. loop \in Files /\ begun \in [Timers -> Nat]
  BY DEF LInv, TypeOK, Files
<1>3. FileType' /\ FileInv'
  BY <1>2 DEF FileType, LInv, TypeOK, FileInv
<1>4. Known'
  BY <1>1 DEF Known, LInv, Served
<1>5. TimerInv'
  <2>1. /\ tasks' \cup registry'.active \cup disk'.active \cup ended' \subseteq 1 .. ids
        /\ registry'.done \cap Timers \subseteq 1 .. ids
        /\ disk'.done \cap Timers \subseteq ended'
        /\ registry'.active \cap registry'.done = {} /\ disk'.active \cap disk'.done = {}
    BY <1>1 DEF LInv, TimerInv
  <2>2. ASSUME ~unread', NEW i \in ended'
        PROVE  /\ i \notin registry'.active \cup disk'.active
               /\ loop.watch_id = i => i \in registry'.done /\ i \in disk'.done
    <3>1. CASE i \in ended
      <4>1. i \notin registry.active \cup disk.active /\ i \notin r.active
        BY <1>1, <2>2, <3>1 DEF LInv, TimerInv
      <4>2. ASSUME loop.watch_id = i PROVE i \in registry'.done /\ i \in disk'.done
        <5>1. i \in registry.done /\ i \in disk.done /\ i \in Timers
          BY <1>1, <2>2, <3>1, <4>2 DEF LInv, TimerInv, TypeOK
        <5>2. loop.status # "absent"
          BY <5>1, <4>2 DEF LInv, TypeOK, Timers
        <5>3. r.loops
          BY <5>2 DEF LInv, Known, Served
        <5>4. QED
          BY <1>1, <2>2, <4>2, <5>1, <5>3
      <4>3. QED
        BY <1>1, <4>1, <4>2
    <3>2. CASE i \notin ended
      <4>1. i \in disk'.done /\ disk' = registry'
        BY <1>1, <2>2, <3>2 DEF LInv, TimerInv
      <4>2. QED
        BY <2>1, <4>1
    <3>3. QED
      BY <3>1, <3>2
  <2>3. QED
    BY <2>1, <2>2 DEF TimerInv
<1>6. QED
  BY <1>3, <1>4, <1>5

\* The commands being served, when one of them takes a step.
LEMMA ServedStays ==
  ASSUME LInv, NEW a \in Actors, \A b \in Actors \ {a} : requests'[b] = requests[b],
         requests'[a].op = "init" /\ requests'[a].pc \in Committing =>
           \/ requests[a].op = "init" /\ requests[a].pc \in Committing
           \/ registry'.loops /\ disk'.loops,
         registry.loops /\ disk.loops => registry'.loops /\ disk'.loops
  PROVE  Served'
BY DEF LInv, Known, Served

\* What is left of the types.
RestType ==
  /\ ids \in Nat /\ late \in BOOLEAN /\ up \in BOOLEAN
  /\ goal \in {"open", "closed", "over"}
  /\ registry \in Registries /\ disk \in Registries
  /\ tasks \subseteq Timers
  /\ requests \in [Actors -> Requests]
  /\ faults \in Nat /\ crashes \in Nat
  /\ ended \subseteq Timers /\ unread \in BOOLEAN

\* The invariant in the parts the steps are proved by.
LEMMA Parts == LInv => RestType /\ Served /\ FileType
<1>1. TypeOK => FileType /\ RestType
  BY DEF TypeOK, FileType, RestType, Files, Requests
<1>2. QED
  BY <1>1 DEF LInv, Known, Served

\* The invariant, put together from its parts.
LEMMA Together ==
  ASSUME (FileType /\ RestType /\ FileInv /\ TimerInv /\ Known /\ Served)'
  PROVE  LInv'
<1>1. TypeOK'
  BY DEF TypeOK, FileType, RestType, Files, Requests
<1>2. QED
  BY <1>1 DEF LInv, Known, Served

\* A command's commit, or its refusal.
LEMMA CommitStep ==
  ASSUME LInv, NEW op, NEW id, NEW open, Commits(op, id, open),
         op = "init" => registry.loops /\ disk.loops,
         UNCHANGED <<records, tasks>>
  PROVE  FileType' /\ FileInv' /\ TimerInv' /\ Known'
         /\ ids' \in Nat /\ late' \in BOOLEAN
<1>1. RestType
  BY Parts
<1>2. CASE Operation(op, id, open)
  <2>1. TimerInv' /\ Known'
    BY <1>2, OperationOnTimers
  <2>2. QED
    BY <1>1, <1>2, <2>1, OperationOnFile DEF LInv, RestType
<1>3. CASE UNCHANGED <<loop, ids, late, begun>>
  <2>1. late' \in BOOLEAN
    BY <1>1, <1>3, Zenon DEF RestType
  <2>2. QED
    BY <1>1, <1>3, <2>1, NothingMoves DEF RestType
<1>4. QED
  BY <1>2, <1>3 DEF Commits

\* Run: the command's process commits, or is refused.
LEMMA StepRun ==
  ASSUME LInv, NEW c \in Clients, Run(c)
  PROVE  LInv'
<1> USE DEF Actors, Committing
<1>1. RestType /\ Served /\ requests[c].pc \in {"queued", "looked"}
  BY Parts DEF Run, Locked
<1>2. /\ requests' \in [Actors -> Requests]
      /\ requests'[c].pc \notin Committing
      /\ \A b \in Actors \ {c} : requests'[b] = requests[b]
  BY RequestAt, RequestDone DEF Run, Idle, LInv
<1>3. UNCHANGED <<records, tasks, goal, up, faults, crashes>>
  BY DEF Run, Commits, service
<1>4. Served'
  BY <1>2, <1>3, ServedStays DEF records
<1>5. FileType' /\ FileInv' /\ TimerInv' /\ Known'
      /\ ids' \in Nat /\ late' \in BOOLEAN
  <2>1. requests[c].op = "init" => registry.loops /\ disk.loops
    BY <1>1 DEF Served
  <2>2. QED
    BY <1>3, <2>1, CommitStep DEF Run
<1>6. RestType'
  <2>1. up' \in BOOLEAN /\ unread' \in BOOLEAN
    BY <1>1, <1>3, Zenon DEF RestType, records
  <2>2. QED
    BY <1>1, <1>2, <1>3, <1>5, <2>1 DEF RestType, records
<1>7. QED
  BY <1>4, <1>5, <1>6, Together

\* RunCancel: the service's own cancel of a loop whose goal node is over.
LEMMA StepRunCancel ==
  ASSUME LInv, NEW a \in Actors, RunCancel(a)
  PROVE  LInv'
<1> USE DEF Committing
<1>1. RestType /\ Served
  BY Parts
<1>2. /\ requests' \in [Actors -> Requests] /\ requests'[a] = Idle
      /\ \A b \in Actors \ {a} : requests'[b] = requests[b]
  BY RequestDone DEF RunCancel, LInv
<1>3. /\ UNCHANGED <<records, tasks, goal, up, crashes>>
      /\ faults' \in Nat
  <2>1. UNCHANGED <<records, tasks, up, crashes>>
    BY DEF RunCancel, service
  <2>2. UNCHANGED goal
    BY DEF RunCancel, Commits
  <2>3. faults' = faults \/ faults' = faults + 1
    BY DEF RunCancel, Fault
  <2>4. QED
    BY <1>1, <2>1, <2>2, <2>3 DEF RestType
<1>4. Served'
  BY <1>2, <1>3, ServedStays DEF Idle, records
<1>5. FileType' /\ FileInv' /\ TimerInv' /\ Known'
      /\ ids' \in Nat /\ late' \in BOOLEAN
  <2>1. \/ Commits("cancel", 0, TRUE)
        \/ UNCHANGED <<loop, ids, late, goal, begun>>
    BY DEF RunCancel
  <2>2. CASE Commits("cancel", 0, TRUE)
    BY <1>3, <2>2, CommitStep, Zenon
  <2>3. CASE UNCHANGED <<loop, ids, late, goal, begun>>
    <3>1. late' \in BOOLEAN
      BY <1>1, <2>3, Zenon DEF RestType
    <3>2. QED
      BY <1>1, <1>3, <2>3, <3>1, NothingMoves DEF RestType
  <2>4. QED
    BY <2>1, <2>2, <2>3
<1>6. RestType'
  <2>1. up' \in BOOLEAN /\ unread' \in BOOLEAN
    BY <1>1, <1>3, Zenon DEF RestType, records
  <2>2. QED
    BY <1>1, <1>2, <1>3, <1>5, <2>1 DEF RestType, records
<1>7. QED
  BY <1>4, <1>5, <1>6, Together

\* What the steps have in common that save the registry: of a command that is to
\* create the loop's file, the loop is known.
LEMMA StepSaved ==
  ASSUME LInv, NEW r \in Registries, Save(r) \/ SaveFails(r),
         registry.loops => r.loops, registry.done \subseteq r.done,
         r.active \cap r.done = {}, r.done \cap Timers \subseteq 1 .. ids,
         \A i \in r.active : /\ i \in 1 .. ids
                             /\ i \in registry.active \/ i \notin ended \/ unread,
         tasks' \subseteq tasks \cup r.active,
         requests' \in [Actors -> Requests], up' \in BOOLEAN,
         \A b \in Actors : requests'[b].pc \in Committing /\ requests'[b].op = "init" =>
           requests'[b] = requests[b] \/ (r.loops /\ disk' = registry'),
         UNCHANGED <<loop, ids, late, goal, begun, crashes>>
  PROVE  LInv'
<1>1. RestType /\ Served
  BY Parts
<1>2. FileType' /\ FileInv' /\ TimerInv' /\ Known'
  BY SavedOnTimers
<1>3. /\ registry' \in Registries /\ disk' \in Registries /\ disk' \in {registry', disk}
      /\ ended' = ended \cup (disk'.done \cap Timers) /\ unread' \in BOOLEAN
      /\ faults' \in Nat /\ registry'.loops = r.loops
  BY Saved DEF LInv
<1>4. late' \in BOOLEAN
  BY <1>1, Zenon DEF RestType
<1>5. tasks' \subseteq Timers /\ ended' \subseteq Timers
  BY <1>1, <1>3 DEF RestType, Registries
<1>6. RestType'
  BY <1>1, <1>3, <1>4, <1>5 DEF RestType
<1>7. Served'
  BY <1>1, <1>3 DEF Served
<1>8. QED
  BY <1>2, <1>6, <1>7, Together

\* What the steps have in common that move neither file, registry nor timers.
LEMMA StepElsewhere ==
  ASSUME LInv, UNCHANGED <<loop, ids, begun, records, tasks>>,
         late' \in BOOLEAN, goal' \in {"open", "closed", "over"}, up' \in BOOLEAN,
         requests' \in [Actors -> Requests], Served', faults' \in Nat, crashes' \in Nat
  PROVE  LInv'
<1>1. RestType
  BY Parts
<1>2. FileType' /\ FileInv' /\ TimerInv' /\ Known'
  BY NothingMoves
<1>3. UNCHANGED unread /\ unread \in BOOLEAN
  BY <1>1, Zenon DEF records, RestType
<1>4. RestType'
  BY <1>1, <1>3 DEF RestType, records
<1>5. QED
  BY <1>2, <1>4, Together

-----------------------------------------------------------------------------
(* The steps, one by one.                                                  *)

\* The registry as it is, or with the loop made known.
LEMMA RegistryNow ==
  ASSUME LInv, NEW r \in {registry, [registry EXCEPT !.loops = TRUE]}
  PROVE  /\ r \in Registries /\ r.active = registry.active /\ r.done = registry.done
         /\ (registry.loops => r.loops) /\ r.active \cap r.done = {}
         /\ r.done \cap Timers \subseteq 1 .. ids
         /\ \A i \in r.active : i \in 1 .. ids /\ i \in registry.active
<1> DEFINE known == [registry EXCEPT !.loops = TRUE]
<1>1. registry \in Registries /\ TRUE \in BOOLEAN
  BY Parts DEF RestType
<1>2. /\ known \in Registries /\ known.active = registry.active
      /\ known.done = registry.done /\ known.loops
  BY <1>1 DEF Registries
<1>3. r = registry \/ r = known
  OBVIOUS
<1> HIDE DEF known
<1>4. QED
  BY <1>1, <1>2, <1>3 DEF LInv, TimerInv

\* It is saved.
LEMMA StepSavedAsIs ==
  ASSUME LInv, NEW r \in {registry, [registry EXCEPT !.loops = TRUE]},
         Save(r) \/ SaveFails(r), tasks' \subseteq tasks \cup registry.active,
         requests' \in [Actors -> Requests], up' \in BOOLEAN,
         \A b \in Actors : requests'[b].pc \in Committing /\ requests'[b].op = "init" =>
           requests'[b] = requests[b] \/ (r.loops /\ disk' = registry'),
         UNCHANGED <<loop, ids, late, goal, begun, crashes>>
  PROVE  LInv'
BY RegistryNow, StepSaved

\* dispatch: the loop's path is known, and saved, before its command runs.
LEMMA StepAsk ==
  ASSUME LInv, NEW c \in Clients, NEW op \in Ops, NEW id \in 0 .. Limit, Ask(c, op, id)
  PROVE  LInv'
<1> USE DEF Actors, Committing
<1> DEFINE known == [registry EXCEPT !.loops = TRUE]
           asked == [Idle EXCEPT !.pc = "queued", !.op = op, !.id = id]
<1>1. RestType /\ Served
  BY Parts
<1>2. asked \in Requests /\ asked.op = op
  <2> DEFINE queued == [Idle EXCEPT !.pc = "queued"]
             named  == [queued EXCEPT !.op = op]
  <2>1. queued \in Requests
    BY IdleType DEF Requests
  <2>2. named \in Requests /\ named.op = op
    <3> HIDE DEF queued
    <3> QED BY <2>1 DEF Requests
  <2>3. [named EXCEPT !.id = id] \in Requests /\ [named EXCEPT !.id = id].op = op
    <3> HIDE DEF named
    <3> QED BY <2>2 DEF Requests
  <2>4. QED
    BY <2>3, Zenon
<1>3. /\ requests' \in [Actors -> Requests] /\ requests'[c] = asked
      /\ \A b \in Actors \ {c} : requests'[b] = requests[b]
  <2>1. requests' = [requests EXCEPT ![c] = asked]
    BY Zenon DEF Ask
  <2> HIDE DEF asked
  <2>2. QED
    BY <1>1, <1>2, <2>1 DEF RestType
<1> HIDE DEF asked
<1>4. up' \in BOOLEAN /\ late' \in BOOLEAN
  BY <1>1, Zenon DEF RestType, Ask
<1>5. UNCHANGED <<loop, ids, late, goal, up, tasks, crashes, begun>>
  BY DEF Ask
<1>6. CASE op = "goal" /\ UNCHANGED <<records, faults>>
  <2>1. Served'
    BY <1>2, <1>3, <1>6, ServedStays DEF records
  <2>2. QED
    BY <1>1, <1>3, <1>4, <1>5, <1>6, <2>1, StepElsewhere DEF RestType
<1>7. CASE op # "goal" /\ Save(known)
  <2>1. disk' = registry' /\ known.loops
    BY <1>1, <1>7 DEF Save, RestType, Registries
  <2>2. QED
    BY <1>3, <1>4, <1>5, <1>7, <2>1, StepSavedAsIs
<1>8. QED
  BY <1>6, <1>7 DEF Ask

\* dispatch, when the save fails: the command is not run.
LEMMA StepAskFails ==
  ASSUME LInv, NEW c \in Clients, AskFails(c)
  PROVE  LInv'
<1> DEFINE known == [registry EXCEPT !.loops = TRUE]
<1>1. requests' \in [Actors -> Requests] /\ requests' = requests
  BY Parts DEF AskFails, RestType
<1>2. up' \in BOOLEAN
  BY Parts, Zenon DEF AskFails, RestType
<1>3. SaveFails(known)
  BY DEF AskFails
<1>4. UNCHANGED <<loop, ids, late, goal, begun, crashes, tasks>>
  BY DEF AskFails
<1>5. QED
  BY <1>1, <1>2, <1>3, <1>4, StepSavedAsIs

\* register_goal.
LEMMA StepRegisterGoal ==
  ASSUME LInv, NEW c \in Clients, RegisterGoal(c)
  PROVE  LInv'
<1> USE DEF Actors, Committing
<1>1. RestType /\ Served
  BY Parts
<1>2. /\ requests' \in [Actors -> Requests]
      /\ requests'[c].pc \notin Committing
      /\ \A b \in Actors \ {c} : requests'[b] = requests[b]
  BY RequestAt, RequestDone DEF RegisterGoal, Idle, LInv
<1>3. Save(registry) \/ SaveFails(registry)
  BY DEF RegisterGoal
<1>4. up' \in BOOLEAN
  BY <1>1, Zenon DEF RegisterGoal, RestType
<1>5. UNCHANGED <<loop, ids, late, goal, begun, crashes, tasks>>
  BY DEF RegisterGoal
<1>6. QED
  BY <1>2, <1>3, <1>4, <1>5, StepSavedAsIs

\* Only the commands move.
LEMMA StepCommands ==
  ASSUME LInv, NEW a \in Actors,
         \/ Look(a) \/ Killed(a) \/ StartCancel(a) \/ NothingToRepair(a)
         \/ RepairFails(a) \/ RunGoal(a)
  PROVE  LInv'
<1> USE DEF Committing
<1>1. RestType /\ Served
  BY Parts
<1>2. UNCHANGED <<loop, ids, late, begun, records, tasks, up, crashes>>
  BY DEF Look, Killed, StartCancel, NothingToRepair, RepairFails, RunGoal, service
<1>3. faults' \in Nat
  <2>1. faults' \in {faults, faults + 1}
    BY DEF Look, Killed, StartCancel, NothingToRepair, RepairFails, RunGoal, Fault
  <2>2. QED
    BY <1>1, <2>1 DEF RestType
<1>4. goal' \in {"open", "closed", "over"}
  <2>1. CASE UNCHANGED goal
    BY <1>1, <2>1 DEF RestType
  <2>2. CASE GoalCommand
    BY <2>2 DEF GoalCommand
  <2>3. QED
    BY <2>1, <2>2 DEF Look, Killed, StartCancel, NothingToRepair, RepairFails, RunGoal
<1>5. requests' \in [Actors -> Requests] /\ Served'
  <2>0. UNCHANGED <<registry, disk>>
    BY <1>2 DEF records
  <2>1. CASE Look(a)
    <3> DEFINE opened == [requests[a] EXCEPT !.pc = "looked"]
               looked == [opened EXCEPT !.open = goal_is_open]
    <3>1. requests' = [requests EXCEPT ![a] = looked]
      BY <2>1, Zenon DEF Look
    <3>2. goal_is_open \in BOOLEAN
      BY DEF goal_is_open
    <3>3. opened \in Requests /\ opened.op = requests[a].op
      BY <1>1 DEF RestType, Requests
    <3>4. looked \in Requests /\ looked.op = requests[a].op
      <4> HIDE DEF opened
      <4> QED BY <3>2, <3>3 DEF Requests
    <3> HIDE DEF looked
    <3>5. requests' \in [Actors -> Requests] /\ requests'[a].op = requests[a].op
          /\ \A b \in Actors \ {a} : requests'[b] = requests[b]
      BY <1>1, <3>1, <3>4 DEF RestType
    <3>6. requests[a].pc = "queued"
      BY <2>1 DEF Look
    <3>7. QED
      BY <2>0, <3>5, <3>6, ServedStays
  <2>2. CASE Killed(a) \/ RunGoal(a) \/ NothingToRepair(a) \/ RepairFails(a)
    <3>1. /\ requests' \in [Actors -> Requests]
          /\ requests'[a].pc \notin Committing
          /\ \A b \in Actors \ {a} : requests'[b] = requests[b]
      BY <2>2, RequestAt, RequestDone
         DEF Killed, RunGoal, NothingToRepair, RepairFails, Idle, LInv
    <3>2. QED
      BY <2>0, <3>1, ServedStays
  <2>3. CASE StartCancel(a)
    <3> DEFINE at == [Idle EXCEPT !.pc = "cancelling"]
               cancelling == [at EXCEPT !.op = "cancel"]
    <3>1. requests' = [requests EXCEPT ![a] = cancelling]
      BY <2>3, Zenon DEF StartCancel
    <3>2. at \in Requests
      BY IdleType DEF Requests
    <3>3. "cancel" \in Ops
      BY DEF Ops
    <3>4. cancelling \in Requests /\ cancelling.op = "cancel"
      <4> HIDE DEF at
      <4> QED BY <3>2, <3>3 DEF Requests
    <3> HIDE DEF cancelling
    <3>5. requests' \in [Actors -> Requests] /\ requests'[a].op = "cancel"
          /\ \A b \in Actors \ {a} : requests'[b] = requests[b]
      BY <1>1, <3>1, <3>4 DEF RestType
    <3>6. QED
      BY <2>0, <3>5, ServedStays
  <2>4. QED
    BY <2>1, <2>2, <2>3
<1>6. late' \in BOOLEAN /\ up' \in BOOLEAN
  BY <1>1, <1>2, Zenon DEF RestType
<1>7. QED
  BY <1>1, <1>2, <1>3, <1>4, <1>5, <1>6, StepElsewhere DEF RestType

\* A timer registered again has not been recorded as ended: its record would be
\* there.
LEMMA StepRegisterTimer ==
  ASSUME LInv, NEW a \in Actors, RegisterTimer(a)
  PROVE  LInv'
<1> USE DEF Committing
<1> DEFINE i == loop.watch_id
           r == [registry EXCEPT !.active = @ \cup {loop.watch_id}]
<1>1. RestType /\ Served /\ FileType
  BY Parts
<1>2. i \in 1 .. ids /\ i \in Timers /\ i \notin registry.done
  BY <1>1 DEF RegisterTimer, NeedsTimer, FileType, Files, LInv, FileInv, Timers
<1>3. i \notin ended \/ unread
  BY <1>2 DEF LInv, TimerInv
<1>4. r \in Registries /\ r.active = registry.active \cup {i} /\ r.done = registry.done
      /\ (registry.loops => r.loops)
  BY <1>1, <1>2 DEF RestType, Registries
<1>5. /\ requests' \in [Actors -> Requests] /\ requests'[a] = Idle
      /\ \A b \in Actors \ {a} : requests'[b] = requests[b]
  BY RequestDone DEF RegisterTimer, LInv
<1>6. UNCHANGED <<loop, ids, late, goal, up, crashes, begun>>
  BY DEF RegisterTimer
<1>7. up' \in BOOLEAN
  BY <1>1, <1>6, Zenon DEF RestType
<1>8. (Save(r) \/ SaveFails(r)) /\ tasks' \subseteq tasks \cup {i}
  BY DEF RegisterTimer
<1> HIDE DEF r
<1>9. /\ \A k \in r.active : /\ k \in 1 .. ids
                             /\ k \in registry.active \/ k \notin ended \/ unread
      /\ r.active \cap r.done = {} /\ r.done \cap Timers \subseteq 1 .. ids
  BY <1>2, <1>3, <1>4 DEF LInv, TimerInv
<1>10. \A b \in Actors : requests'[b].pc \in Committing /\ requests'[b].op = "init" =>
         requests'[b] = requests[b]
  BY <1>5 DEF Idle
<1> HIDE DEF i
<1>11. QED
  BY <1>4, <1>5, <1>6, <1>7, <1>8, <1>9, <1>10, StepSaved

\* What the ends of watches have in common: the record of one that runs or is
\* registered becomes that of an ended one.
LEMMA StepEnded ==
  ASSUME LInv, NEW w \in Watches, w \in Timers => w \in 1 .. ids,
         Save(Ended(w)) \/ SaveFails(Ended(w)), tasks' \subseteq tasks,
         UNCHANGED <<loop, ids, late, goal, up, requests, crashes, begun>>
  PROVE  LInv'
<1>1. RestType
  BY Parts
<1>2. /\ Ended(w) \in Registries /\ Ended(w).loops = registry.loops
      /\ Ended(w).active = registry.active \ {w}
      /\ Ended(w).done = registry.done \cup {w}
  BY EndedType
<1>3. up' \in BOOLEAN /\ requests' \in [Actors -> Requests]
  <2>1. up' \in BOOLEAN
    BY <1>1, Zenon DEF RestType
  <2>2. QED
    BY <1>1, <2>1 DEF RestType
<1>4. /\ \A i \in Ended(w).active : i \in 1 .. ids /\ i \in registry.active
      /\ Ended(w).active \cap Ended(w).done = {}
      /\ Ended(w).done \cap Timers \subseteq 1 .. ids
  BY <1>2 DEF LInv, TimerInv
<1>5. QED
  BY <1>2, <1>3, <1>4, StepSaved

\* A watch saves its record again.
LEMMA StepSaveAgain ==
  ASSUME LInv, NEW w \in Watches, SaveAgain(w)
  PROVE  LInv'
<1> DEFINE r == IF w \in registry.done THEN Touched(registry, w) ELSE registry
<1>1. RestType
  BY Parts
<1>2. r \in Registries /\ r.loops = registry.loops /\ r.active = registry.active
      /\ r.done = registry.done
  BY <1>1, TouchedType DEF RestType
<1>3. Save(r) \/ SaveFails(r)
  BY Zenon DEF SaveAgain, SaveOrFail
<1>4. UNCHANGED <<loop, ids, late, goal, up, tasks, requests, crashes, begun>>
  BY DEF SaveAgain
<1>5. up' \in BOOLEAN
  BY <1>1, <1>4, Zenon DEF RestType
<1>6. requests' \in [Actors -> Requests]
  BY <1>1, <1>4 DEF RestType
<1> HIDE DEF r
<1>7. /\ \A i \in r.active : i \in 1 .. ids /\ i \in registry.active
      /\ r.active \cap r.done = {} /\ r.done \cap Timers \subseteq 1 .. ids
  BY <1>2 DEF LInv, TimerInv
<1>8. QED
  BY <1>2, <1>3, <1>4, <1>5, <1>6, <1>7, StepSaved

\* The end of a watch that only memory has.
LEMMA StepForgotten ==
  ASSUME LInv, NEW i \in 1 .. ids,
         LET r == IF i \in registry.active \cup registry.done THEN Ended(i) ELSE registry
         IN registry' = [r EXCEPT !.at = Ranked(r)],
         i \in Timers, tasks' \subseteq tasks, UNCHANGED <<disk, ended, unread, faults>>,
         UNCHANGED <<loop, ids, late, goal, up, requests, crashes, begun>>
  PROVE  LInv'
<1> DEFINE r == IF i \in registry.active \cup registry.done THEN Ended(i) ELSE registry
<1>1. RestType /\ Served
  BY Parts
<1>2. r \in Registries /\ r.loops = registry.loops /\ r.active \subseteq registry.active
      /\ registry.done \subseteq r.done /\ r.done \subseteq registry.done \cup {i}
      /\ r.active \cap r.done = {}
  BY <1>1, EndedType DEF RestType, Watches, LInv, TimerInv
<1>3. Ranked(r) \in [Watches -> Nat] /\ registry' = [r EXCEPT !.at = Ranked(r)]
  BY <1>2, Ranks
<1> HIDE DEF r
<1>4. registry' \in Registries /\ registry'.loops = r.loops
      /\ registry'.active = r.active /\ registry'.done = r.done
  BY <1>2, <1>3 DEF Registries
<1>5. TimerInv'
  BY <1>2, <1>4 DEF LInv, TimerInv
<1>6. FileType' /\ FileInv' /\ Known' /\ Served'
  BY <1>1, <1>2, <1>4, Parts DEF LInv, FileType, FileInv, Known, Served
<1>7. up' \in BOOLEAN /\ late' \in BOOLEAN /\ unread' \in BOOLEAN
  BY <1>1, Zenon DEF RestType
<1>8. RestType'
  BY <1>1, <1>4, <1>7 DEF RestType
<1>9. QED
  BY <1>5, <1>6, <1>8, Together

\* The ends of timers and of other watches.
LEMMA StepEnds ==
  ASSUME LInv, (\E i \in Timers : EndTimer(i) \/ CancelTimer(i)) \/ \E w \in Others : OtherEnds(w)
  PROVE  LInv'
<1>1. ASSUME NEW w \in Others, OtherEnds(w) PROVE LInv'
  <2>1. w \notin Timers
    BY LoopAssumption DEF Timers
  <2>2. QED
    BY <1>1, <2>1, StepEnded DEF OtherEnds, SaveOrFail, Watches
<1>2. ASSUME NEW i \in Timers, CancelTimer(i) PROVE LInv'
  <2>1. i \in 1 .. ids
    BY <1>2 DEF CancelTimer, LInv, TimerInv
  <2>2. QED
    BY <1>2, <2>1, StepEnded DEF CancelTimer, SaveOrFail, Watches
<1>3. ASSUME NEW i \in Timers, EndTimer(i) PROVE LInv'
  <2> DEFINE r == IF i \in registry.active \cup registry.done THEN Ended(i) ELSE registry
  <2>1. i \in 1 .. ids /\ tasks' \subseteq tasks
    BY <1>3 DEF EndTimer, LInv, TimerInv
  <2>2. UNCHANGED <<loop, ids, late, goal, up, requests, crashes, begun>>
    BY <1>3 DEF EndTimer
  <2>3. \/ Save(r) \/ SaveFails(r)
        \/ registry' = [r EXCEPT !.at = Ranked(r)] /\ UNCHANGED <<disk, ended, unread, faults>>
    BY <1>3, Zenon DEF EndTimer, SaveOrFail
  <2>4. CASE Save(r) \/ SaveFails(r)
    <3>1. CASE i \in registry.active \cup registry.done
      BY <2>1, <2>2, <2>4, <3>1, StepEnded DEF Watches
    <3>2. CASE i \notin registry.active \cup registry.done
      <4>1. (Save(registry) \/ SaveFails(registry)) /\ tasks' \subseteq tasks
        BY <2>1, <2>4, <3>2
      <4>2. up' \in BOOLEAN
        BY <2>2, Parts, Zenon DEF RestType
      <4>3. requests' \in [Actors -> Requests]
        BY <2>2, Parts DEF RestType
      <4>4. QED
        BY <2>2, <4>1, <4>2, <4>3, StepSavedAsIs
    <3>3. QED
      BY <3>1, <3>2
  <2>5. CASE registry' = [r EXCEPT !.at = Ranked(r)] /\ UNCHANGED <<disk, ended, unread, faults>>
    BY <2>1, <2>2, <2>5, StepForgotten
  <2>6. QED
    BY <2>3, <2>4, <2>5
<1>4. QED
  BY <1>1, <1>2, <1>3

\* The deadline passes; nothing happens.
LEMMA StepIdle ==
  ASSUME LInv, DeadlinePasses \/ UNCHANGED vars
  PROVE  LInv'
<1>1. RestType /\ Served
  BY Parts
<1>2. UNCHANGED <<loop, ids, goal, up, records, tasks, requests, faults, crashes, begun>>
  BY DEF DeadlinePasses, vars, service
<1>3. late' \in BOOLEAN /\ up' \in BOOLEAN
  <2>1. TRUE \in BOOLEAN
    OBVIOUS
  <2>2. QED
    BY <1>1, <1>2, <2>1, Zenon DEF RestType, DeadlinePasses, vars
<1>4. Served'
  BY <1>1, <1>2 DEF Served, records
<1>5. QED
  BY <1>1, <1>2, <1>3, <1>4, StepElsewhere DEF RestType

\* What the processes left over by a crash commit was known on disk.
LEMMA StepCrash ==
  ASSUME LInv, Crash
  PROVE  LInv'
<1> USE DEF Committing
<1>1. RestType /\ Served /\ FileType
  BY Parts
<1>2. /\ registry' = disk /\ tasks' = {} /\ crashes' = crashes + 1
      /\ UNCHANGED <<loop, ids, late, goal, disk, ended, unread, faults, begun>>
  BY DEF Crash
<1>3. ASSUME NEW a \in Actors
      PROVE  /\ requests'[a] \in Requests
             /\ requests'[a].op = "init" /\ requests'[a].pc \in Committing =>
                  requests[a].op = "init" /\ requests[a].pc \in Committing
  <2> DEFINE queued == [requests[a] EXCEPT !.pc = "queued"]
             left   == [queued EXCEPT !.served = FALSE]
  <2>1. requests[a] \in Requests /\ FALSE \in BOOLEAN
    BY <1>1 DEF RestType
  <2>2. queued \in Requests /\ queued.op = requests[a].op
    BY <2>1 DEF Requests
  <2>3. left \in Requests /\ left.op = requests[a].op
    <3> HIDE DEF queued
    <3> QED BY <2>1, <2>2 DEF Requests
  <2>4. CASE requests[a].pc \in {"queued", "looked"}
    <3>1. requests'[a] = [requests[a] EXCEPT !.served = FALSE]
      BY <2>4, Zenon DEF Crash
    <3>2. QED
      BY <2>1, <2>4, <3>1 DEF Requests
  <2>5. CASE requests[a].pc = "cancelling" /\ a # Daemon
    <3>1. requests'[a] = left
      BY <2>5, Zenon DEF Crash
    <3> HIDE DEF left
    <3>2. QED
      BY <2>3, <2>5, <3>1
  <2>6. CASE /\ requests[a].pc \notin {"queued", "looked"}
             /\ ~(requests[a].pc = "cancelling" /\ a # Daemon)
    <3>1. requests'[a] = Idle
      BY <2>6, Zenon DEF Crash
    <3>2. QED
      BY <3>1, IdleType DEF Idle
  <2>7. QED
    BY <2>4, <2>5, <2>6
<1>4. requests' \in [Actors -> Requests]
  <2>1. requests' = [a \in Actors |-> requests'[a]]
    BY DEF Crash
  <2>2. QED
    BY <1>3, <2>1
<1>5. Served'
  BY <1>1, <1>2, <1>3 DEF Served
<1>6. FileType' /\ FileInv' /\ Known'
  BY <1>1, <1>2 DEF FileType, LInv, FileInv, Known, Served
<1>7. TimerInv'
  BY <1>1, <1>2 DEF LInv, TimerInv, RestType
<1>8. late' \in BOOLEAN /\ up' \in BOOLEAN /\ unread' \in BOOLEAN
  <2>1. FALSE \in BOOLEAN
    OBVIOUS
  <2>2. QED
    BY <1>1, <1>2, <2>1, Zenon DEF RestType, Crash
<1>9. RestType'
  BY <1>1, <1>2, <1>4, <1>8 DEF RestType
<1>10. QED
  BY <1>5, <1>6, <1>7, <1>9, Together

\* restore.
LEMMA StepRestart ==
  ASSUME LInv, Restart
  PROVE  LInv'
<1> USE DEF Committing
<1>1. RestType /\ Served
  BY Parts
<1>2. /\ tasks' = registry.active /\ UNCHANGED <<loop, ids, late, goal, crashes, begun>>
  BY DEF Restart
<1>3. late' \in BOOLEAN /\ up' \in BOOLEAN
  <2>1. TRUE \in BOOLEAN
    OBVIOUS
  <2>2. QED
    BY <1>1, <1>2, <2>1, Zenon DEF RestType, Restart
<1>4. /\ requests' \in [Actors -> Requests] /\ Daemon \in Actors
      /\ requests'[Daemon].pc = "ran"
      /\ \A b \in Actors \ {Daemon} : requests'[b] = requests[b]
  BY RequestAt DEF Restart, Actors, LInv
<1>5. CASE Save(registry)
  BY <1>2, <1>3, <1>4, <1>5, StepSavedAsIs
<1>6. CASE UNCHANGED <<records, faults>>
  <2>1. UNCHANGED <<registry, disk, ended, unread, faults>>
    BY <1>6 DEF records
  <2>2. Served'
    BY <1>4, <2>1, ServedStays
  <2>3. FileType' /\ FileInv' /\ Known'
    BY <1>2, <2>1, Parts DEF FileType, LInv, FileInv, Known
  <2>4. TimerInv'
    BY <1>2, <2>1 DEF LInv, TimerInv
  <2>5. unread' \in BOOLEAN
    BY <1>1, <2>1, Zenon DEF RestType
  <2>6. RestType'
    BY <1>1, <1>2, <1>3, <1>4, <2>1, <2>5 DEF RestType, Registries
  <2>7. QED
    BY <2>2, <2>3, <2>4, <2>6, Together
<1>7. QED
  BY <1>5, <1>6 DEF Restart

\* Nothing is there yet.
LEMMA InitHolds == Init => LInv
<1> SUFFICES ASSUME Init PROVE LInv
  OBVIOUS
<1> USE LoopAssumption DEF Init, Committing
<1>1. TRUE \in BOOLEAN /\ FALSE \in BOOLEAN
  OBVIOUS
<1>2. late \in BOOLEAN /\ up \in BOOLEAN /\ unread \in BOOLEAN
  BY <1>1, Zenon
<1>3. registry \in Registries /\ disk \in Registries
  BY <1>1 DEF Registries
<1>4. requests \in [Actors -> Requests] /\ \A a \in Actors : requests[a].pc = "idle"
  BY IdleType DEF Idle
<1>5. goal \in {"open", "closed", "over"}
  OBVIOUS
<1>6. loop \in Files
  BY DEF Files, NoFile
<1>7. FileType
  BY <1>6 DEF FileType, NoFile
<1>8. RestType
  BY <1>2, <1>3, <1>4, <1>5 DEF RestType
<1>9. TypeOK
  BY <1>6, <1>7, <1>8 DEF TypeOK, FileType, RestType, Files, Requests
<1>10. FileInv
  BY DEF FileInv, NoFile, Timers
<1>11. Known /\ Served
  BY <1>4 DEF Known, Served, NoFile
<1>12. TimerInv
  BY DEF TimerInv
<1>13. QED
  BY <1>9, <1>10, <1>11, <1>12 DEF LInv

\* For every limit, any clients, other watches, faults and crashes the
\* invariant holds.
THEOREM LoopInductive == Spec => []LInv
<1>1. LInv /\ [Next]_vars => LInv'
  <2> SUFFICES ASSUME LInv, [Next]_vars PROVE LInv'
    OBVIOUS
  <2>1. ASSUME NEW c \in Clients, ClientStep(c) PROVE LInv'
    <3>1. \A i \in 1 .. ids : i \in 0 .. Limit
      BY LoopAssumption DEF LInv, FileInv
    <3>2. 0 \in 0 .. Limit
      BY LoopAssumption
    <3>3. \/ \E op \in Ops, id \in 0 .. Limit : Ask(c, op, id)
          \/ AskFails(c) \/ Look(c) \/ Run(c) \/ RunGoal(c) \/ Killed(c) \/ RegisterGoal(c)
      BY <2>1, <3>1, <3>2 DEF ClientStep, Ops, Events
    <3>4. QED
      BY <3>3, StepAsk, StepAskFails, StepRun, StepRegisterGoal, StepCommands DEF Actors
  <2>2. ASSUME NEW a \in Actors, Reconcile(a) PROVE LInv'
    BY <2>2, StepCommands, StepRunCancel, StepRegisterTimer DEF Reconcile
  <2>3. QED
    BY <2>1, <2>2, StepEnds, StepSaveAgain, StepIdle, StepCrash, StepRestart DEF Next
<1>2. QED
  BY <1>1, InitHolds, PTL DEF Spec

\* The iterations are counted and within the limit: those that timers began
\* are the ones before this one.
THEOREM LoopCorrect == Spec => []LoopInvariant
<1>1. LInv => LoopInvariant
  <2> SUFFICES ASSUME LInv PROVE LoopInvariant
    OBVIOUS
  <2>1. /\ loop.iteration \in 0 .. Limit
        /\ begun = [i \in Timers |-> IF i < loop.iteration THEN 1 ELSE 0]
        /\ loop.status # "absent" => loop.iteration >= 1
    BY DEF LInv, FileInv
  <2>2. ASSUME loop.status # "absent"
        PROVE  loop.iteration = 1 + Cardinality({i \in Timers : begun[i] = 1})
    <3>1. PICK k \in Nat : loop.iteration = k + 1
      BY <2>1, <2>2, LoopAssumption
    <3>2. {i \in Timers : begun[i] = 1} = 1 .. k
      BY <2>1, <3>1, LoopAssumption DEF Timers
    <3>3. Cardinality(1 .. k) = k
      <4>1. k \in Int /\ 1 \in Int
        OBVIOUS
      <4>2. Cardinality(1 .. k) = IF 1 > k THEN 0 ELSE k - 1 + 1
        BY <4>1, FS_Interval, Zenon
      <4>3. QED
        BY <4>2
    <3>4. Cardinality({i \in Timers : begun[i] = 1}) = k
      BY <3>2, <3>3, Zenon
    <3>5. QED
      BY <3>1, <3>4
  <2>3. \A i \in Timers : begun[i] <= 1
    BY <2>1
  <2>4. QED
    BY <2>1, <2>2, <2>3 DEF LoopInvariant, IterationsCounted, WithinLimit, LInv
<1>2. QED
  BY <1>1, LoopInductive, PTL

\* An ended timer is not registered again.
THEOREM EndedTimerRestsCorrect == Spec => []EndedTimerRests
<1>1. LInv => EndedTimerRests
  BY DEF LInv, TimerInv, EndedTimerRests
<1>2. QED
  BY <1>1, LoopInductive, PTL

\* A loop that ended is never revived.
THEOREM EndIsFinalCorrect == Spec => EndIsFinal
<1>1. ASSUME LInv, [Next]_vars, loop.status \in {"completed", "cancelled"}
      PROVE  loop'.status \in {"completed", "cancelled"} /\ loop'.iteration = loop.iteration
  <2>1. ASSUME NEW op, NEW id, NEW open, Commits(op, id, open)
        PROVE  loop'.status \in {"completed", "cancelled"} /\ loop'.iteration = loop.iteration
    BY <1>1, <2>1, OperationOnFile DEF Commits, LInv
  <2>2. \/ loop' = loop
        \/ \E op, id, open : Commits(op, id, open)
    <3>1. ASSUME NEW c \in Clients, ClientStep(c)
          PROVE  \/ loop' = loop
                 \/ Commits(requests[c].op, requests[c].id, requests[c].open)
      BY <3>1 DEF ClientStep, Ask, AskFails, Look, Run, RunGoal, Killed, RegisterGoal
    <3>2. ASSUME NEW a \in Actors, Reconcile(a)
          PROVE  loop' = loop \/ Commits("cancel", 0, TRUE)
      BY <3>2 DEF Reconcile, StartCancel, RunCancel, RegisterTimer, RepairFails,
                  NothingToRepair
    <3>3. ASSUME \/ \E i \in Timers : EndTimer(i) \/ CancelTimer(i)
                 \/ \E w \in Watches : SaveAgain(w)
          PROVE  loop' = loop
      BY <3>3 DEF EndTimer, CancelTimer, SaveAgain
    <3>4. ASSUME \/ \E w \in Others : OtherEnds(w)
                 \/ DeadlinePasses \/ Crash \/ Restart \/ UNCHANGED vars
          PROVE  loop' = loop
      BY <3>4 DEF OtherEnds, DeadlinePasses, Crash, Restart, vars
    <3>5. QED
      BY <1>1, <3>1, <3>2, <3>3, <3>4, Zenon DEF Next
  <2>3. QED
    BY <1>1, <2>1, <2>2
<1>2. LInv /\ [Next]_vars =>
        [loop.status \in {"completed", "cancelled"} =>
           loop'.status \in {"completed", "cancelled"} /\ loop'.iteration = loop.iteration]_vars
  BY <1>1
<1>3. QED
  BY <1>2, LoopInductive, PTL DEF Spec, EndIsFinal
=============================================================================
