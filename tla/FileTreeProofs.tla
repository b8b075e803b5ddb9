--------------------------- MODULE FileTreeProofs ---------------------------
(***************************************************************************)
(* Proofs about FileTree, for any threads, volumes, paths and bounds: the  *)
(* invariant that holds in every state, and what a call leaves behind.     *)
(***************************************************************************)
EXTENDS FileTree, TLAPS

AnyMode == {open_ro, open_wo, open_rw}
PCs == {"idle", "follow", "find", "try", "new", "append", "leave", "opened", "failed",
        "record", "clear", "erase"}
Roots == {Root(v) : v \in Volumes}
Owners == [as : {"walk", "user"}, who : Threads] \cup [as : {"volume"}, who : Volumes]
HandleSet == [fop : Files, mode : AnyMode, of : Owners]
RecordSet == [path : Seq(STRING), point : Files, vol : Volumes]
ThreadStates ==
  [pc : PCs, op : {"open", "device", "mount", "probe"}, todo : Seq(STRING), mode : AnyMode,
   dir : Files \cup {None}, target : Files \cup {None},
   vol : Volumes \cup {"none"}, path : Seq(STRING), name : Devices \cup {"none"}]

TypeInv ==
  /\ alive \subseteq Files
  /\ readers \in [Files -> Int] /\ writers \in [Files -> Int]
  /\ mount \in [Files -> Roots \cup {None}]
  /\ entries \in [{"devfs"} \cup TmpVolumes -> SUBSET LocalPaths]
  /\ records \in Seq(RecordSet)
  /\ handles \subseteq HandleSet
  /\ th \in [Threads -> ThreadStates]

Walking == {"follow", "find", "try", "new", "append", "leave"}

\* What the state of a thread says by itself: which fields its position uses,
\* and that only the shell mounts and unmounts.
ThreadOk(t) ==
  /\ th[t].pc = "idle" => th[t] = Idle
  /\ th[t].pc \in {"clear", "erase"} =>
       /\ t = Shell /\ th[t].op = "open" /\ th[t].dir = None
  /\ th[t].pc = "record" => th[t].op = "mount"
  /\ th[t].pc \notin {"idle", "leave", "failed"} => th[t].target # None
  /\ th[t].pc \in {"find", "opened", "failed", "record"} => th[t].dir = th[t].target
  /\ th[t].pc = "failed" => th[t].target = None
  /\ th[t].pc \in Walking /\ th[t].dir # None => th[t].todo # <<>>
  /\ Fresh(t) => th[t].dir # None /\ th[t].target = Child(th[t].dir, Head(th[t].todo))
  /\ th[t].op \in {"mount", "probe"} => t = Shell /\ th[t].vol \in Volumes \ {"basic"}
  /\ th[t].op = "probe" => th[t].vol \in FatVolumes
  /\ th[t].op \in {"open", "device"} => th[t].vol = "none"
  /\ th[t].op = "device" => th[t].name \in Devices

ThreadInv == \A t \in Threads : ThreadOk(t)

-----------------------------------------------------------------------------
(* Files and handles.                                                      *)

LEMMA AppendFacts ==
  ASSUME NEW S, NEW s \in Seq(S), NEW e \in S
  PROVE  /\ Append(s, e) \in Seq(S) /\ Len(Append(s, e)) = Len(s) + 1 /\ Append(s, e) # <<>>
         /\ DOMAIN Append(s, e) = 1..(Len(s) + 1)
         /\ \A i \in 1..Len(s) : Append(s, e)[i] = s[i]
         /\ Append(s, e)[Len(s) + 1] = e
OBVIOUS

LEMMA FileFacts ==
  /\ None \notin Files
  /\ \A v \in Volumes : Root(v) \in Files /\ Root(v).vol = v /\ Root(v).path = <<>>
  /\ \A f \in Files : f.vol \in Volumes /\ f.path \in LocalPaths /\ f.path \in Seq(STRING) /\ f = File(f.vol, f.path)
  /\ None.vol = "none" /\ "none" \notin Volumes
  /\ "basic" \in Volumes /\ "devfs" \in Volumes
<1>1. "none" \notin Volumes /\ <<>> \in LocalPaths /\ LocalPaths \subseteq Seq(STRING)
  BY ConstantsAssumption, Zenon DEF Volumes
<1>2. \A v, p : File(v, p).vol = v /\ File(v, p).path = p
  BY Zenon DEF File
<1>3. \A f \in Files : \E v \in Volumes, p \in LocalPaths : f = File(v, p)
  BY DEF Files
<1>4. \A f \in Files : f.vol \in Volumes /\ f.path \in LocalPaths /\ f = File(f.vol, f.path)
  BY <1>2, <1>3
<1>5. None.vol = "none" BY <1>2, Zenon DEF None
<1>6. \A v \in Volumes : Root(v) \in Files /\ Root(v).vol = v /\ Root(v).path = <<>>
  BY <1>1, <1>2 DEF Root, Files
<1>7. "basic" \in Volumes /\ "devfs" \in Volumes BY Zenon DEF Volumes
<1> QED BY <1>1, <1>4, <1>5, <1>6, <1>7, Zenon

LEMMA AppendPath ==
  \A p \in Seq(STRING), a \in STRING :
    /\ Len(Append(p, a)) = Len(p) + 1 /\ Append(p, a) # <<>>
    /\ \A i \in 1..Len(p) : Append(p, a)[i] = p[i]
<1> TAKE p \in Seq(STRING), a \in STRING
<1>1. Len(Append(p, a)) = Len(p) + 1 /\ \A i \in 1..Len(p) : Append(p, a)[i] = p[i]
  OBVIOUS
<1>2. Len(p) + 1 # 0 /\ Len(<<>>) = 0
  OBVIOUS
<1> QED BY <1>1, <1>2, Zenon

LEMMA ChildFacts ==
  ASSUME NEW d \in Files, NEW n \in STRING
  PROVE  /\ Child(d, n) \notin Roots /\ Child(d, n) # None /\ Child(d, n) # d
         /\ Child(d, n).vol = d.vol /\ Child(d, n).path = Append(d.path, n)
         /\ \A e \in Files, m \in STRING : Child(d, n) = Child(e, m) => d = e
<1>1. \A v, p : File(v, p).vol = v /\ File(v, p).path = p
  BY Zenon DEF File
<1>2. \A f \in Files : f.path \in Seq(STRING) /\ f = File(f.vol, f.path)
  BY FileFacts, Zenon
<1>3. \A p, q \in Seq(STRING), a, b \in STRING : Append(p, a) = Append(q, b) => p = q
  <2> SUFFICES ASSUME NEW p \in Seq(STRING), NEW q \in Seq(STRING), NEW a \in STRING, NEW b \in STRING,
                      Append(p, a) = Append(q, b)
               PROVE  p = q
    BY Zenon
  <2>1. Len(p) = Len(q) OBVIOUS
  <2>2. \A i \in 1..Len(p) : Append(p, a)[i] = p[i]
    BY AppendPath, Zenon
  <2>3. \A i \in 1..Len(q) : Append(q, b)[i] = q[i]
    BY AppendPath, Zenon
  <2>4. \A i \in 1..Len(p) : p[i] = q[i]
    BY <2>1, <2>2, <2>3, Zenon
  <2> QED BY <2>1, <2>4
<1>4. \A p \in Seq(STRING), a \in STRING : Append(p, a) # <<>> /\ Append(p, a) # p
  <2> SUFFICES ASSUME NEW p \in Seq(STRING), NEW a \in STRING
               PROVE  Append(p, a) # <<>> /\ Append(p, a) # p
    BY Zenon
  <2>1. Len(Append(p, a)) = Len(p) + 1 /\ Append(p, a) # <<>>
    BY AppendPath, Zenon
  <2>2. Len(p) + 1 # Len(p) OBVIOUS
  <2> QED BY <2>1, <2>2, Zenon
<1>5. Child(d, n).vol = d.vol /\ Child(d, n).path = Append(d.path, n)
  BY <1>1, Zenon DEF Child
<1>6. Child(d, n) \notin Roots /\ Child(d, n) # None /\ Child(d, n) # d
  BY <1>1, <1>2, <1>4, <1>5 DEF Roots, Root, None
<1>7. ASSUME NEW e \in Files, NEW m \in STRING, Child(d, n) = Child(e, m) PROVE d = e
  <2>1. Child(e, m).vol = e.vol /\ Child(e, m).path = Append(e.path, m)
    BY <1>1, Zenon DEF Child
  <2>2. d.vol = e.vol /\ d.path = e.path
    BY <1>2, <1>3, <1>5, <1>7, <2>1, ZenonT(60)
  <2> QED BY <1>2, <2>2, Zenon
<1> QED BY <1>5, <1>6, <1>7, Zenon

LEMMA ChildInjective ==
  \A d, e \in Files, n, m \in STRING : Child(d, n) = Child(e, m) => d = e
BY ChildFacts, Zenon

\* Every driver asks for exclusive use, so try_open only succeeds on a file that
\* nobody has open.
LEMMA TryOpenExclusive ==
  ASSUME NEW f \in Files, NEW mode \in AnyMode, try_open(f, mode)
  PROVE  readers[f] = 0 /\ writers[f] = 0
<1>1. /\ attributes(f).exclusive = TRUE
      /\ attributes(f).read_level \in {"Single", "Block"}
      /\ attributes(f).write_level \in {"Single", "Block"}
  BY Zenon DEF attributes, volume_root_attributes, tmp_attributes, keyboard_attributes, default_attributes
<1>2. mode.read \/ mode.write
  BY DEF AnyMode, open_ro, open_wo, open_rw
<1> QED BY <1>1, <1>2, Zenon DEF try_open, Admitted

\* The record that unmount finds, if there is one of path p.
HasLast(p) == \E i \in DOMAIN records : records[i].path = p /\ IsLast(i)

LEMMA LastRecordFacts ==
  ASSUME NEW p, HasLast(p)
  PROVE  LastRecord(p) \in DOMAIN records /\ records[LastRecord(p)].path = p
BY Zenon DEF HasLast, LastRecord

LEMMA LastRecordIs ==
  ASSUME records \in Seq(RecordSet), NEW i \in DOMAIN records, IsLast(i)
  PROVE  HasLast(records[i].path) /\ LastRecord(records[i].path) = i
<1> DEFINE L == LastRecord(records[i].path)
<1>1. HasLast(records[i].path) BY Zenon DEF HasLast
<1>2. L \in DOMAIN records /\ records[L].path = records[i].path /\ IsLast(L)
  BY <1>1, Zenon DEF HasLast, LastRecord
<1>3. L <= i /\ i <= L BY <1>2, Zenon DEF IsLast
<1> HIDE DEF L
<1>4. L = i BY <1>2, <1>3
<1> QED BY <1>1, <1>4, Zenon DEF L

LEMMA RecordFacts ==
  ASSUME TypeInv, NEW i \in DOMAIN records
  PROVE  records[i].vol \in Volumes /\ records[i].point \in Files /\ records[i].path \in Seq(STRING)
<1>1. records[i] \in RecordSet BY DEF TypeInv
<1> QED BY <1>1, Zenon DEF RecordSet

LEMMA WithoutFacts ==
  ASSUME NEW S, NEW s \in Seq(S), NEW i \in DOMAIN s
  PROVE  /\ Without(s, i) \in Seq(S)
         /\ Len(Without(s, i)) = Len(s) - 1
         /\ \A k \in 1..(Len(s) - 1) : Without(s, i)[k] = IF k < i THEN s[k] ELSE s[k + 1]
<1>1. i \in 1..Len(s) /\ Len(s) \in Nat OBVIOUS
<1> DEFINE a == SubSeq(s, 1, i - 1)
           b == SubSeq(s, i + 1, Len(s))
<1>2. a \in Seq(S) /\ Len(a) = i - 1 /\ \A k \in 1..(i - 1) : a[k] = s[k]
  BY <1>1
<1>3. b \in Seq(S) /\ Len(b) = Len(s) - i /\ \A k \in 1..(Len(s) - i) : b[k] = s[i + k]
  BY <1>1
<1>4. Without(s, i) = a \o b BY Zenon DEF Without
<1> HIDE DEF a, b
<1>5. a \o b \in Seq(S) /\ Len(a \o b) = Len(s) - 1
  BY <1>1, <1>2, <1>3
<1>6. ASSUME NEW k \in 1..(Len(s) - 1) PROVE (a \o b)[k] = IF k < i THEN s[k] ELSE s[k + 1]
  <2>1. CASE k < i
    BY <1>1, <1>2, <1>3, <2>1
  <2>2. CASE k >= i
    <3>1. k - Len(a) \in 1..(Len(s) - i) /\ k > Len(a) BY <1>1, <1>2, <2>2
    <3>2. k \in 1..(Len(a) + Len(b)) BY <1>1, <1>2, <1>3, SMTT(30)
    <3>3. (a \o b)[k] = b[k - Len(a)]
      <4>1. ASSUME NEW A \in Seq(S), NEW B \in Seq(S), NEW x \in 1..(Len(A) + Len(B)), x > Len(A)
            PROVE  (A \o B)[x] = B[x - Len(A)]
        BY <4>1
      <4> QED BY <1>2, <1>3, <3>1, <3>2, <4>1, Zenon
    <3>4. i + (k - Len(a)) = k + 1 BY <1>1, <1>2
    <3>5. b[k - Len(a)] = s[k + 1] BY <1>3, <3>1, <3>4, Zenon
    <3> QED BY <1>1, <2>2, <3>3, <3>5
  <2>3. k < i \/ k >= i BY <1>1
  <2> QED BY <2>1, <2>2, <2>3, Zenon
<1> QED BY <1>4, <1>5, <1>6, Zenon

-----------------------------------------------------------------------------
(* Types and thread states.                                                *)

LEMMA StateFacts ==
  /\ Idle \in ThreadStates
  /\ \A m \in Modes : m \in AnyMode
  /\ open_ro \in AnyMode /\ open_rw \in AnyMode
  /\ /\ Idle.pc = "idle" /\ Idle.op = "open" /\ Idle.dir = None /\ Idle.target = None /\ Idle.vol = "none" /\ Idle.todo = <<>>
<1>1. open_ro \in AnyMode /\ open_rw \in AnyMode /\ \A m \in Modes : m \in AnyMode
  BY ConstantsAssumption, Zenon DEF AnyMode
<1>2. Root("basic") \in Files BY FileFacts, Zenon
<1>3. Idle \in ThreadStates
  <2>1. <<>> \in Seq(STRING) /\ "idle" \in PCs
    BY DEF PCs
  <2> QED BY <1>1, <2>1, Zenon DEF Idle, ThreadStates
<1>5. /\ Idle.pc = "idle" /\ Idle.op = "open" /\ Idle.dir = None /\ Idle.target = None /\ Idle.vol = "none" /\ Idle.todo = <<>>
  BY Zenon DEF Idle
<1> QED BY <1>1, <1>3, <1>5, Zenon

LEMMA OpeningFields ==
  ASSUME NEW op, NEW p, NEW m, NEW v, NEW q
  PROVE  /\ Opening(op, p, m, v, q).pc = "follow" /\ Opening(op, p, m, v, q).op = op
         /\ Opening(op, p, m, v, q).todo = p /\ Opening(op, p, m, v, q).mode = m
         /\ Opening(op, p, m, v, q).dir = None /\ Opening(op, p, m, v, q).target = Root("basic")
         /\ Opening(op, p, m, v, q).vol = v /\ Opening(op, p, m, v, q).path = q
BY Zenon DEF Opening, Idle

LEMMA OpeningType ==
  ASSUME NEW op, op \in {"open", "device", "mount", "probe"}, NEW p \in Seq(STRING), NEW m \in AnyMode,
         NEW v, v \in Volumes \cup {"none"}, NEW q \in Seq(STRING)
  PROVE  Opening(op, p, m, v, q) \in ThreadStates
<1>1. "follow" \in PCs /\ Root("basic") \in Files BY FileFacts, Zenon DEF PCs
<1> QED BY <1>1, StateFacts, ZenonT(60) DEF Opening, ThreadStates

\* A step that only moves thread t, to position pc with these pointers.
Moved(t, pc, dir, target, todo) ==
  /\ th' \in [Threads -> ThreadStates]
  /\ \A u \in Threads \ {t} : th'[u] = th[u]
  /\ th'[t].pc = pc /\ th'[t].dir = dir /\ th'[t].target = target /\ th'[t].todo = todo
  /\ th'[t].op = th[t].op /\ th'[t].mode = th[t].mode /\ th'[t].vol = th[t].vol
  /\ th'[t].path = th[t].path /\ th'[t].name = th[t].name

LEMMA Moves ==
  ASSUME TypeInv, NEW t \in Threads, NEW pc \in PCs, NEW g \in Files \cup {None},
         th' = [th EXCEPT ![t].pc = pc, ![t].target = g]
  PROVE  Moved(t, pc, th[t].dir, g, th[t].todo)
BY ZenonT(60) DEF Moved, TypeInv, ThreadStates

LEMMA MovesOn ==
  ASSUME TypeInv, NEW t \in Threads, NEW pc \in PCs, th' = [th EXCEPT ![t].pc = pc]
  PROVE  Moved(t, pc, th[t].dir, th[t].target, th[t].todo)
BY ZenonT(60) DEF Moved, TypeInv, ThreadStates

LEMMA StepsInto ==
  ASSUME TypeInv, TypeInv', NEW t \in Threads, NEW pc, NEW todo,
         th' = [th EXCEPT ![t].pc = pc, ![t].todo = todo, ![t].dir = th[t].target]
  PROVE  Moved(t, pc, th[t].target, th[t].target, todo)
BY ZenonT(60) DEF Moved, TypeInv, ThreadStates

\* A thread that changes its own state leaves the others'.
LEMMA ThreadFrame ==
  ASSUME ThreadInv, NEW t \in Threads, ThreadOk(t)',
         \A u \in Threads \ {t} : th'[u] = th[u]
  PROVE  ThreadInv'
<1>1. ASSUME NEW u \in Threads \ {t} PROVE ThreadOk(u)'
  BY <1>1 DEF ThreadInv, ThreadOk, Fresh
<1> QED BY <1>1, Zenon DEF ThreadInv

LEMMA BecomesIdle ==
  ASSUME TypeInv, ThreadInv, NEW t \in Threads, th' = [th EXCEPT ![t] = Idle]
  PROVE  th' \in [Threads -> ThreadStates] /\ ThreadInv'
<1>1. th' \in [Threads -> ThreadStates] BY StateFacts, Zenon DEF TypeInv
<1>2. th'[t] = Idle /\ \A u \in Threads \ {t} : th'[u] = th[u] BY Zenon DEF TypeInv
<1>3. ThreadOk(t)' BY <1>2, StateFacts, Zenon DEF ThreadOk, Walking, Fresh
<1> QED BY <1>1, <1>2, <1>3, ThreadFrame, Zenon

LEMMA BecomesOpening ==
  ASSUME TypeInv, ThreadInv, NEW t \in Threads, NEW o \in ThreadStates, th' = [th EXCEPT ![t] = o],
         o.pc = "follow", o.dir = None, o.target = Root("basic"),
         o.op \in {"open", "device"} => o.vol = "none", o.op = "probe" => o.vol \in FatVolumes,
         o.op \in {"mount", "probe"} => t = Shell /\ o.vol \in Volumes \ {"basic"},
         o.op = "device" => o.name \in Devices
  PROVE  th' \in [Threads -> ThreadStates] /\ ThreadInv'
<1>1. th' \in [Threads -> ThreadStates] BY Zenon DEF TypeInv
<1>2. th'[t] = o /\ \A u \in Threads \ {t} : th'[u] = th[u] BY Zenon DEF TypeInv
<1>3. Root("basic") # None BY FileFacts, Zenon
<1>4. ThreadOk(t)' BY <1>2, <1>3, Zenon DEF ThreadOk, Walking, Fresh
<1> QED BY <1>1, <1>2, <1>4, ThreadFrame, Zenon

LEMMA ReleaseType ==
  ASSUME TypeInv, NEW gone, NEW more, Release(gone, more)
  PROVE  /\ readers' \in [Files -> Int] /\ writers' \in [Files -> Int]
         /\ handles' \subseteq HandleSet
<1> USE DEF TypeInv
<1>1. readers' \in [Files -> Int] BY DEF Release
<1>2. writers' \in [Files -> Int] BY DEF Release
<1>3. handles' \subseteq HandleSet BY Zenon DEF Release
<1> QED BY <1>1, <1>2, <1>3, Zenon

LEMMA AcquireType ==
  ASSUME TypeInv, NEW h \in HandleSet, Acquire(h)
  PROVE  /\ readers' \in [Files -> Int] /\ writers' \in [Files -> Int]
         /\ handles' \subseteq HandleSet
<1> USE DEF TypeInv
<1>0. h.fop \in Files BY Zenon DEF HandleSet
<1>1. readers' \in [Files -> Int] BY <1>0 DEF Acquire
<1>2. writers' \in [Files -> Int] BY <1>0 DEF Acquire
<1>3. handles' \subseteq HandleSet BY Zenon DEF Acquire
<1> QED BY <1>1, <1>2, <1>3, Zenon

LEMMA OwnerFacts ==
  /\ \A t \in Threads : Walk(t) \in Owners /\ User(t) \in Owners
  /\ \A v \in Volumes : Mounted(v) \in Owners
  /\ \A t, u, v : /\ Walk(t) # User(u) /\ Walk(t) # Mounted(v) /\ User(t) # Mounted(v)
                  /\ Walk(t) = Walk(u) => t = u
                  /\ User(t) = User(u) => t = u
                  /\ Mounted(t) = Mounted(u) => t = u
                  /\ Walk(t).as = "walk" /\ User(t).as = "user"
                  /\ Mounted(t).as = "volume" /\ Mounted(t).who = t
BY Zenon DEF Walk, User, Mounted, Owners

\* Handles that are handed on: W go over to the owner o.
Renamed(W, o) == (handles \ W) \cup {[h EXCEPT !.of = o] : h \in W}

LEMMA RenamedType ==
  ASSUME TypeInv, NEW W \in SUBSET handles, NEW o \in Owners
  PROVE  Renamed(W, o) \subseteq HandleSet
BY ZenonT(60) DEF TypeInv, Renamed, HandleSet

\* A child that find has found is one of the volume's paths.
LEMMA FoundIsFile ==
  ASSUME TypeInv, NEW d \in Files, NEW n \in STRING, find(d, n)
  PROVE  Child(d, n) \in Files
<1>1. d.vol \in Volumes /\ d.path \in Seq(STRING) BY FileFacts, Zenon
<1>2. \A x \in STRING : Append(<<>>, x) = <<x>> OBVIOUS
<1>3. Append(d.path, n) \in LocalPaths
  <2>1. CASE d.vol = "basic"
    BY <1>1, <1>2, <2>1, ConstantsAssumption, Zenon DEF find, basic_find
  <2>2. CASE d.vol = "devfs"
    <3>1. d.path = <<>> /\ <<n>> \in entries["devfs"]
      BY <2>2, ConstantsAssumption, Zenon DEF find, dev_find
    <3>2. entries["devfs"] \subseteq LocalPaths BY Zenon DEF TypeInv
    <3> QED BY <1>2, <3>1, <3>2, Zenon
  <2>3. CASE d.vol \in TmpVolumes
    BY <1>1, <2>3, ConstantsAssumption, Zenon DEF find, tmp_find, TypeInv
  <2>4. CASE d.vol \in FatVolumes
    BY <1>1, <1>2, <2>4, ConstantsAssumption, Zenon DEF find, fat_find
  <2> QED BY <1>1, <2>1, <2>2, <2>3, <2>4, Zenon DEF Volumes
<1> QED BY <1>1, <1>3 DEF Child, Files

LEMMA BaseInit ==
  ASSUME Init
  PROVE  TypeInv /\ ThreadInv
<1> DEFINE dev == File("basic", <<"dev">>)
<1>1. dev \in Files
  BY ConstantsAssumption DEF Files, Volumes
<1>2. Root("basic") \in Files /\ Root("devfs") \in Files /\ Root("devfs") \in Roots
  BY FileFacts, Zenon DEF Roots
<1>3. /\ alive = {Root("basic"), dev, Root("devfs")}
      /\ readers = [f \in Files |-> IF f = dev THEN 1 ELSE 0] /\ writers = readers
      /\ mount = [f \in Files |-> IF f = dev THEN Root("devfs") ELSE None]
      /\ entries = [v \in {"devfs"} \cup TmpVolumes |-> {}]
      /\ records = <<[path |-> <<"dev">>, point |-> dev, vol |-> "devfs"]>>
      /\ handles = {Handle(dev, open_rw, Mounted("devfs"))}
      /\ th = [t \in Threads |-> Idle]
  BY Zenon DEF Init
<1> HIDE DEF dev
<1>4. alive \subseteq Files /\ readers \in [Files -> Int] /\ writers \in [Files -> Int]
  BY <1>1, <1>2, <1>3
<1>5. mount \in [Files -> Roots \cup {None}] /\ entries \in [{"devfs"} \cup TmpVolumes -> SUBSET LocalPaths]
  BY <1>2, <1>3, Zenon
<1>6. records \in Seq(RecordSet)
  <2>1. <<"dev">> \in Seq(STRING) BY ConstantsAssumption, Zenon
  <2>2. [path |-> <<"dev">>, point |-> dev, vol |-> "devfs"] \in RecordSet
    BY <1>1, <2>1, FileFacts, ZenonT(60) DEF RecordSet
  <2> QED BY <1>3, <2>2
<1>7. handles \subseteq HandleSet
  BY <1>1, <1>3, OwnerFacts, FileFacts, StateFacts DEF HandleSet, Handle
<1>8. th \in [Threads -> ThreadStates] BY <1>3, StateFacts, Zenon
<1>9. ThreadInv
  BY <1>3, StateFacts, Zenon DEF ThreadInv, ThreadOk, Walking, Fresh
<1> QED BY <1>4, <1>5, <1>6, <1>7, <1>8, <1>9, Zenon DEF TypeInv

\* What the steps of an open, and of a mount that uses it, do to their thread.
LEMMA BaseWalk ==
  ASSUME TypeInv, ThreadInv, NEW t \in Threads,
         \/ open(t) \/ follow_mountpoints(t) \/ prepare_fop(t) \/ TryOpen(t) \/ append_child(t)
         \/ Leave(t) \/ Opened(t)
  PROVE  TypeInv' /\ ThreadInv'
<1>0. th[t] \in ThreadStates /\ ThreadOk(t) BY Zenon DEF TypeInv, ThreadInv
<1>1. CASE open(t)
  <2>1. PICK p \in Paths, m \in Modes : th' = [th EXCEPT ![t] = Opening("open", p, m, "none", <<>>)]
    BY <1>1, Zenon DEF open
  <2>2. p \in Seq(STRING) /\ m \in AnyMode /\ <<>> \in Seq(STRING) BY ConstantsAssumption, StateFacts, Zenon
  <2> DEFINE o == Opening("open", p, m, "none", <<>>)
  <2>3. o.pc = "follow" /\ o.dir = None /\ o.target = Root("basic") /\ o.op = "open" /\ o.vol = "none"
    BY OpeningFields
  <2>4. o \in ThreadStates /\ th' = [th EXCEPT ![t] = o] BY <2>1, <2>2, OpeningType, Zenon
  <2> HIDE DEF o
  <2>5. th' \in [Threads -> ThreadStates] /\ ThreadInv' BY <2>3, <2>4, BecomesOpening, Zenon
  <2> QED BY <1>1, <2>5, Zenon DEF TypeInv, open, tree
<1>2. CASE follow_mountpoints(t)
  <2>1. th[t].pc = "follow" /\ th[t].target \in Files
    BY <1>0, <1>2, FileFacts, Zenon DEF follow_mountpoints, At, ThreadOk, ThreadStates
  <2>2. CASE mount[th[t].target] # None
    <3>1. th' = [th EXCEPT ![t].target = mount[th[t].target]] BY <1>2, <2>2, Zenon DEF follow_mountpoints
    <3>2. mount[th[t].target] \in Files BY <2>1, <2>2, FileFacts DEF TypeInv, Roots
    <3>3. th' \in [Threads -> ThreadStates] /\ \A u \in Threads \ {t} : th'[u] = th[u]
      BY <1>0, <3>1, <3>2, Zenon DEF TypeInv, ThreadStates
    <3>4. ThreadOk(t)' BY <1>0, <2>1, <2>2, <3>1 DEF ThreadOk, Walking, Fresh, ThreadStates
    <3> QED BY <1>2, <3>3, <3>4, ThreadFrame, Zenon DEF TypeInv, follow_mountpoints, tree
  <2>3. CASE mount[th[t].target] = None
    <3>1. th' = [th EXCEPT ![t].pc = "try"] BY <1>2, <2>3, Zenon DEF follow_mountpoints
    <3>2. th' \in [Threads -> ThreadStates] /\ \A u \in Threads \ {t} : th'[u] = th[u]
      BY <1>0, <3>1, ZenonT(60) DEF TypeInv, ThreadStates, PCs
    <3>3. ThreadOk(t)' BY <1>0, <2>1, <3>1 DEF ThreadOk, Walking, Fresh, ThreadStates
    <3> QED BY <1>2, <3>2, <3>3, ThreadFrame, Zenon DEF TypeInv, follow_mountpoints, tree
  <2> QED BY <2>2, <2>3, Zenon
<1>3. CASE prepare_fop(t)
  <2> DEFINE dir == th[t].dir
             name == Head(th[t].todo)
             child == Child(dir, name)
  <2>1. th[t].pc = "find" /\ dir # None /\ dir \in Files /\ th[t].todo # <<>>
    BY <1>0, <1>3, Zenon DEF prepare_fop, At, ThreadOk, Walking, ThreadStates
  <2>2. name \in STRING BY <1>0, <2>1 DEF ThreadStates
  <2>3. child # None BY <2>1, <2>2, ChildFacts, Zenon
  <2>4. \/ child \in alive /\ th' = [th EXCEPT ![t].pc = "follow", ![t].target = child]
        \/ find(dir, name) /\ th' = [th EXCEPT ![t].pc = "new", ![t].target = child]
        \/ th' = [th EXCEPT ![t].pc = "leave", ![t].target = None]
    BY <1>3, Zenon DEF prepare_fop
  <2>5. find(dir, name) => child \in Files BY <2>1, <2>2, FoundIsFile, Zenon
  <2> HIDE DEF dir, name, child
  <2>6. PICK pc \in {"follow", "new", "leave"}, g \in Files \cup {None} :
          /\ th' = [th EXCEPT ![t].pc = pc, ![t].target = g]
          /\ pc # "leave" => g = child
    <3>1. CASE child \in alive /\ th' = [th EXCEPT ![t].pc = "follow", ![t].target = child]
      BY <3>1, Zenon DEF TypeInv
    <3>2. CASE find(dir, name) /\ th' = [th EXCEPT ![t].pc = "new", ![t].target = child]
      BY <3>2, <2>5, Zenon
    <3>3. CASE th' = [th EXCEPT ![t].pc = "leave", ![t].target = None]
      BY <3>3, Zenon
    <3> QED BY <2>4, <3>1, <3>2, <3>3, Zenon
  <2>7. Moved(t, pc, dir, g, th[t].todo)
    BY <2>6, Moves, Zenon DEF PCs, dir
  <2>8. ThreadOk(t)'
    BY <1>0, <2>1, <2>3, <2>6, <2>7 DEF ThreadOk, Walking, Fresh, Moved, dir, name, child
  <2> QED BY <1>3, <2>7, <2>8, ThreadFrame, Zenon DEF TypeInv, prepare_fop, Moved
<1>4. CASE TryOpen(t)
  <2> DEFINE f == th[t].target
             h == Handle(f, StepMode(t), Walk(t))
  <2>1. th[t].pc \in {"try", "new"} /\ f # None /\ f \in Files
    BY <1>0, <1>4, Zenon DEF TryOpen, At, ThreadOk, ThreadStates
  <2>2. \/ ~Fresh(t) /\ Acquire(h) /\ th' = [th EXCEPT ![t].pc = "leave"]
        \/ Fresh(t) /\ th' = [th EXCEPT ![t].pc = "append"] /\ UNCHANGED <<readers, writers, handles>>
        \/ th' = [th EXCEPT ![t].pc = "leave", ![t].target = None] /\ UNCHANGED <<readers, writers, handles>>
    BY <1>4, Zenon DEF TryOpen
  <2>3. h \in HandleSet
    BY <1>0, <2>1, StateFacts, OwnerFacts, Zenon DEF HandleSet, Handle, StepMode, ThreadStates
  <2> HIDE DEF f, h
  <2>4. readers' \in [Files -> Int] /\ writers' \in [Files -> Int] /\ handles' \subseteq HandleSet
    BY <2>2, <2>3, AcquireType, Zenon DEF TypeInv
  <2>5. PICK pc \in {"append", "leave"}, g \in {f, None} :
          /\ Moved(t, pc, th[t].dir, g, th[t].todo)
          /\ pc = "append" => Fresh(t) /\ g = f
    <3>1. f \in Files \cup {None} /\ "append" \in PCs /\ "leave" \in PCs BY <2>1, Zenon DEF PCs
    <3>2. CASE th' = [th EXCEPT ![t].pc = "leave"]
      BY <3>1, <3>2, MovesOn, Zenon DEF f
    <3>3. CASE Fresh(t) /\ th' = [th EXCEPT ![t].pc = "append"]
      BY <3>1, <3>3, MovesOn, Zenon DEF f
    <3>4. CASE th' = [th EXCEPT ![t].pc = "leave", ![t].target = None]
      BY <3>1, <3>4, Moves, Zenon
    <3> QED BY <2>2, <3>2, <3>3, <3>4, Zenon
  <2>6. ThreadOk(t)'
    BY <1>0, <2>1, <2>5, ZenonT(60) DEF ThreadOk, Walking, Fresh, Moved, f
  <2> QED BY <1>4, <2>4, <2>5, <2>6, ThreadFrame, Zenon DEF TypeInv, TryOpen, Moved
<1>5. CASE append_child(t)
  <2> DEFINE f == th[t].target
             h == Handle(f, StepMode(t), Walk(t))
  <2>1. th[t].pc = "append" /\ f # None /\ f \in Files
    BY <1>0, <1>5, Zenon DEF append_child, At, ThreadOk, ThreadStates
  <2>2. /\ alive' = alive \cup {f} /\ th' = [th EXCEPT ![t].pc = "leave"]
        /\ Acquire(h) \/ (handles' = handles \cup {h} /\ UNCHANGED <<readers, writers>>)
    BY <1>5, Zenon DEF append_child
  <2>3. h \in HandleSet
    BY <1>0, <2>1, StateFacts, OwnerFacts, Zenon DEF HandleSet, Handle, StepMode, ThreadStates
  <2> HIDE DEF f, h
  <2>4. readers' \in [Files -> Int] /\ writers' \in [Files -> Int] /\ handles' \subseteq HandleSet
    BY <2>2, <2>3, AcquireType, Zenon DEF TypeInv
  <2>5. th' \in [Threads -> ThreadStates] /\ \A u \in Threads \ {t} : th'[u] = th[u]
    BY <1>0, <2>2, ZenonT(60) DEF TypeInv, ThreadStates, PCs
  <2>6. ThreadOk(t)'
    BY <1>0, <2>1, <2>2 DEF ThreadOk, Walking, Fresh, ThreadStates
  <2>7. alive' \subseteq Files BY <2>1, <2>2, Zenon DEF TypeInv
  <2> QED BY <1>5, <2>4, <2>5, <2>6, <2>7, ThreadFrame, Zenon DEF TypeInv, append_child
<1>6. CASE Leave(t)
  <2> DEFINE todo == IF th[t].dir = None THEN th[t].todo ELSE Tail(th[t].todo)
             pc == IF th[t].target = None THEN "failed" ELSE IF todo = <<>> THEN "opened" ELSE "find"
  <2>1. th[t].pc = "leave" /\ th' = [th EXCEPT ![t].pc = pc, ![t].todo = todo, ![t].dir = th[t].target]
    BY <1>6, Zenon DEF Leave, At
  <2>2. todo \in Seq(STRING)
    <3>1. th[t].todo \in Seq(STRING) BY <1>0, Zenon DEF ThreadStates
    <3>2. th[t].dir # None => th[t].todo # <<>> BY <1>0, <2>1, Zenon DEF ThreadOk, Walking
    <3>3. \A s \in Seq(STRING) : s # <<>> => Tail(s) \in Seq(STRING) OBVIOUS
    <3> QED BY <3>1, <3>2, <3>3, Zenon
  <2>3. pc \in {"failed", "opened", "find"} /\ (pc = "failed" <=> th[t].target = None) /\ (pc = "find" => todo # <<>>)
    BY Zenon
  <2> HIDE DEF todo, pc
  <2>4. th' \in [Threads -> ThreadStates] /\ \A u \in Threads \ {t} : th'[u] = th[u]
    BY <1>0, <2>1, <2>2, <2>3, ZenonT(60) DEF TypeInv, ThreadStates, PCs
  <2>5. ThreadOk(t)'
    BY <1>0, <2>1, <2>3 DEF TypeInv, ThreadOk, Walking, Fresh, ThreadStates
  <2>6. PICK gone : Release(gone, {}) BY <1>6, Zenon DEF Leave
  <2>7. readers' \in [Files -> Int] /\ writers' \in [Files -> Int] /\ handles' \subseteq HandleSet
    BY <2>6, ReleaseType, Zenon
  <2> QED BY <1>6, <2>4, <2>5, <2>7, ThreadFrame, Zenon DEF TypeInv, Leave
<1>7. CASE Opened(t)
  <2>1. th' \in [Threads -> ThreadStates] /\ ThreadInv' BY <1>7, BecomesIdle, Zenon DEF Opened
  <2>2. handles' = Renamed(WalkHandles(t), User(t)) BY <1>7, Zenon DEF Opened, Renamed
  <2>3. WalkHandles(t) \in SUBSET handles BY Zenon DEF WalkHandles
  <2>4. handles' \subseteq HandleSet BY <2>2, <2>3, RenamedType, OwnerFacts, Zenon
  <2> QED BY <1>7, <2>1, <2>4, Zenon DEF TypeInv, Opened, tree
<1> QED BY <1>1, <1>2, <1>3, <1>4, <1>5, <1>6, <1>7, Zenon

\* What is done with an open file, and to the devices.
LEMMA BaseFiles ==
  ASSUME TypeInv, ThreadInv, NEW t \in Threads,
         close(t) \/ create(t) \/ remove(t) \/ create_device_file(t) \/ create_device(t)
  PROVE  TypeInv' /\ ThreadInv'
<1>0. th[t] \in ThreadStates /\ ThreadOk(t) BY Zenon DEF TypeInv, ThreadInv
<1>1. CASE close(t)
  <2>1. PICK h : Release({h}, {}) BY <1>1, Zenon DEF close
  <2>2. readers' \in [Files -> Int] /\ writers' \in [Files -> Int] /\ handles' \subseteq HandleSet
    BY <2>1, ReleaseType, Zenon
  <2>3. UNCHANGED <<alive, mount, locked, entries, records, th>> BY <1>1, Zenon DEF close
  <2> QED BY <2>2, <2>3, ZenonT(60) DEF TypeInv, ThreadInv, ThreadOk, Fresh
<1>2. CASE create(t)
  <2>1. PICK h \in handles, n \in Names :
          /\ h.fop.vol \in TmpVolumes /\ Child(h.fop, n).path \in LocalPaths /\ tmp_create(h.fop, n)
    BY <1>2, Zenon DEF create
  <2>2. Append(h.fop.path, n) \in LocalPaths BY <2>1, Zenon DEF Child, File
  <2>3. entries' = [entries EXCEPT ![h.fop.vol] = @ \cup {Append(h.fop.path, n)}] BY <2>1, Zenon DEF tmp_create
  <2>4. entries' \in [{"devfs"} \cup TmpVolumes -> SUBSET LocalPaths] BY <2>1, <2>2, <2>3, Zenon DEF TypeInv
  <2>5. UNCHANGED <<alive, mount, locked, records, windows, readers, writers, handles, th>>
    BY <1>2, ZenonT(60) DEF create
  <2> QED BY <2>4, <2>5 DEF TypeInv, ThreadInv, ThreadOk, Fresh
<1>3. CASE remove(t)
  <2>1. PICK h \in handles, n \in Names \cup Devices :
          /\ \/ h.fop.vol \in TmpVolumes /\ tmp_remove(h.fop, n)
             \/ h.fop.vol = "devfs" /\ dev_remove(h.fop, n)
          /\ alive' = alive \ {Child(h.fop, n)}
    BY <1>3, Zenon DEF remove
  <2>2. PICK v \in {"devfs"} \cup TmpVolumes, S \in SUBSET LocalPaths : entries' = [entries EXCEPT ![v] = S]
    <3>1. CASE h.fop.vol \in TmpVolumes /\ tmp_remove(h.fop, n)
      <4>1. entries' = [entries EXCEPT ![h.fop.vol] =
                          {p \in entries[h.fop.vol] : ~Within(p, Append(h.fop.path, n))}]
        BY <3>1, Zenon DEF tmp_remove
      <4>2. {p \in entries[h.fop.vol] : ~Within(p, Append(h.fop.path, n))} \in SUBSET LocalPaths
        BY <3>1, Zenon DEF TypeInv
      <4> QED BY <3>1, <4>1, <4>2, Zenon
    <3>2. CASE h.fop.vol = "devfs" /\ dev_remove(h.fop, n)
      <4>1. entries' = [entries EXCEPT !["devfs"] = entries["devfs"] \ {<<n>>}]
        BY <3>2, Zenon DEF dev_remove
      <4>2. entries["devfs"] \ {<<n>>} \in SUBSET LocalPaths
        BY <3>2, Zenon DEF TypeInv
      <4> QED BY <4>1, <4>2, Zenon
    <3> QED BY <2>1, <3>1, <3>2, Zenon
  <2>3. entries' \in [{"devfs"} \cup TmpVolumes -> SUBSET LocalPaths] BY <2>2, Zenon DEF TypeInv
  <2>4. UNCHANGED <<mount, locked, records, windows, readers, writers, handles, th>>
    BY <1>3, Zenon DEF remove
  <2> QED BY <2>1, <2>3, <2>4 DEF TypeInv, ThreadInv, ThreadOk, Fresh
<1>4. CASE create_device_file(t)
  <2>1. PICK n \in Devices :
          th' = [th EXCEPT ![t] = [Opening("device", <<"dev">>, open_rw, "none", <<>>) EXCEPT !.name = n]]
    BY <1>4, Zenon DEF create_device_file
  <2> DEFINE b == Opening("device", <<"dev">>, open_rw, "none", <<>>)
             o == [b EXCEPT !.name = n]
  <2>2. b.pc = "follow" /\ b.dir = None /\ b.target = Root("basic") /\ b.op = "device" /\ b.vol = "none"
    BY OpeningFields
  <2>3. b \in ThreadStates
    <3>1. <<"dev">> \in Seq(STRING) /\ <<>> \in Seq(STRING) BY ConstantsAssumption, Zenon
    <3> QED BY <3>1, OpeningType, StateFacts, Zenon
  <2>4. th' = [th EXCEPT ![t] = o] BY <2>1, Zenon
  <2> HIDE DEF b
  <2>5. /\ o \in ThreadStates /\ o.pc = "follow" /\ o.dir = None /\ o.target = Root("basic")
        /\ o.op = "device" /\ o.vol = "none" /\ o.name = n
    BY <2>2, <2>3, Zenon DEF ThreadStates
  <2> HIDE DEF o
  <2>6. th' \in [Threads -> ThreadStates] /\ ThreadInv' BY <2>4, <2>5, BecomesOpening, Zenon
  <2> QED BY <1>4, <2>6, Zenon DEF TypeInv, create_device_file, tree
<1>5. CASE create_device(t)
  <2>1. th' \in [Threads -> ThreadStates] /\ ThreadInv' BY <1>5, BecomesIdle, Zenon DEF create_device
  <2>2. PICK gone : Release(gone, {}) BY <1>5, Zenon DEF create_device
  <2>3. readers' \in [Files -> Int] /\ writers' \in [Files -> Int] /\ handles' \subseteq HandleSet
    BY <2>2, ReleaseType, Zenon
  <2>4. th[t].name \in Devices /\ <<th[t].name>> \in LocalPaths
    BY <1>0, <1>5, ConstantsAssumption, Zenon DEF create_device, ThreadOk
  <2>5. entries' \in [{"devfs"} \cup TmpVolumes -> SUBSET LocalPaths]
    BY <1>5, <2>4, Zenon DEF create_device, dev_create_device, TypeInv
  <2> QED BY <1>5, <2>1, <2>3, <2>5, Zenon DEF create_device, TypeInv
<1> QED BY <1>1, <1>2, <1>3, <1>4, <1>5, Zenon

LEMMA NewVolumeType ==
  ASSUME TypeInv, ThreadInv, NEW v \in {"devfs"} \cup TmpVolumes \cup FatVolumes, NEW p \in Seq(STRING),
         NewVolume(Shell, v, p)
  PROVE  /\ alive' \subseteq Files /\ entries' \in [{"devfs"} \cup TmpVolumes -> SUBSET LocalPaths]
         /\ th' \in [Threads -> ThreadStates] /\ ThreadInv'
<1> DEFINE o == Opening("mount", p, open_rw, v, p)
<1>1. v \in Volumes \ {"basic"} /\ Shell \in Threads BY ConstantsAssumption, Zenon DEF Volumes
<1>2. o.pc = "follow" /\ o.dir = None /\ o.target = Root("basic") /\ o.op = "mount" /\ o.vol = v
  BY OpeningFields
<1>3. o \in ThreadStates BY <1>1, OpeningType, StateFacts, Zenon
<1>4. th' = [th EXCEPT ![Shell] = o] BY Zenon DEF NewVolume
<1> HIDE DEF o
<1>5. th' \in [Threads -> ThreadStates] /\ ThreadInv' BY <1>1, <1>2, <1>3, <1>4, BecomesOpening, Zenon
<1>6. alive' \subseteq Files BY <1>1, FileFacts, Zenon DEF NewVolume, TypeInv
<1>7. entries' \in [{"devfs"} \cup TmpVolumes -> SUBSET LocalPaths] BY Zenon DEF NewVolume, TypeInv
<1> QED BY <1>5, <1>6, <1>7, Zenon

\* Mounting and unmounting.
LEMMA BaseMount ==
  ASSUME TypeInv, ThreadInv, NEW t \in Threads,
         \/ mount_volume(t) \/ create_fat_driver(t) \/ set_mount_driver(t) \/ record(t) \/ Failed(t)
  PROVE  TypeInv' /\ ThreadInv'
<1>0. th[t] \in ThreadStates /\ ThreadOk(t) BY Zenon DEF TypeInv, ThreadInv
<1>1. CASE mount_volume(t)
  <2>1. PICK p \in Mountpoints :
          \/ \E v \in {"devfs"} \cup {w \in TmpVolumes : ~Busy(w)} : NewVolume(t, v, p)
          \/ \E v \in {w \in FatVolumes : ~Busy(w)} :
               /\ th' = [th EXCEPT ![t] = Opening("probe", DiskPath, open_rw, v, p)]
               /\ UNCHANGED <<alive, entries>>
    BY <1>1, Zenon DEF mount_volume
  <2>2. t = Shell /\ UNCHANGED <<mount, locked, records, windows, readers, writers, handles>>
    BY <1>1, Zenon DEF mount_volume
  <2>3. p \in Seq(STRING) /\ DiskPath \in Seq(STRING) BY ConstantsAssumption, Zenon
  <2>4. CASE \E v \in {"devfs"} \cup {w \in TmpVolumes : ~Busy(w)} : NewVolume(t, v, p)
    <3>1. PICK v \in {"devfs"} \cup TmpVolumes \cup FatVolumes : NewVolume(Shell, v, p) BY <2>2, <2>4, Zenon
    <3> QED BY <2>2, <2>3, <3>1, NewVolumeType, Zenon DEF TypeInv
  <2>5. CASE \E v \in {w \in FatVolumes : ~Busy(w)} :
               /\ th' = [th EXCEPT ![t] = Opening("probe", DiskPath, open_rw, v, p)]
               /\ UNCHANGED <<alive, entries>>
    <3>1. PICK v \in FatVolumes : /\ th' = [th EXCEPT ![t] = Opening("probe", DiskPath, open_rw, v, p)]
                                  /\ UNCHANGED <<alive, entries>>
      BY <2>5, Zenon
    <3> DEFINE o == Opening("probe", DiskPath, open_rw, v, p)
    <3>2. v \in Volumes \ {"basic"} BY ConstantsAssumption, Zenon DEF Volumes
    <3>3. o.pc = "follow" /\ o.dir = None /\ o.target = Root("basic") /\ o.op = "probe" /\ o.vol = v
      BY OpeningFields
    <3>4. o \in ThreadStates /\ th' = [th EXCEPT ![t] = o] BY <2>3, <3>1, <3>2, OpeningType, StateFacts, Zenon
    <3> HIDE DEF o
    <3>5. th' \in [Threads -> ThreadStates] /\ ThreadInv' BY <2>2, <3>2, <3>3, <3>4, BecomesOpening, Zenon
    <3> QED BY <2>2, <3>1, <3>5, Zenon DEF TypeInv
  <2> QED BY <2>1, <2>4, <2>5, Zenon
<1>2. CASE create_fat_driver(t)
  <2>1. /\ th[t].op = "probe" /\ UNCHANGED <<mount, locked, records>>
        /\ \/ /\ NewVolume(t, th[t].vol, th[t].path)
              /\ handles' = Renamed(WalkHandles(t), Mounted(th[t].vol))
              /\ UNCHANGED <<readers, writers, windows>>
           \/ /\ UNCHANGED <<alive, entries>>
              /\ Release(WalkHandles(t), {})
              /\ th' = [th EXCEPT ![t] = Idle]
    BY <1>2, Zenon DEF create_fat_driver, Renamed
  <2>2. t = Shell /\ th[t].vol \in FatVolumes /\ th[t].vol \in Volumes /\ th[t].path \in Seq(STRING)
    BY <1>0, <2>1, Zenon DEF ThreadOk, ThreadStates
  <2>3. CASE /\ NewVolume(t, th[t].vol, th[t].path)
             /\ handles' = Renamed(WalkHandles(t), Mounted(th[t].vol))
             /\ UNCHANGED <<readers, writers, windows>>
    <3>1. handles' \subseteq HandleSet BY <2>2, <2>3, RenamedType, OwnerFacts, Zenon DEF WalkHandles
    <3> QED BY <2>1, <2>2, <2>3, <3>1, NewVolumeType, Zenon DEF TypeInv
  <2>4. CASE /\ UNCHANGED <<alive, entries>>
             /\ Release(WalkHandles(t), {})
             /\ th' = [th EXCEPT ![t] = Idle]
    BY <2>1, <2>4, ReleaseType, BecomesIdle, Zenon DEF TypeInv
  <2> QED BY <2>1, <2>3, <2>4, Zenon
<1>3. CASE set_mount_driver(t)
  <2>1. /\ th[t].pc = "opened" /\ th[t].op = "mount" /\ th' = [th EXCEPT ![t].pc = "record"]
        /\ mount' = [mount EXCEPT ![th[t].target] = Root(th[t].vol)]
        /\ handles' = Renamed(WalkHandles(t), Mounted(th[t].vol))
        /\ UNCHANGED <<alive, locked, entries, records, windows, readers, writers>>
    BY <1>3, Zenon DEF set_mount_driver, Renamed, At
  <2>2. th[t].vol \in Volumes BY <1>0, <2>1, Zenon DEF ThreadOk
  <2>3. handles' \subseteq HandleSet BY <2>1, <2>2, RenamedType, OwnerFacts, Zenon DEF WalkHandles
  <2>4. mount' \in [Files -> Roots \cup {None}] BY <2>1, <2>2, Zenon DEF TypeInv, Roots
  <2>5. Moved(t, "record", th[t].dir, th[t].target, th[t].todo) BY <2>1, MovesOn, Zenon DEF PCs
  <2>6. ThreadOk(t)' BY <1>0, <2>1, <2>5, ZenonT(60) DEF ThreadOk, Moved, Walking, Fresh
  <2> QED BY <2>1, <2>3, <2>4, <2>5, <2>6, ThreadFrame, Zenon DEF Moved, TypeInv
<1>4. CASE record(t)
  <2>1. /\ th[t].pc = "record" /\ th' = [th EXCEPT ![t] = Idle]
        /\ records' = Append(records, [path |-> th[t].path, point |-> th[t].target, vol |-> th[t].vol])
        /\ UNCHANGED <<alive, mount, locked, entries, windows, readers, writers, handles>>
    BY <1>4, Zenon DEF record, At
  <2>2. [path |-> th[t].path, point |-> th[t].target, vol |-> th[t].vol] \in RecordSet
    BY <1>0, <2>1, Zenon DEF ThreadOk, ThreadStates, RecordSet
  <2>3. records' \in Seq(RecordSet) BY <2>1, <2>2 DEF TypeInv
  <2> QED BY <2>1, <2>3, BecomesIdle, Zenon DEF TypeInv
<1>5. CASE Failed(t)
  <2>1. th' \in [Threads -> ThreadStates] /\ ThreadInv' BY <1>5, BecomesIdle, Zenon DEF Failed
  <2>2. PICK gone : Release(gone, {}) BY <1>5, Zenon DEF Failed
  <2>3. readers' \in [Files -> Int] /\ writers' \in [Files -> Int] /\ handles' \subseteq HandleSet
    BY <2>2, ReleaseType, Zenon
  <2>4. alive' \subseteq Files /\ UNCHANGED <<mount, locked, entries, records>>
    BY <1>5, Zenon DEF Failed, TypeInv
  <2> QED BY <2>1, <2>3, <2>4, Zenon DEF TypeInv
<1> QED BY <1>1, <1>2, <1>3, <1>4, <1>5, Zenon

LEMMA BaseUnmount ==
  ASSUME TypeInv, ThreadInv, NEW t \in Threads,
         \/ unmount(t) \/ ClearMount(t) \/ Dangling(t)
         \/ EraseRecord(t) /\ HasLast(th[Shell].path)
  PROVE  TypeInv' /\ ThreadInv'
<1>0. th[t] \in ThreadStates /\ ThreadOk(t) BY Zenon DEF TypeInv, ThreadInv
<1>1. CASE unmount(t)
  <2>1. PICK i \in DOMAIN records :
          th' = [th EXCEPT ![t].pc = "clear", ![t].target = records[i].point, ![t].path = records[i].path]
    BY <1>1, Zenon DEF unmount
  <2>2. /\ th[t].pc = "idle" /\ t = Shell
        /\ UNCHANGED <<alive, mount, locked, entries, records, windows, readers, writers, handles>>
    BY <1>1, Zenon DEF unmount, At, tree
  <2> DEFINE g == records[i].point
             p == records[i].path
  <2>5. p \in Seq(STRING) /\ g \in Files BY RecordFacts, Zenon
  <2>6. th' = [th EXCEPT ![t].pc = "clear", ![t].target = g, ![t].path = p] BY <2>1, Zenon
  <2>7. g # None BY <2>5, FileFacts, Zenon
  <2> HIDE DEF g, p
  <2>8. th[t] = Idle BY <1>0, <2>2, Zenon DEF ThreadOk
  <2>9. th' \in [Threads -> ThreadStates] /\ \A u \in Threads \ {t} : th'[u] = th[u]
    BY <1>0, <2>5, <2>6, ZenonT(60) DEF TypeInv, ThreadStates, PCs
  <2>10. /\ th'[t].pc = "clear" /\ th'[t].target = g /\ th'[t].dir = None /\ th'[t].op = "open"
         /\ th'[t].vol = "none"
    BY <1>0, <2>6, <2>8, StateFacts, Zenon DEF TypeInv, ThreadStates
  <2>11. ThreadOk(t)' BY <2>2, <2>7, <2>10, Zenon DEF ThreadOk, Walking, Fresh
  <2> QED BY <2>2, <2>9, <2>11, ThreadFrame, Zenon DEF TypeInv
<1>2. CASE ClearMount(t)
  <2>1. /\ th[t].pc = "clear" /\ th' = [th EXCEPT ![t].pc = "erase"]
        /\ mount' = [mount EXCEPT ![th[t].target] = None]
        /\ UNCHANGED <<alive, locked, entries, records, readers, writers, handles>>
    BY <1>2, Zenon DEF ClearMount, At
  <2>2. Moved(t, "erase", th[t].dir, th[t].target, th[t].todo) BY <2>1, MovesOn, Zenon DEF PCs
  <2>3. ThreadOk(t)' BY <1>0, <2>1, <2>2, ZenonT(60) DEF ThreadOk, Moved, Walking, Fresh
  <2>4. mount' \in [Files -> Roots \cup {None}] BY <2>1, Zenon DEF TypeInv
  <2> QED BY <2>1, <2>2, <2>3, <2>4, ThreadFrame, Zenon DEF Moved, TypeInv
<1>3. CASE EraseRecord(t) /\ HasLast(th[Shell].path)
  <2>1. th[t].pc = "erase" /\ t = Shell BY <1>0, <1>3, Zenon DEF EraseRecord, At, ThreadOk
  <2> DEFINE i == LastRecord(th[t].path)
  <2>2. i \in DOMAIN records BY <1>3, <2>1, LastRecordFacts, Zenon DEF TypeInv
  <2>3. records' = Without(records, i) /\ th' = [th EXCEPT ![t] = Idle] BY <1>3, Zenon DEF EraseRecord
  <2> HIDE DEF i
  <2>4. records' \in Seq(RecordSet) BY <2>2, <2>3, WithoutFacts, Zenon DEF TypeInv
  <2>5. PICK gone, more : Release(gone, more) BY <1>3, Zenon DEF EraseRecord
  <2>6. readers' \in [Files -> Int] /\ writers' \in [Files -> Int] /\ handles' \subseteq HandleSet
    BY <2>5, ReleaseType, Zenon
  <2>7. th' \in [Threads -> ThreadStates] /\ ThreadInv' BY <2>3, BecomesIdle, Zenon
  <2>8. alive' \subseteq Files /\ UNCHANGED <<mount, locked, entries>> BY <1>3, Zenon DEF EraseRecord, TypeInv
  <2> QED BY <2>4, <2>6, <2>7, <2>8, Zenon DEF TypeInv
<1>4. CASE Dangling(t)
  BY <1>4, ZenonT(60) DEF Dangling, TypeInv, ThreadInv, ThreadOk, Fresh
<1> QED BY <1>1, <1>2, <1>3, <1>4, Zenon

-----------------------------------------------------------------------------
(* What a call leaves behind.                                              *)

\* The handles an open holds are on the directory it is in and, until that is
\* closed, on the file it has opened there.
WalkOk(t) ==
  \A h \in handles : h.of = Walk(t) =>
    /\ th[t].pc \in Walking \cup {"opened"}
    /\ h.fop = th[t].dir \/ (th[t].pc = "leave" /\ h.fop = th[t].target)

WalkInv == \A t \in Threads : WalkOk(t)

\* A handle of a volume is closed with the record of its mount, or by the shell,
\* which is about to add that record.
RecordHas(h) ==
  \E i \in DOMAIN records :
    records[i].vol = h.of.who /\ (h.of.who \notin FatVolumes => records[i].point = h.fop)

ShellHas(h) ==
  /\ th[Shell].op = "mount" /\ th[Shell].vol = h.of.who
  /\ h.of.who \notin FatVolumes => th[Shell].pc = "record" /\ th[Shell].target = h.fop

VolumeInv ==
  /\ \A h \in handles : h.of.as = "volume" => RecordHas(h) \/ ShellHas(h)
  /\ th[Shell].pc \in {"clear", "erase"} => HasLast(th[Shell].path)

LeakInv == WalkInv /\ VolumeInv

LEMMA WalkFrame ==
  ASSUME WalkInv, NEW t \in Threads, WalkOk(t)',
         \A u \in Threads \ {t} : th'[u] = th[u],
         \A h \in handles', u \in Threads \ {t} : h.of = Walk(u) => h \in handles
  PROVE  WalkInv'
<1>1. ASSUME NEW u \in Threads \ {t} PROVE WalkOk(u)'
  BY <1>1, ZenonT(60) DEF WalkInv, WalkOk
<1> QED BY <1>1, Zenon DEF WalkInv

LEMMA VolumeFrame ==
  ASSUME VolumeInv, UNCHANGED records,
         \A h \in handles' : h.of.as = "volume" => h \in handles,
         \A h \in handles : ShellHas(h) => ShellHas(h)',
         th'[Shell].pc \in {"clear", "erase"} =>
           th[Shell].pc \in {"clear", "erase"} /\ th'[Shell].path = th[Shell].path
  PROVE  VolumeInv'
<1>1. ASSUME NEW h \in handles', h.of.as = "volume" PROVE RecordHas(h)' \/ ShellHas(h)'
  BY <1>1, Zenon DEF VolumeInv, RecordHas
<1>2. \A p : HasLast(p) => HasLast(p)' BY Zenon DEF HasLast, IsLast
<1> QED BY <1>1, <1>2, Zenon DEF VolumeInv

\* A thread that is not the shell, or a shell that is not mounting, changes
\* nothing about the volumes' handles.
LEMMA VolumeOther ==
  ASSUME VolumeInv, NEW t \in Threads, UNCHANGED records,
         \A u \in Threads \ {t} : th'[u] = th[u],
         t = Shell => th[t].op # "mount" /\ th'[t].pc \notin {"clear", "erase"},
         \A h \in handles' : h.of.as = "volume" => h \in handles
  PROVE  VolumeInv'
<1>1. Shell \in Threads BY ConstantsAssumption, Zenon
<1>2. CASE t = Shell
  BY <1>2, VolumeFrame, Zenon DEF ShellHas
<1>3. CASE t # Shell
  <2>1. th'[Shell] = th[Shell] BY <1>1, <1>3, Zenon
  <2> QED BY <2>1, VolumeFrame, Zenon DEF ShellHas
<1> QED BY <1>2, <1>3, Zenon

LEMMA VolumeMoves ==
  ASSUME VolumeInv, NEW t \in Threads, UNCHANGED records, NEW pc, NEW dir, NEW target, NEW todo,
         Moved(t, pc, dir, target, todo), th[t].pc # "record", pc \notin {"clear", "erase"},
         \A h \in handles' : h.of.as = "volume" => h \in handles
  PROVE  VolumeInv'
<1>1. Shell \in Threads BY ConstantsAssumption, Zenon
<1>2. CASE t = Shell
  BY <1>2, VolumeFrame, Zenon DEF ShellHas, Moved
<1>3. CASE t # Shell
  <2>1. th'[Shell] = th[Shell] BY <1>1, <1>3, Zenon DEF Moved
  <2> QED BY <2>1, VolumeFrame, Zenon DEF ShellHas
<1> QED BY <1>2, <1>3, Zenon

\* A thread begins to open a file.
LEMMA LeakOpening ==
  ASSUME TypeInv, ThreadInv, LeakInv, NEW t \in Threads, NEW o, th' = [th EXCEPT ![t] = o],
         th[t].pc = "idle", o.pc = "follow", UNCHANGED <<handles, records>>
  PROVE  LeakInv'
<1>1. th'[t] = o /\ \A u \in Threads \ {t} : th'[u] = th[u] BY Zenon DEF TypeInv
<1>2. th[t].op # "mount" BY StateFacts, Zenon DEF ThreadInv, ThreadOk
<1>3. WalkOk(t)' BY Zenon DEF LeakInv, WalkInv, WalkOk, Walking
<1>4. WalkInv' BY <1>1, <1>3, WalkFrame, Zenon DEF LeakInv
<1>5. VolumeInv' BY <1>1, <1>2, VolumeOther, Zenon DEF LeakInv
<1> QED BY <1>4, <1>5, Zenon DEF LeakInv

\* A thread that has none of its own handles left returns.
LEMMA LeakIdle ==
  ASSUME TypeInv, ThreadInv, LeakInv, NEW t \in Threads, th' = [th EXCEPT ![t] = Idle],
         t = Shell => th[t].op # "mount", UNCHANGED records,
         \A h \in handles' : h.of # Walk(t) /\ (h \notin handles => h.of = User(t))
  PROVE  LeakInv'
<1>1. th'[t] = Idle /\ \A u \in Threads \ {t} : th'[u] = th[u] BY Zenon DEF TypeInv
<1>2. WalkOk(t)' BY Zenon DEF WalkOk
<1>3. WalkInv' BY <1>1, <1>2, WalkFrame, OwnerFacts, Zenon DEF LeakInv
<1>4. VolumeInv' BY <1>1, VolumeOther, OwnerFacts, StateFacts, Zenon DEF LeakInv
<1> QED BY <1>3, <1>4, Zenon DEF LeakInv

LEMMA LeakWalk ==
  ASSUME TypeInv, ThreadInv, LeakInv, NEW t \in Threads,
         follow_mountpoints(t) \/ prepare_fop(t) \/ TryOpen(t) \/ append_child(t) \/ Leave(t)
  PROVE  LeakInv'
<1>0. th[t] \in ThreadStates /\ ThreadOk(t) /\ WalkOk(t) BY Zenon DEF TypeInv, ThreadInv, LeakInv, WalkInv
<1>1. CASE follow_mountpoints(t)
  <2>1. th[t].pc = "follow" /\ th[t].target \in Files
    BY <1>0, <1>1, FileFacts, Zenon DEF follow_mountpoints, At, ThreadOk, ThreadStates
  <2>2. UNCHANGED <<handles, records>> BY <1>1, Zenon DEF follow_mountpoints, tree
  <2>3. PICK pc \in {"follow", "try"}, g \in Files \cup {None} : Moved(t, pc, th[t].dir, g, th[t].todo)
    <3>1. CASE mount[th[t].target] # None
      <4>1. mount[th[t].target] \in Files BY <2>1, <3>1, FileFacts DEF TypeInv, Roots
      <4> DEFINE g == mount[th[t].target]
      <4>2. th' = [th EXCEPT ![t].target = g] BY <1>1, <3>1, Zenon DEF follow_mountpoints
      <4> HIDE DEF g
      <4>3. Moved(t, "follow", th[t].dir, g, th[t].todo)
        BY <1>0, <2>1, <4>1, <4>2, Zenon DEF Moved, TypeInv, ThreadStates, g
      <4> QED BY <4>1, <4>3, Zenon DEF g
    <3>2. CASE mount[th[t].target] = None
      <4>1. th' = [th EXCEPT ![t].pc = "try"] BY <1>1, <3>2, Zenon DEF follow_mountpoints
      <4> QED BY <2>1, <4>1, MovesOn, Zenon DEF PCs
    <3> QED BY <3>1, <3>2, Zenon
  <2>4. WalkOk(t)' BY <1>0, <2>1, <2>2, <2>3, Zenon DEF WalkOk, Moved, Walking
  <2>5. WalkInv' BY <2>2, <2>3, <2>4, WalkFrame, Zenon DEF LeakInv, Moved
  <2>6. VolumeInv' BY <2>1, <2>2, <2>3, VolumeMoves, Zenon DEF LeakInv
  <2> QED BY <2>5, <2>6, Zenon DEF LeakInv
<1>2. CASE prepare_fop(t)
  <2>1. th[t].pc = "find" /\ UNCHANGED <<handles, records>> BY <1>2, Zenon DEF prepare_fop, At
  <2>2. /\ th[t].dir \in Files /\ Head(th[t].todo) \in STRING
    BY <1>0, <2>1 DEF ThreadOk, ThreadStates, Walking
  <2>3. PICK pc \in {"follow", "new", "leave"}, g \in Files \cup {None} : th' = [th EXCEPT ![t].pc = pc, ![t].target = g]
    <3> DEFINE c == Child(th[t].dir, Head(th[t].todo))
    <3>1. \/ c \in alive /\ th' = [th EXCEPT ![t].pc = "follow", ![t].target = c]
          \/ find(th[t].dir, Head(th[t].todo)) /\ th' = [th EXCEPT ![t].pc = "new", ![t].target = c]
          \/ th' = [th EXCEPT ![t].pc = "leave", ![t].target = None]
      BY <1>2, Zenon DEF prepare_fop
    <3>2. find(th[t].dir, Head(th[t].todo)) => c \in Files BY <2>2, FoundIsFile, Zenon
    <3>3. c \in alive => c \in Files BY Zenon DEF TypeInv
    <3> HIDE DEF c
    <3> QED BY <3>1, <3>2, <3>3, Zenon
  <2>4. Moved(t, pc, th[t].dir, g, th[t].todo) BY <2>3, Moves, Zenon DEF PCs
  <2>5. WalkOk(t)' BY <1>0, <2>1, <2>3, <2>4, Zenon DEF WalkOk, Moved, Walking
  <2>6. WalkInv' BY <2>1, <2>4, <2>5, WalkFrame, Zenon DEF LeakInv, Moved
  <2>7. VolumeInv' BY <2>1, <2>3, <2>4, VolumeMoves, Zenon DEF LeakInv
  <2> QED BY <2>6, <2>7, Zenon DEF LeakInv
<1>3. CASE TryOpen(t)
  <2> DEFINE h == Handle(th[t].target, StepMode(t), Walk(t))
  <2>1. th[t].pc \in {"try", "new"} /\ UNCHANGED records BY <1>3, Zenon DEF TryOpen, At
  <2>2. h.of = Walk(t) /\ h.fop = th[t].target BY Zenon DEF Handle
  <2>3. \/ th' = [th EXCEPT ![t].pc = "leave"] /\ handles' = handles \cup {h}
        \/ th' = [th EXCEPT ![t].pc = "append"] /\ handles' = handles
        \/ th' = [th EXCEPT ![t].pc = "leave", ![t].target = None] /\ handles' = handles
    BY <1>3, Zenon DEF TryOpen, Acquire
  <2> HIDE DEF h
  <2>4. PICK pc \in {"leave", "append"}, g \in {th[t].target, None} :
          /\ Moved(t, pc, th[t].dir, g, th[t].todo)
          /\ handles' = handles \/ (pc = "leave" /\ g = th[t].target /\ handles' = handles \cup {h})
    <3>1. CASE th' = [th EXCEPT ![t].pc = "leave"] /\ handles' = handles \cup {h}
      BY <3>1, MovesOn, Zenon DEF PCs
    <3>2. CASE th' = [th EXCEPT ![t].pc = "append"] /\ handles' = handles
      BY <3>2, MovesOn, Zenon DEF PCs
    <3>3. CASE th' = [th EXCEPT ![t].pc = "leave", ![t].target = None] /\ handles' = handles
      BY <3>3, Moves, Zenon DEF PCs
    <3> QED BY <2>3, <3>1, <3>2, <3>3, Zenon
  <2>5. WalkOk(t)' BY <1>0, <2>1, <2>2, <2>4, ZenonT(60) DEF WalkOk, Moved, Walking
  <2>6. WalkInv' BY <2>2, <2>4, <2>5, WalkFrame, OwnerFacts DEF LeakInv, Moved
  <2>7. VolumeInv' BY <2>1, <2>2, <2>4, VolumeMoves, OwnerFacts, Zenon DEF LeakInv
  <2> QED BY <2>6, <2>7, Zenon DEF LeakInv
<1>4. CASE append_child(t)
  <2> DEFINE h == Handle(th[t].target, StepMode(t), Walk(t))
  <2>1. th[t].pc = "append" /\ UNCHANGED records /\ th' = [th EXCEPT ![t].pc = "leave"] /\ handles' = handles \cup {h}
    BY <1>4, Zenon DEF append_child, At, Acquire
  <2>2. h.of = Walk(t) /\ h.fop = th[t].target BY Zenon DEF Handle
  <2> HIDE DEF h
  <2>3. Moved(t, "leave", th[t].dir, th[t].target, th[t].todo) BY <2>1, MovesOn, Zenon DEF PCs
  <2>4. WalkOk(t)' BY <1>0, <2>1, <2>2, <2>3, Zenon DEF WalkOk, Moved, Walking
  <2>5. WalkInv' BY <2>1, <2>2, <2>3, <2>4, WalkFrame, OwnerFacts, SMTT(30) DEF LeakInv, Moved
  <2>6. VolumeInv' BY <2>1, <2>2, <2>3, VolumeMoves, OwnerFacts DEF LeakInv
  <2> QED BY <2>5, <2>6, Zenon DEF LeakInv
<1>5. CASE Leave(t)
  <2> DEFINE todo == IF th[t].dir = None THEN th[t].todo ELSE Tail(th[t].todo)
             pc == IF th[t].target = None THEN "failed" ELSE IF todo = <<>> THEN "opened" ELSE "find"
  <2>1. /\ th[t].pc = "leave" /\ th' = [th EXCEPT ![t].pc = pc, ![t].todo = todo, ![t].dir = th[t].target]
        /\ UNCHANGED records /\ handles' = handles \ LeftHandles(t)
    BY <1>5, Zenon DEF Leave, At, Release
  <2>2. pc \in {"failed", "opened", "find"} /\ (pc = "failed" <=> th[t].target = None)
    BY Zenon
  <2>3. ThreadInv' /\ TypeInv' BY <1>5, BaseWalk, Zenon
  <2> HIDE DEF todo, pc
  <2>4. Moved(t, pc, th[t].target, th[t].target, todo)
    BY <2>1, <2>3, StepsInto, Zenon
  <2>5. WalkOk(t)'
    <3> SUFFICES ASSUME NEW h \in handles', h.of = Walk(t)
                 PROVE  pc \in Walking \cup {"opened"} /\ h.fop = th[t].target
      BY <2>4, Zenon DEF WalkOk, Moved
    <3>1. h \in handles /\ h.fop # th[t].dir BY <2>1, Zenon DEF LeftHandles, WalkHandles
    <3>2. h.fop = th[t].target BY <1>0, <3>1, Zenon DEF WalkOk
    <3>3. h.fop \in Files BY <3>1, Zenon DEF TypeInv, HandleSet
    <3> QED BY <2>2, <3>2, <3>3, FileFacts, Zenon DEF Walking
  <2>6. WalkInv' BY <2>1, <2>4, <2>5, WalkFrame, Zenon DEF LeakInv, Moved
  <2>7. VolumeInv' BY <2>1, <2>2, <2>4, VolumeMoves, Zenon DEF LeakInv
  <2> QED BY <2>6, <2>7, Zenon DEF LeakInv
<1> QED BY <1>1, <1>2, <1>3, <1>4, <1>5, Zenon

LEMMA LeakCalls ==
  ASSUME TypeInv, ThreadInv, LeakInv, NEW t \in Threads,
         \/ open(t) \/ Opened(t) \/ close(t) \/ create(t) \/ remove(t) \/ create_device_file(t)
         \/ create_device(t) \/ mount_volume(t) \/ Dangling(t)
  PROVE  LeakInv'
<1>1. CASE open(t)
  <2>1. PICK p \in Paths, m \in Modes : th' = [th EXCEPT ![t] = Opening("open", p, m, "none", <<>>)]
    BY <1>1, Zenon DEF open
  <2> DEFINE o == Opening("open", p, m, "none", <<>>)
  <2>2. o.pc = "follow" BY OpeningFields
  <2>3. th' = [th EXCEPT ![t] = o] BY <2>1, Zenon
  <2> HIDE DEF o
  <2> QED BY <1>1, <2>2, <2>3, LeakOpening, Zenon DEF open, At, tree
<1>2. CASE create_device_file(t)
  <2>1. PICK n \in Devices :
          th' = [th EXCEPT ![t] = [Opening("device", <<"dev">>, open_rw, "none", <<>>) EXCEPT !.name = n]]
    BY <1>2, Zenon DEF create_device_file
  <2> DEFINE o == [Opening("device", <<"dev">>, open_rw, "none", <<>>) EXCEPT !.name = n]
  <2>2. o.pc = "follow" BY Zenon DEF Opening, Idle
  <2>3. th' = [th EXCEPT ![t] = o] BY <2>1, Zenon
  <2> HIDE DEF o
  <2> QED BY <1>2, <2>2, <2>3, LeakOpening, Zenon DEF create_device_file, At, tree
<1>3. CASE mount_volume(t)
  <2>1. PICK p, v :
          \/ th' = [th EXCEPT ![t] = Opening("mount", p, open_rw, v, p)]
          \/ th' = [th EXCEPT ![t] = Opening("probe", DiskPath, open_rw, v, p)]
    BY <1>3, Zenon DEF mount_volume, NewVolume
  <2>2. PICK o : th' = [th EXCEPT ![t] = o] /\ o.pc = "follow"
    BY <2>1, OpeningFields
  <2> QED BY <1>3, <2>2, LeakOpening, Zenon DEF mount_volume, At
<1>4. CASE Opened(t)
  <2>1. /\ th[t].op = "open" /\ th' = [th EXCEPT ![t] = Idle] /\ UNCHANGED records
        /\ handles' = Renamed(WalkHandles(t), User(t))
    BY <1>4, Zenon DEF Opened, tree, Renamed
  <2>2. \A h \in handles' : h.of # Walk(t) /\ (h \notin handles => h.of = User(t))
    BY <2>1, OwnerFacts, ZenonT(60) DEF Renamed, WalkHandles, TypeInv, HandleSet
  <2> QED BY <2>1, <2>2, LeakIdle, Zenon
<1>5. CASE create_device(t)
  <2>1. /\ th[t].op = "device" /\ th' = [th EXCEPT ![t] = Idle] /\ UNCHANGED records
        /\ handles' = handles \ WalkHandles(t)
    BY <1>5, Zenon DEF create_device, Release
  <2>2. \A h \in handles' : h.of # Walk(t) /\ h \in handles
    BY <2>1, Zenon DEF WalkHandles
  <2> QED BY <2>1, <2>2, LeakIdle, Zenon
<1>6. CASE close(t) \/ create(t) \/ remove(t) \/ Dangling(t)
  <2>1. UNCHANGED <<records, th>> /\ handles' \subseteq handles
    BY <1>6, Zenon DEF close, create, remove, Dangling, Release
  <2> QED BY <2>1, ZenonT(60) DEF LeakInv, WalkInv, WalkOk, VolumeInv, RecordHas, ShellHas, HasLast, IsLast
<1> QED BY <1>1, <1>2, <1>3, <1>4, <1>5, <1>6, Zenon

LEMMA LeakMount ==
  ASSUME TypeInv, ThreadInv, LeakInv, NEW t \in Threads,
         create_fat_driver(t) \/ set_mount_driver(t) \/ record(t) \/ Failed(t)
  PROVE  LeakInv'
<1>0. th[t] \in ThreadStates /\ ThreadOk(t) /\ WalkOk(t) BY Zenon DEF TypeInv, ThreadInv, LeakInv, WalkInv
<1>1. CASE create_fat_driver(t)
  <2>1. /\ th[t].op = "probe" /\ UNCHANGED records
        /\ \/ /\ th' = [th EXCEPT ![t] = Opening("mount", th[t].path, open_rw, th[t].vol, th[t].path)]
              /\ handles' = Renamed(WalkHandles(t), Mounted(th[t].vol))
           \/ /\ th' = [th EXCEPT ![t] = Idle]
              /\ handles' = handles \ WalkHandles(t)
    BY <1>1, Zenon DEF create_fat_driver, Renamed, NewVolume, Release
  <2>2. t = Shell /\ th[t].vol \in FatVolumes BY <1>0, <2>1, Zenon DEF ThreadOk
  <2>3. CASE /\ th' = [th EXCEPT ![t] = Opening("mount", th[t].path, open_rw, th[t].vol, th[t].path)]
             /\ handles' = Renamed(WalkHandles(t), Mounted(th[t].vol))
    <3> DEFINE o == Opening("mount", th[t].path, open_rw, th[t].vol, th[t].path)
    <3>1. o.pc = "follow" /\ o.op = "mount" /\ o.vol = th[t].vol BY OpeningFields
    <3>2. th' = [th EXCEPT ![t] = o] BY <2>3, Zenon
    <3> HIDE DEF o
    <3>3. th'[t] = o /\ \A u \in Threads \ {t} : th'[u] = th[u] BY <3>2, Zenon DEF TypeInv
    <3>4. \A h \in handles' : h.of # Walk(t) /\ (h \notin handles => h.of = Mounted(th[t].vol))
      BY <2>3, OwnerFacts DEF Renamed, WalkHandles, TypeInv, HandleSet
    <3>5. WalkOk(t)' BY <3>4, Zenon DEF WalkOk
    <3>6. WalkInv' BY <3>3, <3>4, <3>5, WalkFrame, OwnerFacts DEF LeakInv
    <3>7. ASSUME NEW h \in handles', h.of.as = "volume" PROVE RecordHas(h)' \/ ShellHas(h)'
      <4>1. CASE h \in handles
        <5>1. ~ShellHas(h) BY <2>1, <2>2, Zenon DEF ShellHas
        <5> QED BY <2>1, <3>7, <4>1, <5>1, Zenon DEF LeakInv, VolumeInv, RecordHas
      <4>2. CASE h \notin handles
        <5>1. h.of.who = th[t].vol BY <3>4, <4>2, OwnerFacts, Zenon
        <5> QED BY <2>2, <3>1, <3>3, <5>1, Zenon DEF ShellHas
      <4> QED BY <4>1, <4>2, Zenon
    <3>8. VolumeInv' BY <2>2, <3>1, <3>3, <3>7, Zenon DEF VolumeInv
    <3> QED BY <3>6, <3>8, Zenon DEF LeakInv
  <2>4. CASE /\ th' = [th EXCEPT ![t] = Idle]
             /\ handles' = handles \ WalkHandles(t)
    <3>1. \A h \in handles' : h.of # Walk(t) /\ h \in handles
      BY <2>4, Zenon DEF WalkHandles
    <3> QED BY <2>1, <2>4, <3>1, LeakIdle, Zenon
  <2> QED BY <2>1, <2>3, <2>4, Zenon
<1>2. CASE set_mount_driver(t)
  <2>1. /\ th[t].pc = "opened" /\ th[t].op = "mount" /\ UNCHANGED records /\ th' = [th EXCEPT ![t].pc = "record"]
        /\ handles' = Renamed(WalkHandles(t), Mounted(th[t].vol))
    BY <1>2, Zenon DEF set_mount_driver, At, Renamed
  <2>2. t = Shell BY <1>0, <2>1, Zenon DEF ThreadOk
  <2>3. Moved(t, "record", th[t].dir, th[t].target, th[t].todo) BY <2>1, MovesOn, Zenon DEF PCs
  <2>4. \A h \in handles' : h.of # Walk(t) /\ (h \notin handles => h.of = Mounted(th[t].vol) /\ h.fop = th[t].target)
    <3> SUFFICES ASSUME NEW h \in handles'
                 PROVE  h.of # Walk(t) /\ (h \notin handles => h.of = Mounted(th[t].vol) /\ h.fop = th[t].target)
      BY Zenon
    <3>1. CASE h \in handles \ WalkHandles(t) BY <3>1, Zenon DEF WalkHandles
    <3>2. CASE h \notin handles \ WalkHandles(t)
      <4>1. PICK g \in WalkHandles(t) : h = [g EXCEPT !.of = Mounted(th[t].vol)] BY <2>1, <3>2, Zenon DEF Renamed
      <4>2. g \in HandleSet BY Zenon DEF WalkHandles, TypeInv
      <4>3. h.of = Mounted(th[t].vol) /\ h.fop = g.fop BY <4>1, <4>2, Zenon DEF HandleSet
      <4>4. g.fop = th[t].dir /\ th[t].dir = th[t].target BY <1>0, <2>1, Zenon DEF WalkOk, WalkHandles, ThreadOk
      <4> QED BY <4>3, <4>4, OwnerFacts, Zenon
    <3> QED BY <3>1, <3>2, Zenon
  <2>5. WalkOk(t)' BY <2>4, Zenon DEF WalkOk
  <2>6. WalkInv' BY <2>3, <2>4, <2>5, WalkFrame, OwnerFacts, ZenonT(60) DEF LeakInv, Moved
  <2>7. ASSUME NEW h \in handles', h.of.as = "volume" PROVE RecordHas(h)' \/ ShellHas(h)'
    <3>1. CASE h \in handles
      BY <2>1, <2>2, <2>3, <2>7, <3>1 DEF LeakInv, VolumeInv, RecordHas, ShellHas, Moved
    <3>2. CASE h \notin handles
      <4>1. h.of.who = th[t].vol /\ h.fop = th[t].target BY <2>4, <3>2, OwnerFacts, Zenon
      <4> QED BY <2>1, <2>2, <2>3, <4>1, ZenonT(60) DEF ShellHas, Moved
    <3> QED BY <3>1, <3>2, Zenon
  <2>8. VolumeInv' BY <2>2, <2>3, <2>7, Zenon DEF VolumeInv, Moved
  <2> QED BY <2>6, <2>8, Zenon DEF LeakInv
<1>3. CASE record(t)
  <2> DEFINE r == [path |-> th[t].path, point |-> th[t].target, vol |-> th[t].vol]
  <2>1. /\ th[t].pc = "record" /\ th' = [th EXCEPT ![t] = Idle]
        /\ records' = Append(records, r) /\ UNCHANGED handles
    BY <1>3, Zenon DEF record, At
  <2>2. t = Shell /\ th[t].op = "mount" BY <1>0, <2>1, Zenon DEF ThreadOk
  <2>3. th'[t] = Idle /\ \A u \in Threads \ {t} : th'[u] = th[u] BY <2>1, Zenon DEF TypeInv
  <2>4. r.point = th[t].target /\ r.vol = th[t].vol BY Zenon
  <2>5. r \in RecordSet BY <1>0, <2>1, ZenonT(60) DEF ThreadOk, ThreadStates, RecordSet
  <2> HIDE DEF r
  <2>6. /\ DOMAIN records' = 1..(Len(records) + 1) /\ DOMAIN records = 1..Len(records) /\ Len(records) \in Nat
        /\ \A i \in DOMAIN records : records'[i] = records[i]
        /\ records'[Len(records) + 1] = r
    BY <2>1, <2>5, AppendFacts DEF TypeInv
  <2>7. WalkOk(t)' BY <1>0, <2>1, Zenon DEF WalkOk, Walking
  <2>8. WalkInv' BY <2>1, <2>3, <2>7, WalkFrame, Zenon DEF LeakInv
  <2>9. ASSUME NEW h \in handles', h.of.as = "volume" PROVE RecordHas(h)'
    <3>1. CASE RecordHas(h)
      <4>1. PICK i \in DOMAIN records :
              records[i].vol = h.of.who /\ (h.of.who \notin FatVolumes => records[i].point = h.fop)
        BY <3>1, Zenon DEF RecordHas
      <4>2. i \in DOMAIN records' /\ records'[i] = records[i] BY <2>6
      <4> QED BY <4>1, <4>2, Zenon DEF RecordHas
    <3>2. CASE ShellHas(h)
      <4>1. Len(records) + 1 \in DOMAIN records' BY <2>6
      <4> QED BY <2>2, <2>4, <2>6, <3>2, <4>1, Zenon DEF RecordHas, ShellHas
    <3> QED BY <2>1, <2>9, <3>1, <3>2, Zenon DEF LeakInv, VolumeInv
  <2>10. VolumeInv' BY <2>2, <2>3, <2>9, StateFacts, Zenon DEF VolumeInv
  <2> QED BY <2>8, <2>10, Zenon DEF LeakInv
<1>4. CASE Failed(t)
  <2> DEFINE vol == IF th[t].op = "mount" THEN th[t].vol ELSE "none"
  <2>1. /\ th[t].pc = "failed" /\ th' = [th EXCEPT ![t] = Idle] /\ UNCHANGED records
        /\ handles' = handles \ {h \in handles : h.of = Mounted(vol) /\ vol \in FatVolumes}
    BY <1>4, Zenon DEF Failed, At, Release
  <2>2. th'[t] = Idle /\ \A u \in Threads \ {t} : th'[u] = th[u] BY <2>1, Zenon DEF TypeInv
  <2>3. WalkOk(t)' BY <1>0, <2>1, Zenon DEF WalkOk, Walking
  <2>4. WalkInv' BY <2>1, <2>2, <2>3, WalkFrame, Zenon DEF LeakInv
  <2>5. CASE t = Shell
    <3>1. ASSUME NEW h \in handles', h.of.as = "volume" PROVE RecordHas(h)'
      <4>1. h \in handles /\ ~(h.of = Mounted(vol) /\ vol \in FatVolumes) BY <2>1, Zenon
      <4>2. ~ShellHas(h)
        <5> SUFFICES ASSUME ShellHas(h) PROVE FALSE BY Zenon
        <5>1. vol = h.of.who /\ vol \in FatVolumes BY <2>1, <2>5, Zenon DEF ShellHas
        <5>2. h.of \in Owners BY <4>1, Zenon DEF TypeInv, HandleSet
        <5>3. h.of = Mounted(h.of.who) BY <3>1, <5>2, Zenon DEF Owners, Mounted
        <5> QED BY <4>1, <5>1, <5>3, Zenon
      <4> QED BY <2>1, <3>1, <4>1, <4>2, Zenon DEF LeakInv, VolumeInv, RecordHas
    <3>2. VolumeInv' BY <2>2, <2>5, <3>1, StateFacts, Zenon DEF VolumeInv
    <3> QED BY <2>4, <3>2, Zenon DEF LeakInv
  <2>6. CASE t # Shell
    <3>1. VolumeInv' BY <2>1, <2>2, <2>6, VolumeOther, Zenon DEF LeakInv
    <3> QED BY <2>4, <3>1, Zenon DEF LeakInv
  <2> QED BY <2>5, <2>6, Zenon
<1> QED BY <1>1, <1>2, <1>3, <1>4, Zenon

LEMMA LeakUnmount ==
  ASSUME TypeInv, ThreadInv, LeakInv, NEW t \in Threads,
         unmount(t) \/ ClearMount(t) \/ EraseRecord(t)
  PROVE  LeakInv'
<1>0. th[t] \in ThreadStates /\ ThreadOk(t) /\ WalkOk(t) BY Zenon DEF TypeInv, ThreadInv, LeakInv, WalkInv
<1>1. CASE unmount(t)
  <2>1. PICK i \in DOMAIN records :
          /\ IsLast(i)
          /\ th' = [th EXCEPT ![t].pc = "clear", ![t].target = records[i].point, ![t].path = records[i].path]
    BY <1>1, Zenon DEF unmount
  <2>2. th[t].pc = "idle" /\ t = Shell /\ UNCHANGED <<records, handles>> BY <1>1, Zenon DEF unmount, At, tree
  <2>3. th'[t].path = records[i].path /\ \A u \in Threads \ {t} : th'[u] = th[u]
    BY <1>0, <2>1, Zenon DEF TypeInv, ThreadStates
  <2>4. WalkOk(t)' BY <1>0, <2>2, Zenon DEF WalkOk, Walking
  <2>5. WalkInv' BY <2>2, <2>3, <2>4, WalkFrame, Zenon DEF LeakInv
  <2>6. th[t].op # "mount" BY <1>0, <2>2, StateFacts, Zenon DEF ThreadOk
  <2>7. \A h \in handles' : h.of.as = "volume" => RecordHas(h)'
    BY <2>2, <2>6, Zenon DEF LeakInv, VolumeInv, ShellHas, RecordHas
  <2>8. HasLast(th[Shell].path)' BY <2>1, <2>2, <2>3, Zenon DEF HasLast, IsLast
  <2>9. VolumeInv' BY <2>7, <2>8, Zenon DEF VolumeInv
  <2> QED BY <2>5, <2>9, Zenon DEF LeakInv
<1>2. CASE ClearMount(t)
  <2>1. th[t].pc = "clear" /\ th' = [th EXCEPT ![t].pc = "erase"] /\ UNCHANGED <<records, handles>>
    BY <1>2, Zenon DEF ClearMount, At
  <2>2. Moved(t, "erase", th[t].dir, th[t].target, th[t].todo) BY <2>1, MovesOn, Zenon DEF PCs
  <2>3. WalkOk(t)' BY <1>0, <2>1, Zenon DEF WalkOk, Walking
  <2>4. WalkInv' BY <2>1, <2>2, <2>3, WalkFrame, Zenon DEF LeakInv, Moved
  <2>5. t = Shell BY <1>0, <2>1, Zenon DEF ThreadOk
  <2>6. VolumeInv' BY <2>1, <2>2, <2>5, VolumeFrame, Zenon DEF LeakInv, ShellHas, Moved
  <2> QED BY <2>4, <2>6, Zenon DEF LeakInv
<1>3. CASE EraseRecord(t)
  <2> DEFINE i == LastRecord(th[t].path)
             vol == records[i].vol
             point == records[i].point
  <2>1. /\ th[t].pc = "erase" /\ th' = [th EXCEPT ![t] = Idle] /\ records' = Without(records, i)
        /\ handles' = handles \ {h \in handles : h.of = Mounted(vol) /\ (h.fop = point \/ vol \in FatVolumes)}
    BY <1>3, Zenon DEF EraseRecord, At, Release
  <2>2. t = Shell /\ th[t].op = "open" BY <1>0, <2>1, Zenon DEF ThreadOk
  <2>3. i \in DOMAIN records BY <2>1, <2>2, LastRecordFacts, Zenon DEF TypeInv, LeakInv, VolumeInv
  <2> HIDE DEF i
  <2>4. /\ DOMAIN records = 1..Len(records) /\ Len(records) \in Nat /\ DOMAIN records' = 1..(Len(records) - 1)
        /\ \A k \in 1..(Len(records) - 1) : records'[k] = IF k < i THEN records[k] ELSE records[k + 1]
    <3>1. records \in Seq(RecordSet) BY Zenon DEF TypeInv
    <3>2. records' \in Seq(RecordSet) /\ Len(records') = Len(records) - 1
      BY <2>1, <2>3, <3>1, WithoutFacts, Zenon
    <3>3. \A k \in 1..(Len(records) - 1) : Without(records, i)[k] = IF k < i THEN records[k] ELSE records[k + 1]
      BY <2>3, <3>1, WithoutFacts, Zenon
    <3>4. \A k \in 1..(Len(records) - 1) : records'[k] = IF k < i THEN records[k] ELSE records[k + 1]
      BY <2>1, <3>3, Zenon
    <3>5. DOMAIN records = 1..Len(records) /\ Len(records) \in Nat BY <3>1
    <3>6. DOMAIN records' = 1..(Len(records) - 1) BY <3>2
    <3> QED BY <3>4, <3>5, <3>6, Zenon
  <2>5. th'[t] = Idle /\ \A u \in Threads \ {t} : th'[u] = th[u] BY <2>1, Zenon DEF TypeInv
  <2>6. WalkOk(t)' BY <1>0, <2>1, Zenon DEF WalkOk, Walking
  <2>7. WalkInv' BY <2>1, <2>5, <2>6, WalkFrame, Zenon DEF LeakInv
  <2>8. ASSUME NEW h \in handles', h.of.as = "volume" PROVE RecordHas(h)'
    <3>1. h \in handles /\ ~(h.of = Mounted(vol) /\ (h.fop = point \/ vol \in FatVolumes)) BY <2>1, Zenon
    <3>2. h.of = Mounted(h.of.who)
      <4>1. h.of \in Owners BY <3>1, Zenon DEF TypeInv, HandleSet
      <4> QED BY <2>8, <4>1, Zenon DEF Owners, Mounted
    <3>3. ~ShellHas(h) BY <2>2, Zenon DEF ShellHas
    <3>4. PICK j \in DOMAIN records :
            records[j].vol = h.of.who /\ (h.of.who \notin FatVolumes => records[j].point = h.fop)
      BY <2>8, <3>1, <3>3, Zenon DEF LeakInv, VolumeInv, RecordHas
    <3>5. j # i BY <3>1, <3>2, <3>4, Zenon
    <3> DEFINE k == IF j < i THEN j ELSE j - 1
    <3>6. k \in DOMAIN records' /\ records'[k] = records[j] BY <2>3, <2>4, <3>5
    <3> QED BY <3>4, <3>6, Zenon DEF RecordHas
  <2>9. VolumeInv' BY <2>2, <2>5, <2>8, StateFacts, Zenon DEF VolumeInv
  <2> QED BY <2>7, <2>9, Zenon DEF LeakInv
<1> QED BY <1>1, <1>2, <1>3, Zenon

LEMMA LeakInit ==
  ASSUME Init
  PROVE  LeakInv
<1> DEFINE dev == File("basic", <<"dev">>)
           r == [path |-> <<"dev">>, point |-> dev, vol |-> "devfs"]
           g == Handle(dev, open_rw, Mounted("devfs"))
<1>1. /\ records = <<r>> /\ handles = {g} /\ th = [t \in Threads |-> Idle]
  BY Zenon DEF Init
<1>2. g.of = Mounted("devfs") /\ g.fop = dev /\ r.vol = "devfs" /\ r.point = dev BY Zenon DEF Handle
<1> HIDE DEF dev, r, g
<1>3. WalkInv BY <1>1, <1>2, OwnerFacts DEF WalkInv, WalkOk
<1>4. RecordHas(g)
  <2>1. 1 \in DOMAIN records /\ records[1] = r BY <1>1
  <2>2. g.of.who = "devfs" BY <1>2, OwnerFacts, Zenon
  <2> QED BY <1>2, <2>1, <2>2, Zenon DEF RecordHas
<1>5. th[Shell].pc = "idle" BY <1>1, StateFacts, ConstantsAssumption, Zenon
<1>6. VolumeInv BY <1>1, <1>4, <1>5, Zenon DEF VolumeInv
<1> QED BY <1>3, <1>6, Zenon DEF LeakInv

BaseInv == TypeInv /\ ThreadInv /\ LeakInv

LEMMA BaseNext ==
  ASSUME BaseInv, [Next]_vars
  PROVE  BaseInv'
<1> USE DEF BaseInv
<1>1. ASSUME NEW t \in Threads, Step(t) \/ Call(t) \/ Dangling(t) PROVE BaseInv'
  <2>1. TypeInv' /\ ThreadInv'
    <3>1. CASE EraseRecord(t)
      <4>1. th[t].pc = "erase" /\ ThreadOk(t) BY <3>1, Zenon DEF EraseRecord, At, ThreadInv
      <4>2. t = Shell BY <4>1, Zenon DEF ThreadOk
      <4>3. HasLast(th[Shell].path) BY <4>1, <4>2, Zenon DEF LeakInv, VolumeInv
      <4> QED BY <3>1, <4>3, BaseUnmount, Zenon
    <3> QED BY <1>1, <3>1, BaseWalk, BaseFiles, BaseMount, BaseUnmount, Zenon DEF Step, Call
  <2>2. LeakInv'
    BY <1>1, LeakWalk, LeakCalls, LeakMount, LeakUnmount, Zenon DEF Step, Call
  <2> QED BY <2>1, <2>2, Zenon
<1>2. CASE UNCHANGED vars
  BY <1>2, ZenonT(60) DEF vars, TypeInv, ThreadInv, ThreadOk, Fresh, LeakInv, WalkInv, WalkOk, VolumeInv, RecordHas, ShellHas, HasLast, IsLast
<1> QED BY <1>1, <1>2, Zenon DEF Next

LEMMA BaseInvariance == Spec => []BaseInv
<1>1. Init => BaseInv BY BaseInit, LeakInit, Zenon DEF BaseInv
<1>2. BaseInv /\ [Next]_vars => BaseInv' BY BaseNext, Zenon
<1> QED BY <1>1, <1>2, PTL DEF Spec

\* Whatever opens, mounts and unmounts are interleaved, and whatever has gone
\* wrong on the way, a call that has returned leaves no handle of a walk open,
\* and every handle of a volume has a mount record, or a mount in progress,
\* that will close it.
THEOREM CallsLeaveNoHandle == Spec => []NothingLeaks
<1>1. BaseInv => NothingLeaks
  <2> SUFFICES ASSUME BaseInv PROVE NothingLeaks BY Zenon
  <2>1. \A t \in Threads : th[t].pc = "idle" => WalkHandles(t) = {}
    BY Zenon DEF BaseInv, LeakInv, WalkInv, WalkOk, Walking, WalkHandles
  <2>2. \A h \in handles : h.of.as = "volume" =>
          \/ \E i \in DOMAIN records : records[i].vol = h.of.who
          \/ \E t \in Threads : th[t].vol = h.of.who
    BY ConstantsAssumption, Zenon DEF BaseInv, LeakInv, VolumeInv, RecordHas, ShellHas
  <2> QED BY <2>1, <2>2, Zenon DEF NothingLeaks
<1> QED BY <1>1, BaseInvariance, PTL

=============================================================================
