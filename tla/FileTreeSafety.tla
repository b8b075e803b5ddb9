--------------------------- MODULE FileTreeSafety ---------------------------
(***************************************************************************)
(* Proofs about FileTree, for any threads, volumes, paths and bounds: that *)
(* a file has one handle at a time, and that what is in use exists.        *)
(***************************************************************************)
EXTENDS FileTreeProofs

\* Until a volume is mounted, and once unmount has found it unused and cleared
\* its mount, nothing leads into it.
Unreachable(v) ==
  /\ \A f \in alive : f.vol = v => f = Root(v)
  /\ \A f \in Files : mount[f] # Root(v)
  /\ \A h \in handles : h.fop.vol # v
  /\ \A t \in Threads : \A f \in Pointers(t) : f.vol # v

Holds(f, o) == \E h \in handles : h.fop = f /\ h.of = o

Sole == \A g, h \in handles : g.fop = h.fop => g = h

Counted ==
  \A f \in Files :
    /\ readers[f] = (IF \E h \in handles : h.fop = f /\ h.mode.read THEN 1 ELSE 0)
    /\ writers[f] = (IF \E h \in handles : h.fop = f /\ h.mode.write THEN 1 ELSE 0)

InUse ==
  /\ \A h \in handles : h.fop \in alive
  /\ \A t \in Threads : Pointers(t) \subseteq alive

\* A walk holds the directory it is in; what it is about to open is a volume's
\* root or a child of that directory.
PathOk(t) ==
  /\ th[t].pc \in Walking /\ th[t].dir # None => Holds(th[t].dir, Walk(t))
  /\ th[t].pc \in {"leave", "opened"} /\ th[t].target # None => Holds(th[t].target, Walk(t))
  /\ th[t].pc = "leave" /\ th[t].target # None => th[t].target # th[t].dir
  /\ Fresh(t) => th[t].target \notin alive
  /\ th[t].pc \in {"follow", "try"} =>
       \/ th[t].target \in Roots
       \/ th[t].dir # None /\ th[t].target = Child(th[t].dir, Head(th[t].todo))

PathInv == \A t \in Threads : PathOk(t)

\* Mounts lead to roots that exist, and but for the device file system, which
\* may be mounted more than once, to each from one place.
RootsInv ==
  /\ Root("basic") \in alive /\ Root("devfs") \in alive
  /\ \A f \in alive : Root(f.vol) \in alive
  /\ \A f \in Files : mount[f] # None => mount[f] \in alive
  /\ \A f, g \in Files : mount[f] = mount[g] /\ mount[f] \notin {None, Root("devfs")} => f = g

\* A mount record's mountpoint is held by its volume and leads to it, except
\* for the record that is being erased.
RecordOk(i) ==
  /\ Holds(records[i].point, Mounted(records[i].vol))
  /\ records[i].vol # "basic"
  /\ \/ mount[records[i].point] = Root(records[i].vol)
     \/ th[Shell].pc = "erase" /\ i = LastRecord(th[Shell].path)
  /\ records[i].vol # "devfs" => records[i].vol # th[Shell].vol

RecordsInv ==
  /\ \A i \in DOMAIN records : RecordOk(i)
  /\ \A i, j \in DOMAIN records : i # j =>
       /\ records[i].point # records[j].point
       /\ records[i].vol = records[j].vol => records[i].vol = "devfs"

\* The shell on its way through mount and unmount.
ShellInv ==
  /\ th[Shell].op = "mount" => Root(th[Shell].vol) \in alive
  /\ th[Shell].pc = "record" =>
       /\ Holds(th[Shell].target, Mounted(th[Shell].vol))
       /\ mount[th[Shell].target] = Root(th[Shell].vol)
       /\ \A i \in DOMAIN records : records[i].point # th[Shell].target
  /\ th[Shell].pc \in {"clear", "erase"} =>
       th[Shell].target = records[LastRecord(th[Shell].path)].point
  /\ th[Shell].op \in {"mount", "probe"} /\ th[Shell].pc # "record" /\ th[Shell].vol # "devfs" =>
       Unreachable(th[Shell].vol)
  /\ th[Shell].pc = "erase" /\ records[LastRecord(th[Shell].path)].vol # "devfs" =>
       Unreachable(records[LastRecord(th[Shell].path)].vol)

MountInv == RootsInv /\ RecordsInv /\ ShellInv

SafeInv == Sole /\ Counted /\ InUse /\ PathInv /\ MountInv

LEMMA ModeFacts ==
  \A m \in AnyMode : m.read \/ m.write
BY DEF AnyMode, open_ro, open_wo, open_rw

\* A file whose counts are zero has no handle.
LEMMA NoHandle ==
  ASSUME TypeInv, Counted, NEW f \in Files, readers[f] = 0, writers[f] = 0
  PROVE  \A h \in handles : h.fop # f
<1> SUFFICES ASSUME NEW h \in handles, h.fop = f PROVE FALSE BY Zenon
<1>1. h.mode \in AnyMode BY Zenon DEF TypeInv, HandleSet
<1>2. CASE h.mode.read BY <1>2 DEF Counted
<1>3. CASE h.mode.write BY <1>3 DEF Counted
<1> QED BY <1>1, <1>2, <1>3, ModeFacts, Zenon

LEMMA CountedZero ==
  ASSUME Counted, NEW f \in Files, \A h \in handles : h.fop # f
  PROVE  readers[f] = 0 /\ writers[f] = 0
BY Zenon DEF Counted

LEMMA AcquireCounted ==
  ASSUME TypeInv, Sole, Counted, NEW h \in HandleSet, readers[h.fop] = 0, writers[h.fop] = 0, Acquire(h)
  PROVE  Sole' /\ Counted'
<1>1. h.fop \in Files /\ h.mode \in AnyMode BY Zenon DEF HandleSet
<1>2. \A g \in handles : g.fop # h.fop BY <1>1, NoHandle, Zenon
<1>3. handles' = handles \cup {h} BY Zenon DEF Acquire
<1>4. Sole' BY <1>2, <1>3, Zenon DEF Sole
<1>5. ASSUME NEW f \in Files
      PROVE  /\ readers'[f] = (IF \E g \in handles' : g.fop = f /\ g.mode.read THEN 1 ELSE 0)
             /\ writers'[f] = (IF \E g \in handles' : g.fop = f /\ g.mode.write THEN 1 ELSE 0)
  <2>1. CASE f # h.fop
    <3>1. readers'[f] = readers[f] /\ writers'[f] = writers[f] BY <2>1, Zenon DEF Acquire, TypeInv
    <3>2. \A g : g \in handles' /\ g.fop = f <=> g \in handles /\ g.fop = f BY <1>3, <2>1, Zenon
    <3> QED BY <3>1, <3>2, Zenon DEF Counted
  <2>2. CASE f = h.fop
    <3>1. /\ readers'[f] = (IF h.mode.read THEN 1 ELSE 0)
          /\ writers'[f] = (IF h.mode.write THEN 1 ELSE 0)
      BY <2>2 DEF Acquire, TypeInv
    <3>2. \A g : g \in handles' /\ g.fop = f <=> g = h BY <1>2, <1>3, <2>2, Zenon
    <3>3. (\E g \in handles' : g.fop = f /\ g.mode.read) <=> h.mode.read BY <3>2, Zenon
    <3>4. (\E g \in handles' : g.fop = f /\ g.mode.write) <=> h.mode.write BY <3>2, Zenon
    <3> QED BY <3>1, <3>3, <3>4, Zenon
  <2> QED BY <2>1, <2>2, Zenon
<1>6. Counted' BY <1>5, Zenon DEF Counted
<1> QED BY <1>4, <1>6, Zenon

LEMMA ReleaseCounted ==
  ASSUME TypeInv, Sole, Counted, NEW gone \in SUBSET handles, NEW more, Release(gone, more)
  PROVE  Sole' /\ Counted'
<1>1. handles' = handles \ gone BY Zenon DEF Release
<1>2. Sole' BY <1>1, Zenon DEF Sole
<1>3. ASSUME NEW f \in Files
      PROVE  readers'[f] = (IF \E g \in handles' : g.fop = f /\ g.mode.read THEN 1 ELSE 0)
  <2>1. readers'[f] = IF \E h \in gone : h.fop = f /\ h.mode.read THEN readers[f] - 1 ELSE readers[f]
    BY Zenon DEF Release
  <2>2. CASE \E h \in gone : h.fop = f /\ h.mode.read
    <3>1. readers'[f] = 0 BY <2>1, <2>2 DEF Counted
    <3>2. \A g \in handles' : g.fop # f BY <1>1, <2>2, Zenon DEF Sole
    <3> QED BY <3>1, <3>2, Zenon
  <2>3. CASE ~\E h \in gone : h.fop = f /\ h.mode.read
    <3>1. readers'[f] = readers[f] BY <2>1, <2>3, Zenon
    <3>2. (\E g \in handles' : g.fop = f /\ g.mode.read) <=> (\E g \in handles : g.fop = f /\ g.mode.read)
      BY <1>1, <2>3, Zenon
    <3> QED BY <3>1, <3>2, Zenon DEF Counted
  <2> QED BY <2>2, <2>3, Zenon
<1>4. ASSUME NEW f \in Files
      PROVE  writers'[f] = (IF \E g \in handles' : g.fop = f /\ g.mode.write THEN 1 ELSE 0)
  <2>1. writers'[f] = IF \E h \in gone : h.fop = f /\ h.mode.write THEN writers[f] - 1 ELSE writers[f]
    BY Zenon DEF Release
  <2>2. CASE \E h \in gone : h.fop = f /\ h.mode.write
    <3>1. writers'[f] = 0 BY <2>1, <2>2 DEF Counted
    <3>2. \A g \in handles' : g.fop # f BY <1>1, <2>2, Zenon DEF Sole
    <3> QED BY <3>1, <3>2, Zenon
  <2>3. CASE ~\E h \in gone : h.fop = f /\ h.mode.write
    <3>1. writers'[f] = writers[f] BY <2>1, <2>3, Zenon
    <3>2. (\E g \in handles' : g.fop = f /\ g.mode.write) <=> (\E g \in handles : g.fop = f /\ g.mode.write)
      BY <1>1, <2>3, Zenon
    <3> QED BY <3>1, <3>2, Zenon DEF Counted
  <2> QED BY <2>2, <2>3, Zenon
<1>5. Counted' BY <1>3, <1>4, Zenon DEF Counted
<1> QED BY <1>2, <1>5, Zenon

\* What Renamed does, handle by handle.
LEMMA RenamedFacts ==
  ASSUME TypeInv, NEW W \in SUBSET handles, NEW o
  PROVE  /\ \A h \in handles \ W : h \in Renamed(W, o)
         /\ \A h \in W : \E g \in Renamed(W, o) : g.fop = h.fop /\ g.mode = h.mode /\ g.of = o
         /\ \A g \in Renamed(W, o) : g \in handles \ W \/ \E h \in W : g = [h EXCEPT !.of = o] /\ g.fop = h.fop /\ g.mode = h.mode /\ g.of = o
<1>1. ASSUME NEW h \in W
      PROVE  /\ [h EXCEPT !.of = o].fop = h.fop /\ [h EXCEPT !.of = o].mode = h.mode
             /\ [h EXCEPT !.of = o].of = o /\ [h EXCEPT !.of = o] \in Renamed(W, o)
  <2>1. h \in HandleSet BY Zenon DEF TypeInv
  <2> QED BY <2>1, Zenon DEF HandleSet, Renamed
<1>2. \A h \in handles \ W : h \in Renamed(W, o) BY Zenon DEF Renamed
<1>3. \A g \in Renamed(W, o) : g \in handles \ W \/ \E h \in W : g = [h EXCEPT !.of = o] BY Zenon DEF Renamed
<1> QED BY <1>1, <1>2, <1>3, Zenon

LEMMA RenamedFrom ==
  ASSUME TypeInv, NEW W \in SUBSET handles, NEW o, handles' = Renamed(W, o)
  PROVE  \A g \in handles' : \E h \in handles : h.fop = g.fop
BY RenamedFacts

LEMMA RenamedCounted ==
  ASSUME TypeInv, Sole, Counted, NEW W \in SUBSET handles, NEW o, handles' = Renamed(W, o),
         UNCHANGED <<readers, writers>>
  PROVE  Sole' /\ Counted'
<1>1. \A h \in handles : \E g \in handles' : g.fop = h.fop /\ g.mode = h.mode BY RenamedFacts
<1>2. \A g \in handles' : \E h \in handles : g.fop = h.fop /\ g.mode = h.mode BY RenamedFacts
<1>3. ASSUME NEW f \in handles', NEW g \in handles', f.fop = g.fop PROVE f = g
  <2>1. PICK a \in handles : /\ a.fop = f.fop
                             /\ (a \notin W /\ f = a) \/ (a \in W /\ f = [a EXCEPT !.of = o])
    BY RenamedFacts, SMTT(60)
  <2>2. PICK b \in handles : /\ b.fop = g.fop
                             /\ (b \notin W /\ g = b) \/ (b \in W /\ g = [b EXCEPT !.of = o])
    BY RenamedFacts
  <2>3. a = b BY <1>3, <2>1, <2>2, Zenon DEF Sole
  <2> QED BY <2>1, <2>2, <2>3, Zenon
<1>4. Sole' BY <1>3, Zenon DEF Sole
<1>5. ASSUME NEW f \in Files
      PROVE  /\ (\E h \in handles : h.fop = f /\ h.mode.read) <=> (\E h \in handles' : h.fop = f /\ h.mode.read)
             /\ (\E h \in handles : h.fop = f /\ h.mode.write) <=> (\E h \in handles' : h.fop = f /\ h.mode.write)
  <2>1. \A h \in handles : h.fop = f => \E g \in handles' : g.fop = f /\ g.mode = h.mode BY <1>1, Zenon
  <2>2. \A h \in handles' : h.fop = f => \E g \in handles : g.fop = f /\ g.mode = h.mode BY <1>2
  <2>3. (\E h \in handles : h.fop = f /\ h.mode.read) <=> (\E h \in handles' : h.fop = f /\ h.mode.read)
    BY <2>1, <2>2, Zenon
  <2>4. (\E h \in handles : h.fop = f /\ h.mode.write) <=> (\E h \in handles' : h.fop = f /\ h.mode.write)
    BY <2>1, <2>2, Zenon
  <2> QED BY <2>3, <2>4, Zenon
<1>6. Counted' BY <1>5, Zenon DEF Counted
<1> QED BY <1>4, <1>6, Zenon

\* A step of the shell that is not one of mounting or unmounting.
ShellQuiet ==
  \/ th'[Shell] = th[Shell]
  \/ /\ {th[Shell].pc, th'[Shell].pc} \cap {"record", "clear", "erase"} = {}
     /\ th'[Shell].vol \in {th[Shell].vol, "none"}
     /\ th'[Shell].op \in {"mount", "probe"} => th'[Shell].op = th[Shell].op /\ th'[Shell].vol = th[Shell].vol

LEMMA PathFrame ==
  ASSUME PathInv, NEW t \in Threads, PathOk(t)', \A u \in Threads \ {t} : th'[u] = th[u],
         \A h \in handles, u \in Threads \ {t} : h.of = Walk(u) => h \in handles',
         \A u \in Threads \ {t} : Fresh(u) => th[u].target \notin alive'
  PROVE  PathInv'
<1>1. ASSUME NEW u \in Threads \ {t} PROVE PathOk(u)'
  <2>1. PathOk(u) /\ th'[u] = th[u] BY Zenon DEF PathInv
  <2>2. \A f : Holds(f, Walk(u)) => Holds(f, Walk(u))' BY Zenon DEF Holds
  <2> QED BY <2>1, <2>2, Zenon DEF PathOk, Fresh
<1> QED BY <1>1, Zenon DEF PathInv

LEMMA MountFrame ==
  ASSUME BaseInv, MountInv, ShellQuiet, UNCHANGED <<mount, records>>, alive' \subseteq Files,
         \A h \in handles : h.of.as = "volume" => h \in handles',
         \A v \in Volumes : Root(v) \in alive => Root(v) \in alive',
         \A f \in alive' : f \in alive \/ Root(f.vol) \in alive,
         \A v \in Volumes \ {"basic"} : Unreachable(v) => Unreachable(v)'
  PROVE  MountInv'
<1>1. \A f, v : Holds(f, Mounted(v)) => Holds(f, Mounted(v))' BY OwnerFacts, Zenon DEF Holds
<1>2. ThreadOk(Shell) /\ Shell \in Threads BY ConstantsAssumption, Zenon DEF BaseInv, ThreadInv
<1>3. \A i \in DOMAIN records : records[i].vol \in Volumes /\ records[i].point \in Files
  BY RecordFacts, Zenon DEF BaseInv
<1>4. RootsInv'
  <2>1. Root("basic") \in alive' /\ Root("devfs") \in alive'
    BY FileFacts, Zenon DEF MountInv, RootsInv
  <2>2. \A f \in alive' : Root(f.vol) \in alive'
    BY FileFacts, Zenon DEF MountInv, RootsInv
  <2>3. \A f \in Files : mount'[f] # None => mount'[f] \in alive'
    BY DEF MountInv, RootsInv, BaseInv, TypeInv, Roots
  <2> QED BY <2>1, <2>2, <2>3, Zenon DEF MountInv, RootsInv
<1>5. ASSUME NEW i \in DOMAIN records PROVE RecordOk(i)'
  <2>1. RecordOk(i) BY Zenon DEF MountInv, RecordsInv
  <2>2. LastRecord(th[Shell].path)' = LastRecord(th'[Shell].path) BY Zenon DEF LastRecord, IsLast
  <2>3. records[i].vol # "none" BY <1>3, FileFacts, Zenon
  <2> QED BY <1>1, <2>1, <2>2, <2>3, Zenon DEF RecordOk, ShellQuiet
<1>6. RecordsInv' BY <1>5, ZenonT(60) DEF MountInv, RecordsInv
<1>7. ShellInv'
  <2>1. \A p : LastRecord(p)' = LastRecord(p) BY Zenon DEF LastRecord, IsLast
  <2>2. ShellInv BY Zenon DEF MountInv
  <2>3. th[Shell].op \in {"mount", "probe"} => th[Shell].vol \in Volumes \ {"basic"}
    BY <1>2, Zenon DEF ThreadOk
  <2>4. CASE th'[Shell] = th[Shell]
    <3>1. th[Shell].op = "mount" => Root(th[Shell].vol) \in alive' BY <2>2, <2>3, Zenon DEF ShellInv
    <3>2. th[Shell].pc = "erase" => LastRecord(th[Shell].path) \in DOMAIN records
      BY LastRecordFacts, Zenon DEF BaseInv, TypeInv, LeakInv, VolumeInv
    <3>3. th[Shell].pc = "erase" => records[LastRecord(th[Shell].path)].vol \in Volumes \ {"basic"}
      BY <1>3, <3>2, Zenon DEF MountInv, RecordsInv, RecordOk
    <3> QED BY <1>1, <2>1, <2>2, <2>3, <2>4, <3>1, <3>3, ZenonT(60) DEF ShellInv
  <2>5. CASE th'[Shell] # th[Shell]
    BY <2>2, <2>3, <2>5, Zenon DEF ShellInv, ShellQuiet
  <2> QED BY <2>4, <2>5, Zenon
<1> QED BY <1>4, <1>6, <1>7, Zenon DEF MountInv

\* A walk that has found a file to be created holds its directory.
LEMMA FreshFacts ==
  ASSUME BaseInv, PathInv, NEW t \in Threads, Fresh(t)
  PROVE  \E d \in Files, n \in STRING :
           /\ th[t].dir = d /\ th[t].target = Child(d, n) /\ Child(d, n).vol = d.vol
           /\ d \in Pointers(t) /\ Holds(d, Walk(t))
<1>1. ThreadOk(t) /\ PathOk(t) /\ th[t] \in ThreadStates
  BY Zenon DEF BaseInv, ThreadInv, PathInv, TypeInv
<1>2. /\ th[t].pc \in Walking /\ th[t].dir # None /\ th[t].todo # <<>>
      /\ th[t].target = Child(th[t].dir, Head(th[t].todo))
  BY <1>1, Zenon DEF ThreadOk, Fresh, Walking
<1>3. th[t].dir \in Files /\ Head(th[t].todo) \in STRING BY <1>1, <1>2 DEF ThreadStates
<1>4. th[t].dir \in Pointers(t) BY <1>2, Zenon DEF Pointers
<1>5. Holds(th[t].dir, Walk(t)) BY <1>1, <1>2, Zenon DEF PathOk
<1>6. Child(th[t].dir, Head(th[t].todo)).vol = th[t].dir.vol BY <1>3, ChildFacts, Zenon
<1> QED BY <1>2, <1>3, <1>4, <1>5, <1>6, Zenon

LEMMA TwoFresh ==
  ASSUME BaseInv, PathInv, Sole, NEW t \in Threads, NEW u \in Threads, t # u, Fresh(t), Fresh(u)
  PROVE  th[u].target # th[t].target
<1>1. PICK d \in Files, n \in STRING : th[t].target = Child(d, n) /\ Holds(d, Walk(t))
  BY FreshFacts, Zenon
<1>2. PICK e \in Files, m \in STRING : th[u].target = Child(e, m) /\ Holds(e, Walk(u))
  BY FreshFacts, Zenon
<1>3. d # e BY <1>1, <1>2, OwnerFacts DEF Holds, Sole
<1> QED BY <1>1, <1>2, <1>3, ChildInjective, Zenon

\* The steps of a walk: it may append the file it has found to the children of
\* its directory, take a handle on its target, and give up its own handles.
LEMMA SafeMoves ==
  ASSUME BaseInv, SafeInv, TypeInv', NEW t \in Threads, NEW pc \in Walking \cup {"opened", "failed"},
         NEW dir, NEW target, NEW todo, Moved(t, pc, dir, target, todo), th[t].pc \in Walking,
         UNCHANGED <<mount, records>>, Sole', Counted', PathOk(t)',
         alive \subseteq alive',
         \A f \in alive' \ alive : Fresh(t) /\ f = th[t].target,
         \A h \in handles : h.of # Walk(t) => h \in handles',
         \A h \in handles' : h \in handles \/ (h.fop = th[t].target /\ h.fop \in alive'),
         Pointers(t)' \subseteq alive',
         \A f \in Pointers(t)' :
           (\E d \in Pointers(t) : f.vol = d.vol) \/ (\E g \in Files : mount[g] = f)
  PROVE  SafeInv'
<1>0. /\ ThreadOk(t) /\ PathOk(t) /\ th[t] \in ThreadStates
      /\ \A u \in Threads \ {t} : th'[u] = th[u]
  BY Zenon DEF BaseInv, ThreadInv, SafeInv, PathInv, TypeInv, Moved
<1>1. th[t].target # None => th[t].target \in Files BY <1>0, Zenon DEF ThreadStates
<1>2. \A u \in Threads \ {t} : Pointers(u)' = Pointers(u) BY <1>0, Zenon DEF Pointers, Fresh
<1>3. Fresh(t) => th[t].dir \in Pointers(t) /\ th[t].target.vol = th[t].dir.vol
  BY FreshFacts, Zenon DEF SafeInv
<1>4. InUse'
  <2>1. \A h \in handles' : h.fop \in alive' BY Zenon DEF SafeInv, InUse
  <2>2. \A u \in Threads : Pointers(u)' \subseteq alive' BY <1>2, Zenon DEF SafeInv, InUse
  <2> QED BY <2>1, <2>2, Zenon DEF InUse
<1>5. PathInv'
  <2>1. ASSUME NEW u \in Threads \ {t}, Fresh(u), th[u].target \in alive' PROVE FALSE
    <3>1. PathOk(u) BY Zenon DEF SafeInv, PathInv
    <3>2. Fresh(t) /\ th[u].target = th[t].target BY <2>1, <3>1, Zenon DEF PathOk
    <3> QED BY <2>1, <3>2, TwoFresh, Zenon DEF SafeInv
  <2>2. \A h \in handles, u \in Threads \ {t} : h.of = Walk(u) => h \in handles' BY OwnerFacts
  <2> QED BY <1>0, <2>1, <2>2, PathFrame, Zenon DEF SafeInv
<1>6. MountInv'
  <2>1. \A h \in handles : h.of.as = "volume" => h \in handles' BY OwnerFacts, Zenon
  <2>2. \A f \in alive' : f \in alive \/ Root(f.vol) \in alive
    <3> SUFFICES ASSUME NEW f \in alive' \ alive PROVE Root(f.vol) \in alive BY Zenon
    <3>1. th[t].dir \in alive /\ f.vol = th[t].dir.vol BY <1>3, Zenon DEF SafeInv, InUse
    <3> QED BY <3>1, Zenon DEF SafeInv, MountInv, RootsInv
  <2>3. ShellQuiet
    <3>1. CASE t = Shell
      <4>1. th[t].pc \notin {"record", "clear", "erase"} BY Zenon DEF Walking
      <4>2. th'[t].pc \notin {"record", "clear", "erase"} BY Zenon DEF Walking, Moved
      <4>3. th'[t].op = th[t].op /\ th'[t].vol = th[t].vol BY Zenon DEF Moved
      <4> QED BY <3>1, <4>1, <4>2, <4>3, Zenon DEF ShellQuiet
    <3>2. CASE t # Shell BY <1>0, <3>2, ConstantsAssumption, Zenon DEF ShellQuiet
    <3> QED BY <3>1, <3>2, Zenon
  <2>4. ASSUME NEW v \in Volumes \ {"basic"}, Unreachable(v) PROVE Unreachable(v)'
    <3>1. \A f \in Pointers(t) : f.vol # v BY <2>4, Zenon DEF Unreachable
    <3>2. \A f \in alive' : f.vol = v => f = Root(v) BY <1>3, <2>4, <3>1, Zenon DEF Unreachable
    <3>3. th[t].target # None => th[t].target.vol # v BY <1>3, <3>1, Zenon DEF Pointers
    <3>4. \A h \in handles' : h.fop.vol # v
      <4> SUFFICES ASSUME NEW h \in handles' PROVE h.fop.vol # v BY Zenon
      <4>1. CASE h \in handles BY <2>4, <4>1, Zenon DEF Unreachable
      <4>2. CASE h \notin handles
        <5>1. h.fop = th[t].target /\ h.fop \in Files BY <4>2, Zenon DEF TypeInv
        <5> QED BY <3>3, <5>1, FileFacts, ZenonT(60)
      <4> QED BY <4>1, <4>2, Zenon
    <3>5. ASSUME NEW f \in Pointers(t)' PROVE f.vol # v
      <4>1. CASE \E d \in Pointers(t) : f.vol = d.vol BY <3>1, <4>1, Zenon
      <4>2. CASE \E g \in Files : mount[g] = f
        <5>1. f # None BY Zenon DEF Pointers
        <5>2. f \in Roots /\ f # Root(v) BY <2>4, <4>2, <5>1 DEF Unreachable, BaseInv, TypeInv
        <5> QED BY <5>2, FileFacts DEF Roots
      <4> QED BY <4>1, <4>2, Zenon
    <3>6. \A u \in Threads : \A f \in Pointers(u)' : f.vol # v BY <1>2, <2>4, <3>5, ZenonT(60) DEF Unreachable
    <3>7. \A f \in Files : mount'[f] # Root(v) BY <2>4, Zenon DEF Unreachable
    <3> QED BY <3>2, <3>4, <3>6, <3>7, ZenonT(60) DEF Unreachable
  <2>5. alive' \subseteq Files BY Zenon DEF TypeInv
  <2> QED BY <2>1, <2>2, <2>3, <2>4, <2>5, MountFrame, ZenonT(60) DEF SafeInv
<1> QED BY <1>4, <1>5, <1>6, Zenon DEF SafeInv

\* After the step, o has a handle on f.
HoldsNext(f, o) == \E h \in handles' : h.fop = f /\ h.of = o

LEMMA PointersMoved ==
  ASSUME NEW t \in Threads, NEW pc, NEW dir, NEW target, NEW todo, Moved(t, pc, dir, target, todo)
  PROVE  /\ Pointers(t)' \subseteq {dir, target} \ {None}
         /\ pc \in {"new", "append"} => Pointers(t)' \subseteq {dir} \ {None}
<1>1. Fresh(t)' <=> pc \in {"new", "append"} BY Zenon DEF Fresh, Moved
<1>2. Pointers(t)' = ({dir} \cup (IF Fresh(t)' THEN {} ELSE {target})) \ {None} BY Zenon DEF Pointers, Moved
<1> QED BY <1>1, <1>2, Zenon

LEMMA SafeWalk ==
  ASSUME BaseInv, SafeInv, BaseInv', NEW t \in Threads,
         follow_mountpoints(t) \/ prepare_fop(t) \/ TryOpen(t) \/ append_child(t) \/ Leave(t)
  PROVE  SafeInv'
<1>0. /\ ThreadOk(t) /\ PathOk(t) /\ WalkOk(t) /\ th[t] \in ThreadStates /\ TypeInv /\ TypeInv'
      /\ Pointers(t) \subseteq alive
  BY Zenon DEF BaseInv, ThreadInv, SafeInv, PathInv, LeakInv, WalkInv, TypeInv, InUse
<1>1. CASE follow_mountpoints(t)
  <2> DEFINE f == th[t].target
  <2>1. th[t].pc = "follow" /\ f \in Files /\ f # None
    BY <1>0, <1>1, FileFacts, Zenon DEF follow_mountpoints, At, ThreadOk, ThreadStates
  <2>2. UNCHANGED <<alive, mount, records, readers, writers, handles>> BY <1>1, Zenon DEF follow_mountpoints, tree
  <2>3. ~Fresh(t) /\ f \in Pointers(t) BY <2>1, Zenon DEF Pointers, Fresh
  <2>4. PICK pc \in {"follow", "try"}, g \in Files :
          /\ Moved(t, pc, th[t].dir, g, th[t].todo)
          /\ g = f \/ g = mount[f]
    <3>1. CASE mount[f] # None
      <4>1. mount[f] \in Files BY <1>0, <2>1, <3>1, FileFacts DEF TypeInv, Roots
      <4> DEFINE g == mount[f]
      <4>2. th' = [th EXCEPT ![t].target = g] BY <1>1, <3>1, ZenonT(60) DEF follow_mountpoints
      <4> HIDE DEF g
      <4>3. Moved(t, "follow", th[t].dir, g, th[t].todo)
        BY <1>0, <2>1, <4>1, <4>2 DEF Moved, TypeInv, ThreadStates, g
      <4> QED BY <4>1, <4>3, Zenon DEF g
    <3>2. CASE mount[f] = None
      <4>1. th' = [th EXCEPT ![t].pc = "try"] BY <1>1, <3>2, Zenon DEF follow_mountpoints
      <4> QED BY <1>0, <2>1, <4>1, MovesOn, Zenon DEF PCs
    <3> QED BY <3>1, <3>2, Zenon
  <2>5. g # None /\ (g = mount[f] => g \in alive /\ g \in Roots)
    <3>1. g # None BY <2>4, FileFacts, Zenon
    <3>2. g = mount[f] => g \in alive BY <2>1, <2>4, <3>1, ZenonT(60) DEF SafeInv, MountInv, RootsInv
    <3>3. mount[f] \in Roots \cup {None} BY <1>0, <2>1 DEF TypeInv
    <3> QED BY <3>1, <3>2, <3>3, Zenon
  <2>6. PathOk(t)'
    BY <1>0, <2>1, <2>2, <2>4, <2>5, ZenonT(60) DEF PathOk, Moved, Fresh, Walking, Holds
  <2>7. Sole' /\ Counted' BY <2>2, ZenonT(60) DEF SafeInv, Sole, Counted
  <2>8. Pointers(t)' \subseteq {th[t].dir, g} \ {None} BY <2>4, PointersMoved
  <2>9. th[t].dir # None => th[t].dir \in Pointers(t) BY Zenon DEF Pointers
  <2>10. Pointers(t)' \subseteq alive' BY <1>0, <2>2, <2>3, <2>4, <2>5, <2>8, <2>9, Zenon
  <2>11. \A x \in Pointers(t)' : (\E d \in Pointers(t) : x.vol = d.vol) \/ (\E y \in Files : mount[y] = x)
    BY <2>1, <2>3, <2>4, <2>8, <2>9, ZenonT(60)
  <2> HIDE DEF f
  <2> QED BY <1>0, <2>1, <2>2, <2>4, <2>6, <2>7, <2>10, <2>11, SafeMoves, ZenonT(60) DEF Walking
<1>2. CASE prepare_fop(t)
  <2> DEFINE dir == th[t].dir
             c == Child(dir, Head(th[t].todo))
  <2>1. th[t].pc = "find" /\ UNCHANGED <<alive, mount, records, readers, writers, handles>>
    BY <1>2, Zenon DEF prepare_fop, At
  <2>2. dir \in Files /\ dir # None /\ dir \in Pointers(t) /\ Head(th[t].todo) \in STRING
    BY <1>0, <2>1 DEF ThreadOk, ThreadStates, Walking, Pointers
  <2>3. c.vol = dir.vol /\ c # None BY <2>2, ChildFacts, Zenon
  <2>4. \/ c \in alive /\ th' = [th EXCEPT ![t].pc = "follow", ![t].target = c]
        \/ c \notin alive /\ find(dir, Head(th[t].todo)) /\ th' = [th EXCEPT ![t].pc = "new", ![t].target = c]
        \/ th' = [th EXCEPT ![t].pc = "leave", ![t].target = None]
    BY <1>2, Zenon DEF prepare_fop
  <2>5. find(dir, Head(th[t].todo)) => c \in Files BY <1>0, <2>2, FoundIsFile, Zenon
  <2>6. c \in alive => c \in Files BY <1>0, Zenon DEF TypeInv
  <2>7. Holds(dir, Walk(t)) BY <1>0, <2>1, <2>2, ZenonT(60) DEF PathOk, Walking
  <2>8. PICK pc \in {"follow", "new", "leave"}, g \in {c, None} :
          /\ Moved(t, pc, dir, g, th[t].todo)
          /\ pc = "follow" => g = c /\ c \in alive
          /\ pc = "new" => g = c /\ c \notin alive
          /\ pc = "leave" => g = None
    <3> HIDE DEF c
    <3>1. CASE c \in alive /\ th' = [th EXCEPT ![t].pc = "follow", ![t].target = c]
      BY <1>0, <2>6, <3>1, Moves, Zenon DEF PCs
    <3>2. CASE c \notin alive /\ find(dir, Head(th[t].todo)) /\ th' = [th EXCEPT ![t].pc = "new", ![t].target = c]
      BY <1>0, <2>5, <3>2, Moves, Zenon DEF PCs
    <3>3. CASE th' = [th EXCEPT ![t].pc = "leave", ![t].target = None]
      BY <1>0, <3>3, Moves, Zenon DEF PCs
    <3> QED BY <2>4, <3>1, <3>2, <3>3
  <2>9. PathOk(t)'
    <3>1. HoldsNext(dir, Walk(t)) BY <2>1, <2>7, SMTT(30) DEF Holds, HoldsNext
    <3> QED BY <2>1, <2>2, <2>8, <3>1, ZenonT(60) DEF PathOk, Moved, Fresh, Walking, Holds, HoldsNext
  <2>10. Sole' /\ Counted' BY <2>1, SMTT(30) DEF SafeInv, Sole, Counted
  <2>11. Pointers(t)' \subseteq {dir, g} \ {None} /\ (pc = "new" => Pointers(t)' \subseteq {dir} \ {None})
    BY <2>8, PointersMoved
  <2> HIDE DEF dir, c
  <2>12. Pointers(t)' \subseteq alive' BY <1>0, <2>1, <2>2, <2>8, <2>11, ZenonT(60)
  <2>13. \A x \in Pointers(t)' : \E d \in Pointers(t) : x.vol = d.vol
    BY <2>2, <2>3, <2>8, <2>11, SMTT(30)
  <2> QED BY <1>0, <2>1, <2>8, <2>9, <2>10, <2>12, <2>13, SafeMoves, ZenonT(60) DEF Walking
<1>3. CASE TryOpen(t)
  <2> DEFINE f == th[t].target
             h == Handle(f, StepMode(t), Walk(t))
  <2>1. th[t].pc \in {"try", "new"} /\ f \in Files /\ f # None /\ UNCHANGED <<alive, mount, records>>
    BY <1>0, <1>3, FileFacts DEF TryOpen, At, ThreadOk, ThreadStates
  <2>2. h \in HandleSet /\ h.of = Walk(t) /\ h.fop = f /\ StepMode(t) \in AnyMode
    BY <1>0, <2>1, StateFacts, OwnerFacts, Zenon DEF HandleSet, Handle, StepMode, ThreadStates
  <2>3. \/ try_open(f, StepMode(t)) /\ ~Fresh(t) /\ Acquire(h) /\ th' = [th EXCEPT ![t].pc = "leave"]
        \/ Fresh(t) /\ th' = [th EXCEPT ![t].pc = "append"] /\ UNCHANGED <<readers, writers, handles>>
        \/ th' = [th EXCEPT ![t].pc = "leave", ![t].target = None] /\ UNCHANGED <<readers, writers, handles>>
    BY <1>3, Zenon DEF TryOpen
  <2>4. th[t].dir # None => th[t].dir \in Pointers(t) /\ Holds(th[t].dir, Walk(t))
    BY <1>0, <2>1, Zenon DEF Pointers, PathOk, Walking
  <2> HIDE DEF h, f
  <2>5. CASE try_open(f, StepMode(t)) /\ ~Fresh(t) /\ Acquire(h) /\ th' = [th EXCEPT ![t].pc = "leave"]
    <3>1. Moved(t, "leave", th[t].dir, f, th[t].todo) BY <1>0, <2>5, MovesOn, Zenon DEF PCs, f
    <3>2. readers[f] = 0 /\ writers[f] = 0 BY <2>1, <2>2, <2>5, TryOpenExclusive
    <3>3. Sole' /\ Counted' BY <1>0, <2>2, <2>5, <3>2, AcquireCounted DEF SafeInv
    <3>4. handles' = handles \cup {h} BY <2>5, Zenon DEF Acquire
    <3>5. f # th[t].dir
      <4>1. \A g \in handles : g.fop # f BY <1>0, <2>1, <3>2, NoHandle DEF SafeInv
      <4> QED BY <2>1, <2>4, <4>1, ZenonT(60) DEF Holds
    <3>6. PathOk(t)'
      <4>1. HoldsNext(f, Walk(t)) BY <2>2, <3>4 DEF Holds, HoldsNext
      <4>2. th[t].dir # None => HoldsNext(th[t].dir, Walk(t)) BY <2>4, <3>4, Zenon DEF Holds, HoldsNext
      <4> QED BY <3>1, <3>5, <4>1, <4>2, ZenonT(60) DEF PathOk, Moved, Fresh, Walking, Holds, HoldsNext
    <3>7. f \in Pointers(t) BY <2>1, <2>5 DEF Pointers, f
    <3>8. Pointers(t)' \subseteq {th[t].dir, f} \ {None} BY <3>1, PointersMoved
    <3>9. Pointers(t)' \subseteq alive' BY <1>0, <2>1, <2>4, <3>7, <3>8, ZenonT(60)
    <3>10. \A x \in Pointers(t)' : \E d \in Pointers(t) : x.vol = d.vol BY <2>4, <3>7, <3>8, Zenon
    <3>11. \A g \in handles' : g \in handles \/ (g.fop = th[t].target /\ g.fop \in alive')
      BY <1>0, <2>1, <2>2, <3>4, <3>7, ZenonT(60) DEF f
    <3>12. th[t].pc \in Walking /\ "leave" \in Walking BY <2>1, Zenon DEF Walking
    <3> QED BY <1>0, <2>1, <3>1, <3>3, <3>4, <3>6, <3>9, <3>10, <3>11, <3>12, SafeMoves, ZenonT(60)
  <2>6. CASE /\ UNCHANGED <<readers, writers, handles>>
             /\ \/ Fresh(t) /\ th' = [th EXCEPT ![t].pc = "append"]
                \/ th' = [th EXCEPT ![t].pc = "leave", ![t].target = None]
    <3>1. PICK pc \in {"append", "leave"}, g \in {f, None} :
            /\ Moved(t, pc, th[t].dir, g, th[t].todo)
            /\ pc = "append" => Fresh(t) /\ g = f
            /\ pc = "leave" => g = None
      <4>1. CASE Fresh(t) /\ th' = [th EXCEPT ![t].pc = "append"]
        BY <1>0, <4>1, MovesOn, Zenon DEF PCs, f
      <4>2. CASE th' = [th EXCEPT ![t].pc = "leave", ![t].target = None]
        BY <1>0, <4>2, Moves, Zenon DEF PCs
      <4> QED BY <2>6, <4>1, <4>2
    <3>2. Sole' /\ Counted' BY <2>6 DEF SafeInv, Sole, Counted
    <3>3. PathOk(t)'
      <4>1. th[t].dir # None => HoldsNext(th[t].dir, Walk(t)) BY <2>4, <2>6, Zenon DEF Holds, HoldsNext
      <4> QED BY <1>0, <2>1, <3>1, <4>1, ZenonT(60) DEF PathOk, Moved, Fresh, Walking, Holds, HoldsNext, f
    <3>4. Pointers(t)' \subseteq {th[t].dir} \ {None} BY <3>1, PointersMoved
    <3>5. Pointers(t)' \subseteq alive' BY <1>0, <2>1, <2>4, <3>4, ZenonT(60)
    <3>6. \A x \in Pointers(t)' : \E d \in Pointers(t) : x.vol = d.vol BY <2>4, <3>4, Zenon
    <3>7. th[t].pc \in Walking /\ pc \in Walking BY <2>1, Zenon DEF Walking
    <3> QED BY <1>0, <2>1, <2>6, <3>1, <3>2, <3>3, <3>5, <3>6, <3>7, SafeMoves, SMTT(30)
  <2> QED BY <2>3, <2>5, <2>6, SMTT(30)
<1>4. CASE append_child(t)
  <2> DEFINE f == th[t].target
             h == Handle(f, StepMode(t), Walk(t))
  <2>1. th[t].pc = "append" /\ f \in Files /\ f # None /\ UNCHANGED <<mount, records>> /\ Fresh(t)
    BY <1>0, <1>4, FileFacts DEF append_child, At, ThreadOk, ThreadStates, Fresh
  <2>2. h \in HandleSet /\ h.of = Walk(t) /\ h.fop = f
    BY <1>0, <2>1, StateFacts, OwnerFacts, Zenon DEF HandleSet, Handle, StepMode, ThreadStates
  <2>3. f \notin alive BY <1>0, <2>1, Zenon DEF PathOk
  <2>4. Acquire(h) /\ th' = [th EXCEPT ![t].pc = "leave"] /\ alive' = alive \cup {f}
    BY <1>4, <2>3 DEF append_child
  <2>5. PICK d \in Files, n \in STRING :
          /\ th[t].dir = d /\ th[t].target = Child(d, n) /\ Child(d, n).vol = d.vol
          /\ d \in Pointers(t) /\ Holds(d, Walk(t))
    BY <2>1, FreshFacts, Zenon DEF SafeInv
  <2>6. f # d /\ f.vol = d.vol BY <2>5, ChildFacts
  <2> HIDE DEF h, f
  <2>7. Moved(t, "leave", th[t].dir, f, th[t].todo) BY <1>0, <2>4, MovesOn, ZenonT(60) DEF PCs, f
  <2>8. readers[f] = 0 /\ writers[f] = 0 BY <2>1, <2>3, CountedZero, Zenon DEF SafeInv, InUse
  <2>9. Sole' /\ Counted' BY <1>0, <2>2, <2>4, <2>8, AcquireCounted, ZenonT(60) DEF SafeInv
  <2>10. handles' = handles \cup {h} BY <2>4, Zenon DEF Acquire
  <2>11. PathOk(t)'
    <3>1. HoldsNext(f, Walk(t)) BY <2>2, <2>10 DEF Holds, HoldsNext
    <3>2. HoldsNext(d, Walk(t)) BY <2>5, <2>10, ZenonT(60) DEF Holds, HoldsNext
    <3> QED BY <2>5, <2>6, <2>7, <3>1, <3>2, ZenonT(60) DEF PathOk, Moved, Fresh, Walking, Holds, HoldsNext
  <2>12. Pointers(t)' \subseteq {d, f} \ {None} BY <2>5, <2>7, PointersMoved
  <2>13. Pointers(t)' \subseteq alive' BY <1>0, <2>4, <2>5, <2>12, Zenon
  <2>14. \A x \in Pointers(t)' : \E e \in Pointers(t) : x.vol = e.vol BY <2>5, <2>6, <2>12, Zenon
  <2>15. \A g \in handles' : g \in handles \/ (g.fop = th[t].target /\ g.fop \in alive')
    BY <2>2, <2>4, <2>10, Zenon DEF f
  <2>16. alive \subseteq alive' /\ \A x \in alive' \ alive : Fresh(t) /\ x = th[t].target
    BY <2>1, <2>4, Zenon DEF f
  <2>17. th[t].pc \in Walking /\ "leave" \in Walking BY <2>1, Zenon DEF Walking
  <2> QED BY <1>0, <2>1, <2>7, <2>9, <2>10, <2>11, <2>13, <2>14, <2>15, <2>16, <2>17, SafeMoves, ZenonT(60)
<1>5. CASE Leave(t)
  <2> DEFINE todo == IF th[t].dir = None THEN th[t].todo ELSE Tail(th[t].todo)
             pc == IF th[t].target = None THEN "failed" ELSE IF todo = <<>> THEN "opened" ELSE "find"
             g == th[t].target
  <2>1. /\ th[t].pc = "leave" /\ th' = [th EXCEPT ![t].pc = pc, ![t].todo = todo, ![t].dir = th[t].target]
        /\ UNCHANGED <<alive, mount, records>> /\ Release(LeftHandles(t), {})
    BY <1>5, Zenon DEF Leave, At
  <2>2. pc \in {"failed", "opened", "find"} /\ (pc = "failed" <=> g = None)
    OBVIOUS
  <2> HIDE DEF todo, pc
  <2>3. Moved(t, pc, g, g, todo)
    BY <1>0, <2>1, ZenonT(60) DEF Moved, TypeInv, ThreadStates
  <2> HIDE DEF g
  <2>4. LeftHandles(t) \in SUBSET handles /\ handles' = handles \ LeftHandles(t)
    BY <2>1, Zenon DEF LeftHandles, WalkHandles, Release
  <2>5. Sole' /\ Counted' BY <1>0, <2>1, <2>4, ReleaseCounted, Zenon DEF SafeInv
  <2>6. g # None => Holds(g, Walk(t)) /\ g # th[t].dir /\ g \in Pointers(t)
    BY <1>0, <2>1 DEF PathOk, Pointers, Fresh, g
  <2>7. g # None => HoldsNext(g, Walk(t)) BY <2>4, <2>6 DEF Holds, HoldsNext, LeftHandles
  <2>8. PathOk(t)' BY <2>2, <2>3, <2>7, Zenon DEF PathOk, Moved, Fresh, Walking, Holds, HoldsNext
  <2>9. Pointers(t)' \subseteq {g} \ {None} BY <2>3, PointersMoved
  <2>10. Pointers(t)' \subseteq alive' BY <1>0, <2>1, <2>6, <2>9
  <2>11. \A x \in Pointers(t)' : \E d \in Pointers(t) : x.vol = d.vol BY <2>6, <2>9
  <2>12. th[t].pc \in Walking /\ pc \in Walking \cup {"opened", "failed"} BY <2>1, <2>2 DEF Walking
  <2>13. \A h \in handles : h.of # Walk(t) => h \in handles' BY <2>4 DEF LeftHandles, WalkHandles
  <2> QED BY <1>0, <2>1, <2>3, <2>4, <2>5, <2>8, <2>10, <2>11, <2>12, <2>13, SafeMoves, ZenonT(60)
<1> QED BY <1>1, <1>2, <1>3, <1>4, <1>5

\* A call that begins, or that ends: its handles are handed to its caller or
\* closed.
LEMMA SafeCall ==
  ASSUME BaseInv, SafeInv, BaseInv', NEW t \in Threads, \A u \in Threads \ {t} : th'[u] = th[u],
         UNCHANGED <<alive, mount, records>>, Sole', Counted', PathOk(t)', ShellQuiet,
         \A h \in handles : h.of \notin {Walk(t), User(t)} => h \in handles',
         \A h \in handles' : \E g \in handles : g.fop = h.fop,
         Pointers(t)' \subseteq Pointers(t) \cup {Root("basic")}
  PROVE  SafeInv'
<1>1. \A u \in Threads \ {t} : Pointers(u)' = Pointers(u) BY Zenon DEF Pointers, Fresh
<1>2. InUse'
  <2>1. Root("basic") \in alive BY Zenon DEF SafeInv, MountInv, RootsInv
  <2>2. \A u \in Threads : Pointers(u)' \subseteq alive' BY <1>1, <2>1 DEF SafeInv, InUse
  <2>3. \A h \in handles' : h.fop \in alive' BY Zenon DEF SafeInv, InUse
  <2> QED BY <2>2, <2>3 DEF InUse
<1>3. PathInv'
  <2>1. \A u \in Threads \ {t} : Fresh(u) => th[u].target \notin alive' BY Zenon DEF SafeInv, PathInv, PathOk
  <2>2. \A h \in handles, u \in Threads \ {t} : h.of = Walk(u) => h \in handles' BY OwnerFacts, ZenonT(60)
  <2> QED BY <2>1, <2>2, PathFrame, ZenonT(60) DEF SafeInv
<1>4. MountInv'
  <2>1. \A h \in handles : h.of.as = "volume" => h \in handles' BY OwnerFacts, Zenon
  <2>2. ASSUME NEW v \in Volumes \ {"basic"}, Unreachable(v) PROVE Unreachable(v)'
    <3>1. \A h \in handles' : h.fop.vol # v BY <2>2 DEF Unreachable
    <3>2. Root("basic").vol # v BY FileFacts
    <3>3. \A u \in Threads : \A f \in Pointers(u)' : f.vol # v BY <1>1, <2>2, <3>2 DEF Unreachable
    <3> QED BY <2>2, <3>1, <3>3, ZenonT(60) DEF Unreachable
  <2>3. alive' \subseteq Files BY Zenon DEF BaseInv, TypeInv
  <2> QED BY <2>1, <2>2, <2>3, MountFrame, Zenon DEF SafeInv
<1> QED BY <1>2, <1>3, <1>4, Zenon DEF SafeInv

LEMMA SafeOpening ==
  ASSUME BaseInv, SafeInv, BaseInv', NEW t \in Threads, NEW o, th' = [th EXCEPT ![t] = o],
         th[t].pc = "idle", o.pc = "follow", o.dir = None, o.target = Root("basic"),
         o.op \in {"open", "device"}, o.vol = "none",
         UNCHANGED <<alive, mount, records, handles, readers, writers>>
  PROVE  SafeInv'
<1>1. th'[t] = o /\ \A u \in Threads \ {t} : th'[u] = th[u] BY Zenon DEF BaseInv, TypeInv
<1>2. Pointers(t)' \subseteq {Root("basic")} BY <1>1, ZenonT(60) DEF Pointers
<1>3. PathOk(t)' BY <1>1, FileFacts, SMTT(30) DEF PathOk, Fresh, Roots
<1>4. Sole' /\ Counted' BY DEF SafeInv, Sole, Counted
<1>5. ShellQuiet BY <1>1 DEF ShellQuiet
<1> QED BY <1>1, <1>2, <1>3, <1>4, <1>5, SafeCall, SMTT(30)

LEMMA SafeIdle ==
  ASSUME BaseInv, SafeInv, BaseInv', NEW t \in Threads, th' = [th EXCEPT ![t] = Idle],
         th[t].pc \notin {"record", "clear", "erase"},
         UNCHANGED <<alive, mount, records>>, Sole', Counted',
         \A h \in handles : h.of # Walk(t) => h \in handles',
         \A h \in handles' : \E g \in handles : g.fop = h.fop
  PROVE  SafeInv'
<1>1. th'[t] = Idle /\ \A u \in Threads \ {t} : th'[u] = th[u] BY Zenon DEF BaseInv, TypeInv
<1>2. Pointers(t)' = {} BY <1>1, StateFacts, ZenonT(60) DEF Pointers
<1>3. PathOk(t)' BY <1>1, StateFacts, ZenonT(60) DEF PathOk, Fresh, Walking
<1>4. ShellQuiet BY <1>1, StateFacts DEF ShellQuiet
<1> QED BY <1>1, <1>2, <1>3, <1>4, SafeCall, ZenonT(60)

LEMMA SafeCalls ==
  ASSUME BaseInv, SafeInv, BaseInv', NEW t \in Threads,
         open(t) \/ create_device_file(t) \/ Opened(t) \/ create_device(t) \/ close(t) \/ create(t)
  PROVE  SafeInv'
<1>0. TypeInv /\ ThreadInv BY Zenon DEF BaseInv
<1>1. CASE open(t)
  <2>1. PICK p \in Paths, m \in Modes : th' = [th EXCEPT ![t] = Opening("open", p, m, "none", <<>>)]
    BY <1>1, Zenon DEF open
  <2>2. th[t].pc = "idle" /\ UNCHANGED <<alive, mount, records, handles, readers, writers>>
    BY <1>1, Zenon DEF open, At, tree
  <2> DEFINE o == Opening("open", p, m, "none", <<>>)
  <2>3. o.pc = "follow" /\ o.op = "open" /\ o.dir = None /\ o.target = Root("basic") /\ o.vol = "none"
    BY OpeningFields
  <2>4. th' = [th EXCEPT ![t] = o] BY <2>1, Zenon
  <2> HIDE DEF o
  <2> QED BY <2>2, <2>3, <2>4, SafeOpening, Zenon
<1>2. CASE create_device_file(t)
  <2> DEFINE b == Opening("device", <<"dev">>, open_rw, "none", <<>>)
  <2>1. PICK n \in Devices : th' = [th EXCEPT ![t] = [b EXCEPT !.name = n]]
    BY <1>2, Zenon DEF create_device_file
  <2>2. th[t].pc = "idle" /\ UNCHANGED <<alive, mount, records, handles, readers, writers>>
    BY <1>2, SMTT(30) DEF create_device_file, At, tree
  <2>3. b.pc = "follow" /\ b.op = "device" /\ b.dir = None /\ b.target = Root("basic") /\ b.vol = "none"
    BY OpeningFields
  <2>4. b \in ThreadStates
    BY OpeningType, StateFacts, ConstantsAssumption, Zenon
  <2> HIDE DEF b
  <2> DEFINE o == [b EXCEPT !.name = n]
  <2>5. o.pc = "follow" /\ o.op = "device" /\ o.dir = None /\ o.target = Root("basic") /\ o.vol = "none"
    BY <2>3, <2>4, Zenon DEF ThreadStates
  <2>6. th' = [th EXCEPT ![t] = o] BY <2>1
  <2> HIDE DEF o
  <2> QED BY <2>2, <2>5, <2>6, SafeOpening, ZenonT(60)
<1>3. CASE Opened(t)
  <2>1. handles' = Renamed(WalkHandles(t), User(t)) BY <1>3 DEF Opened, Renamed
  <2>2. WalkHandles(t) \in SUBSET handles BY Zenon DEF WalkHandles
  <2>3. th[t].pc = "opened" /\ th' = [th EXCEPT ![t] = Idle]
        /\ UNCHANGED <<alive, mount, records, readers, writers>>
    BY <1>3 DEF Opened, At, tree
  <2>4. Sole' /\ Counted' BY <1>0, <2>1, <2>2, <2>3, RenamedCounted, SMTT(30) DEF SafeInv
  <2>5. \A h \in handles : h.of # Walk(t) => h \in handles' BY <2>1 DEF Renamed, WalkHandles
  <2>6. \A h \in handles' : \E g \in handles : g.fop = h.fop BY <1>0, <2>1, <2>2, RenamedFrom, ZenonT(60)
  <2> QED BY <2>3, <2>4, <2>5, <2>6, SafeIdle, ZenonT(60)
<1>4. CASE create_device(t)
  <2>1. /\ th[t].pc = "opened" /\ th' = [th EXCEPT ![t] = Idle] /\ UNCHANGED <<alive, mount, records>>
        /\ Release(WalkHandles(t), {})
    BY <1>4 DEF create_device, At
  <2>2. WalkHandles(t) \in SUBSET handles /\ handles' = handles \ WalkHandles(t)
    BY <2>1, Zenon DEF WalkHandles, Release
  <2>3. Sole' /\ Counted' BY <1>0, <2>1, <2>2, ReleaseCounted, SMTT(30) DEF SafeInv
  <2>4. \A h \in handles : h.of # Walk(t) => h \in handles' BY <2>2, ZenonT(60) DEF WalkHandles
  <2> QED BY <2>1, <2>2, <2>3, <2>4, SafeIdle, ZenonT(60)
<1>5. CASE close(t)
  <2>1. PICK g \in handles : /\ g.of = User(t) /\ Release({g}, {}) /\ UNCHANGED <<alive, mount, records, th>>
    BY <1>5, Zenon DEF close
  <2>2. {g} \in SUBSET handles /\ handles' = handles \ {g} BY <2>1, ZenonT(60) DEF Release
  <2>3. Sole' /\ Counted' BY <1>0, <2>1, <2>2, ReleaseCounted, SMTT(30) DEF SafeInv
  <2>4. \A h \in handles : h.of \notin {Walk(t), User(t)} => h \in handles' BY <2>1, <2>2, SMTT(30)
  <2>5. \A h \in handles : h.of = Walk(t) => h \in handles' BY <2>1, <2>2, OwnerFacts, ZenonT(60)
  <2>6. PathOk(t) /\ th'[t] = th[t] BY <2>1 DEF SafeInv, PathInv
  <2>7. \A f : Holds(f, Walk(t)) => Holds(f, Walk(t))' BY <2>5 DEF Holds
  <2>8. PathOk(t)' BY <2>1, <2>6, <2>7, ZenonT(60) DEF PathOk, Fresh
  <2>9. ShellQuiet /\ Pointers(t)' = Pointers(t) BY <2>1, ZenonT(60) DEF ShellQuiet, Pointers, Fresh
  <2> QED BY <2>1, <2>2, <2>3, <2>4, <2>8, <2>9, SafeCall, SMTT(30)
<1>6. CASE create(t)
  <2>1. UNCHANGED <<alive, mount, records, th, handles, readers, writers>> BY <1>6, Zenon DEF create
  <2>2. Sole' /\ Counted' BY <2>1, ZenonT(60) DEF SafeInv, Sole, Counted
  <2>3. PathOk(t)' BY <2>1, Zenon DEF SafeInv, PathInv, PathOk, Fresh, Holds
  <2>4. ShellQuiet /\ Pointers(t)' = Pointers(t) BY <2>1, Zenon DEF ShellQuiet, Pointers, Fresh
  <2> QED BY <2>1, <2>2, <2>3, <2>4, SafeCall, SMTT(30)
<1> QED BY <1>1, <1>2, <1>3, <1>4, <1>5, <1>6, ZenonT(60)

\* What a thread has a pointer to is open, a volume's root, or a child of the
\* directory it is in.
LEMMA PointerKinds ==
  ASSUME BaseInv, SafeInv, NEW u \in Threads, NEW f \in Pointers(u)
  PROVE  \/ \E h \in handles : h.fop = f
         \/ f \in Roots
         \/ \E d \in Files, n \in STRING : f = Child(d, n) /\ Holds(d, Walk(u))
<1>0. ThreadOk(u) /\ PathOk(u) /\ th[u] \in ThreadStates
  BY Zenon DEF BaseInv, ThreadInv, SafeInv, PathInv, TypeInv
<1>1. f # None /\ (f = th[u].dir \/ (f = th[u].target /\ ~Fresh(u))) BY Zenon DEF Pointers
<1>2. th[u].pc \in PCs BY <1>0, Zenon DEF ThreadStates
<1>3. th[u].pc # "idle" BY <1>0, <1>1, StateFacts, ZenonT(60) DEF ThreadOk
<1>4. th[u].pc # "failed" BY <1>0, <1>1 DEF ThreadOk
<1>5. CASE th[u].pc \in {"clear", "erase"}
  <2>1. u = Shell /\ f = th[u].target BY <1>0, <1>1, <1>5, ZenonT(60) DEF ThreadOk
  <2>2. LastRecord(th[u].path) \in DOMAIN records
    BY <1>5, <2>1, LastRecordFacts DEF BaseInv, TypeInv, LeakInv, VolumeInv
  <2>3. f = records[LastRecord(th[u].path)].point BY <1>5, <2>1, Zenon DEF SafeInv, MountInv, ShellInv
  <2>4. RecordOk(LastRecord(th[u].path)) BY <2>2, Zenon DEF SafeInv, MountInv, RecordsInv
  <2> QED BY <2>3, <2>4, Zenon DEF RecordOk, Holds
<1>6. CASE th[u].pc = "record"
  <2>1. u = Shell /\ f = th[u].target BY <1>0, <1>1, <1>6, Zenon DEF ThreadOk
  <2> QED BY <1>6, <2>1, Zenon DEF SafeInv, MountInv, ShellInv, Holds
<1>7. CASE th[u].pc = "opened"
  <2>1. f = th[u].target BY <1>0, <1>1, <1>7, ZenonT(60) DEF ThreadOk
  <2> QED BY <1>0, <1>1, <1>7, <2>1, ZenonT(60) DEF PathOk, Holds
<1>8. CASE th[u].pc \in Walking
  <2>1. CASE f = th[u].dir BY <1>0, <1>1, <1>8, <2>1, ZenonT(60) DEF PathOk, Holds
  <2>2. CASE f = th[u].target /\ ~Fresh(u)
    <3>1. CASE th[u].pc = "find"
      <4>1. th[u].dir = th[u].target BY <1>0, <3>1, Zenon DEF ThreadOk
      <4> QED BY <2>1, <2>2, <4>1
    <3>2. CASE th[u].pc = "leave" BY <1>0, <1>1, <2>2, <3>2, Zenon DEF PathOk, Holds
    <3>3. CASE th[u].pc \in {"follow", "try"} /\ f \notin Roots
      <4>1. th[u].dir # None /\ f = Child(th[u].dir, Head(th[u].todo)) BY <1>0, <2>2, <3>3, ZenonT(60) DEF PathOk
      <4>2. Holds(th[u].dir, Walk(u)) BY <1>0, <1>8, <4>1, ZenonT(60) DEF PathOk
      <4>3. th[u].dir \in Files /\ Head(th[u].todo) \in STRING
        BY <1>0, <1>8, <4>1 DEF ThreadOk, ThreadStates
      <4> QED BY <4>1, <4>2, <4>3, ZenonT(60)
    <3> QED BY <1>8, <2>2, <3>1, <3>2, <3>3 DEF Walking, Fresh
  <2> QED BY <1>1, <2>1, <2>2, Zenon
<1> QED BY <1>2, <1>3, <1>4, <1>5, <1>6, <1>7, <1>8, Zenon DEF PCs, Walking

\* FileOperator::remove deletes a file that nobody has open or leads to.
LEMMA SafeRemove ==
  ASSUME BaseInv, SafeInv, BaseInv', NEW t \in Threads, remove(t)
  PROVE  SafeInv'
<1>1. PICK h \in handles, n \in Names \cup Devices :
        /\ h.of = User(t) /\ (Child(h.fop, n) \in alive => ~is_busy(Child(h.fop, n)))
        /\ alive' = alive \ {Child(h.fop, n)}
        /\ UNCHANGED <<mount, records, readers, writers, handles, th>>
  BY Zenon DEF remove
<1> DEFINE c == Child(h.fop, n)
<1>2. h.fop \in Files /\ n \in STRING BY ConstantsAssumption, Zenon DEF BaseInv, TypeInv, HandleSet
<1>3. c \notin Roots BY <1>2, ChildFacts, Zenon
<1>4. c \in alive => \A g \in handles : g.fop # c
  <2> SUFFICES ASSUME c \in alive PROVE \A g \in handles : g.fop # c BY Zenon
  <2>1. c \in Files /\ readers[c] = 0 /\ writers[c] = 0 BY <1>1, Zenon DEF BaseInv, TypeInv, is_busy
  <2> HIDE DEF c
  <2> QED BY <2>1, NoHandle, Zenon DEF BaseInv, SafeInv
<1>5. ASSUME c \in alive, NEW u \in Threads, c \in Pointers(u) PROVE FALSE
  <2>1. PICK d \in Files, m \in STRING : c = Child(d, m) /\ Holds(d, Walk(u))
    <3> HIDE DEF c
    <3> QED BY <1>3, <1>4, <1>5, PointerKinds, Zenon
  <2>2. d = h.fop BY <1>2, <2>1, ChildInjective, Zenon
  <2>3. PICK g \in handles : g.fop = h.fop /\ g.of = Walk(u) BY <2>1, <2>2, Zenon DEF Holds
  <2> QED BY <1>1, <2>3, OwnerFacts, ZenonT(60) DEF SafeInv, Sole
<1>6. alive' = alive \ {c} BY <1>1, ZenonT(60)
<1> HIDE DEF c
<1>7. Sole' /\ Counted' BY <1>1 DEF SafeInv, Sole, Counted
<1>8. \A u \in Threads : Pointers(u)' = Pointers(u) BY <1>1, Zenon DEF Pointers, Fresh
<1>9. InUse'
  <2>1. \A g \in handles' : g.fop \in alive' BY <1>1, <1>4, <1>6, Zenon DEF SafeInv, InUse
  <2>2. \A u \in Threads : Pointers(u)' \subseteq alive' BY <1>5, <1>6, <1>8, ZenonT(60) DEF SafeInv, InUse
  <2> QED BY <2>1, <2>2, Zenon DEF InUse
<1>10. PathInv'
  <2> SUFFICES ASSUME NEW u \in Threads PROVE PathOk(u)' BY Zenon DEF PathInv
  <2>1. PathOk(u) BY Zenon DEF SafeInv, PathInv
  <2> QED BY <1>1, <1>6, <2>1, ZenonT(60) DEF PathOk, Fresh, Holds
<1>11. MountInv'
  <2>1. \A v \in Volumes : Root(v) \in alive => Root(v) \in alive' BY <1>3, <1>6, Zenon DEF Roots
  <2>2. \A v \in Volumes \ {"basic"} : Unreachable(v) => Unreachable(v)'
    BY <1>1, <1>6, <1>8, Zenon DEF Unreachable
  <2>3. ShellQuiet BY <1>1, Zenon DEF ShellQuiet
  <2>4. alive' \subseteq Files BY ZenonT(60) DEF BaseInv, TypeInv
  <2> QED BY <1>1, <1>6, <2>1, <2>2, <2>3, <2>4, MountFrame, ZenonT(60) DEF SafeInv
<1> QED BY <1>7, <1>9, <1>10, <1>11, Zenon DEF SafeInv

\* The shell begins to open the device or the mountpoint of a volume that
\* nothing leads into.
LEMMA SafeMounting ==
  ASSUME BaseInv, SafeInv, BaseInv', NEW v \in Volumes \ {"basic"}, NEW o, th' = [th EXCEPT ![Shell] = o],
         o.pc = "follow", o.op \in {"mount", "probe"}, o.dir = None, o.target = Root("basic"), o.vol = v,
         th[Shell].pc \notin {"record", "clear", "erase"},
         alive' \in {alive, alive \cup {Root(v)}}, o.op = "mount" => Root(v) \in alive',
         UNCHANGED <<mount, records>>, Sole', Counted',
         \A h \in handles : h.of # Walk(Shell) => h \in handles',
         \A h \in handles' : \E g \in handles : g.fop = h.fop,
         v = "devfs" \/ Unreachable(v),
         v = "devfs" \/ \A i \in DOMAIN records : records[i].vol # v
  PROVE  SafeInv'
<1>1. /\ Shell \in Threads /\ th'[Shell] = o /\ \A u \in Threads \ {Shell} : th'[u] = th[u]
  BY ConstantsAssumption, Zenon DEF BaseInv, TypeInv
<1>2. \A u \in Threads \ {Shell} : Pointers(u)' = Pointers(u) BY <1>1, ZenonT(60) DEF Pointers, Fresh
<1>3. Pointers(Shell)' \subseteq {Root("basic")} BY <1>1, Zenon DEF Pointers
<1>4. Root("basic") \in alive /\ Root("devfs") \in alive /\ Root("basic").vol = "basic"
  BY FileFacts, Zenon DEF SafeInv, MountInv, RootsInv
<1>5. Root(v) \in Files /\ Root(v).vol = v BY FileFacts, Zenon
<1>6. InUse'
  <2>1. \A h \in handles' : h.fop \in alive' BY ZenonT(60) DEF SafeInv, InUse
  <2>2. \A u \in Threads : Pointers(u)' \subseteq alive' BY <1>2, <1>3, <1>4 DEF SafeInv, InUse
  <2> QED BY <2>1, <2>2, Zenon DEF InUse
<1>7. PathInv'
  <2>1. ASSUME NEW u \in Threads \ {Shell}, Fresh(u) PROVE th[u].target \notin alive'
    <3>1. th[u].target \notin alive BY <2>1, ZenonT(60) DEF SafeInv, PathInv, PathOk
    <3>2. th[u].target \notin Roots BY <2>1, FreshFacts, ChildFacts, SMTT(30) DEF SafeInv
    <3> QED BY <3>1, <3>2, Zenon DEF Roots
  <2>2. \A h \in handles, u \in Threads \ {Shell} : h.of = Walk(u) => h \in handles' BY OwnerFacts, ZenonT(60)
  <2>3. PathOk(Shell)' BY <1>1, FileFacts DEF PathOk, Fresh, Roots
  <2> QED BY <1>1, <2>1, <2>2, <2>3, PathFrame, ZenonT(60) DEF SafeInv
<1>8. RootsInv'
  <2>1. RootsInv BY Zenon DEF SafeInv, MountInv
  <2>2. \A f \in alive' : Root(f.vol) \in alive' BY <1>5, <2>1, ZenonT(60) DEF RootsInv
  <2> QED BY <2>1, <2>2, Zenon DEF RootsInv
<1>9. \A f, w : Holds(f, Mounted(w)) => Holds(f, Mounted(w))' BY OwnerFacts DEF Holds
<1>10. RecordsInv'
  <2>1. RecordsInv BY Zenon DEF SafeInv, MountInv
  <2>2. \A i \in DOMAIN records : RecordOk(i)' BY <1>1, <1>9, <2>1, Zenon DEF RecordsInv, RecordOk
  <2> QED BY <2>1, <2>2, ZenonT(60) DEF RecordsInv
<1>11. v # "devfs" => Unreachable(v)'
  <2> SUFFICES ASSUME Unreachable(v) PROVE Unreachable(v)' BY Zenon
  <2>1. \A f \in alive' : f.vol = v => f = Root(v) BY Zenon DEF Unreachable
  <2>2. \A h \in handles' : h.fop.vol # v BY Zenon DEF Unreachable
  <2>3. \A u \in Threads : \A f \in Pointers(u)' : f.vol # v BY <1>2, <1>3, <1>4, ZenonT(60) DEF Unreachable
  <2> QED BY <2>1, <2>2, <2>3, Zenon DEF Unreachable
<1>12. ShellInv' BY <1>1, <1>11, Zenon DEF ShellInv
<1> QED BY <1>6, <1>7, <1>8, <1>10, <1>12, SMTT(30) DEF SafeInv, MountInv

LEMMA SafeMountVolume ==
  ASSUME BaseInv, SafeInv, BaseInv', NEW t \in Threads, mount_volume(t)
  PROVE  SafeInv'
<1>1. /\ t = Shell /\ th[Shell].pc = "idle"
      /\ UNCHANGED <<mount, records, readers, writers, handles>>
  BY Zenon DEF mount_volume, At
<1>2. ASSUME NEW v \in TmpVolumes \cup FatVolumes, ~Busy(v)
      PROVE  /\ Unreachable(v) /\ v \in Volumes \ {"basic"}
             /\ \A i \in DOMAIN records : records[i].vol # v
  <2>0. v \in Volumes \ {"basic"} BY ConstantsAssumption, ZenonT(60) DEF Volumes
  <2>1. Root(v) \notin alive /\ Root(v) # None BY <1>2, <2>0, FileFacts DEF Busy
  <2>2. \A f \in alive : f.vol # v BY <2>1, Zenon DEF SafeInv, MountInv, RootsInv
  <2>3. \A f \in Files : mount[f] # Root(v) BY <2>1, ZenonT(60) DEF SafeInv, MountInv, RootsInv
  <2>4. Unreachable(v) BY <1>2, <2>2, <2>3, SMTT(30) DEF Unreachable, Busy
  <2>5. ASSUME NEW i \in DOMAIN records, records[i].vol = v PROVE FALSE
    <3>1. RecordOk(i) /\ records[i].point \in Files BY RecordFacts, Zenon DEF SafeInv, MountInv, RecordsInv, BaseInv
    <3>2. mount[records[i].point] = Root(v) BY <1>1, <2>5, <3>1, ZenonT(60) DEF RecordOk
    <3> QED BY <2>3, <3>1, <3>2
  <2> QED BY <2>0, <2>4, <2>5
<1>3. Sole' /\ Counted' BY <1>1, ZenonT(60) DEF SafeInv, Sole, Counted
<1>4. PICK p \in Mountpoints :
        \/ \E v \in {"devfs"} \cup {w \in TmpVolumes : ~Busy(w)} : NewVolume(t, v, p)
        \/ \E v \in {w \in FatVolumes : ~Busy(w)} :
             th' = [th EXCEPT ![t] = Opening("probe", DiskPath, open_rw, v, p)] /\ alive' = alive
  BY Zenon DEF mount_volume
<1>5. CASE \E v \in {"devfs"} \cup {w \in TmpVolumes : ~Busy(w)} : NewVolume(t, v, p)
  <2>1. PICK v \in {"devfs"} \cup {w \in TmpVolumes : ~Busy(w)} : NewVolume(t, v, p) BY <1>5
  <2> DEFINE o == Opening("mount", p, open_rw, v, p)
  <2>2. th' = [th EXCEPT ![Shell] = o] /\ alive' = alive \cup {Root(v)} BY <1>1, <2>1, ZenonT(60) DEF NewVolume
  <2>3. o.pc = "follow" /\ o.op = "mount" /\ o.dir = None /\ o.target = Root("basic") /\ o.vol = v
    BY OpeningFields
  <2> HIDE DEF o
  <2>4. v \in Volumes \ {"basic"} BY <1>2, ZenonT(60) DEF Volumes
  <2>5. v = "devfs" \/ (Unreachable(v) /\ \A i \in DOMAIN records : records[i].vol # v) BY <1>2, ZenonT(60)
  <2> QED BY <1>1, <1>3, <2>2, <2>3, <2>4, <2>5, SafeMounting, Zenon
<1>6. CASE \E v \in {w \in FatVolumes : ~Busy(w)} :
             th' = [th EXCEPT ![t] = Opening("probe", DiskPath, open_rw, v, p)] /\ alive' = alive
  <2>1. PICK v \in {w \in FatVolumes : ~Busy(w)} :
             th' = [th EXCEPT ![t] = Opening("probe", DiskPath, open_rw, v, p)] /\ alive' = alive
    BY <1>6, ZenonT(60)
  <2> DEFINE o == Opening("probe", DiskPath, open_rw, v, p)
  <2>2. th' = [th EXCEPT ![Shell] = o] BY <1>1, <2>1, SMTT(30)
  <2>3. o.pc = "follow" /\ o.op = "probe" /\ o.dir = None /\ o.target = Root("basic") /\ o.vol = v
    BY OpeningFields
  <2> HIDE DEF o
  <2>4. v \in Volumes \ {"basic"} BY <1>2, Zenon
  <2>5. v = "devfs" \/ (Unreachable(v) /\ \A i \in DOMAIN records : records[i].vol # v) BY <1>2, Zenon
  <2> QED BY <1>1, <1>3, <2>1, <2>2, <2>3, <2>4, <2>5, SafeMounting, ZenonT(60)
<1> QED BY <1>4, <1>5, <1>6, ZenonT(60)

LEMMA SafeFatDriver ==
  ASSUME BaseInv, SafeInv, BaseInv', NEW t \in Threads, create_fat_driver(t)
  PROVE  SafeInv'
<1>0. ThreadOk(t) /\ TypeInv BY Zenon DEF BaseInv, ThreadInv
<1>1. th[t].pc = "opened" /\ th[t].op = "probe" /\ UNCHANGED <<mount, records>>
  BY Zenon DEF create_fat_driver, At
<1>2. t = Shell /\ th[t].vol \in Volumes \ {"basic"} /\ th[t].vol \in FatVolumes BY <1>0, <1>1, Zenon DEF ThreadOk
<1>3. WalkHandles(t) \in SUBSET handles BY Zenon DEF WalkHandles
<1>4. CASE /\ NewVolume(t, th[t].vol, th[t].path)
           /\ handles' = (handles \ WalkHandles(t))
                           \cup {[h EXCEPT !.of = Mounted(th[t].vol)] : h \in WalkHandles(t)}
           /\ UNCHANGED <<readers, writers>>
  <2> DEFINE v == th[t].vol
             o == Opening("mount", th[t].path, open_rw, v, th[t].path)
  <2>1. handles' = Renamed(WalkHandles(t), Mounted(v)) BY <1>4 DEF Renamed
  <2>2. th' = [th EXCEPT ![Shell] = o] /\ alive' = alive \cup {Root(v)} BY <1>2, <1>4, SMTT(30) DEF NewVolume
  <2>3. o.pc = "follow" /\ o.op = "mount" /\ o.dir = None /\ o.target = Root("basic") /\ o.vol = v
    BY OpeningFields
  <2> HIDE DEF o
  <2>4. v # "devfs" BY <1>2, ConstantsAssumption, ZenonT(60)
  <2>5. Unreachable(v) BY <1>1, <1>2, <2>4, ZenonT(60) DEF SafeInv, MountInv, ShellInv
  <2>6. \A i \in DOMAIN records : records[i].vol # v
    BY <1>2, <2>4, ZenonT(60) DEF SafeInv, MountInv, RecordsInv, RecordOk
  <2>7. Sole' /\ Counted' BY <1>0, <1>3, <1>4, <2>1, RenamedCounted, ZenonT(60) DEF SafeInv
  <2>8. \A h \in handles : h.of # Walk(t) => h \in handles' BY <2>1 DEF Renamed, WalkHandles
  <2>9. \A h \in handles' : \E g \in handles : g.fop = h.fop BY <1>0, <1>3, <2>1, RenamedFrom, ZenonT(60)
  <2>10. v \in Volumes \ {"basic"} BY <1>2, Zenon
  <2> HIDE DEF v
  <2> QED BY <1>1, <1>2, <2>2, <2>3, <2>5, <2>6, <2>7, <2>8, <2>9, <2>10, SafeMounting, ZenonT(60)
<1>5. CASE alive' = alive /\ Release(WalkHandles(t), {}) /\ th' = [th EXCEPT ![t] = Idle]
  <2>1. handles' = handles \ WalkHandles(t) BY <1>5, ZenonT(60) DEF Release
  <2>2. Sole' /\ Counted' BY <1>0, <1>3, <1>5, ReleaseCounted, SMTT(30) DEF SafeInv
  <2>3. \A h \in handles : h.of # Walk(t) => h \in handles' BY <2>1 DEF WalkHandles
  <2> QED BY <1>1, <1>5, <2>1, <2>2, <2>3, SafeIdle, ZenonT(60)
<1> QED BY <1>4, <1>5, Zenon DEF create_fat_driver

\* set_mount_driver: only the shell's walk has the mountpoint open, so no volume
\* is mounted on it yet.
LEMMA SafeSetMount ==
  ASSUME BaseInv, SafeInv, BaseInv', NEW t \in Threads, set_mount_driver(t)
  PROVE  SafeInv'
<1>0. ThreadOk(t) /\ PathOk(t) /\ TypeInv /\ th[t] \in ThreadStates
  BY Zenon DEF BaseInv, ThreadInv, SafeInv, PathInv, TypeInv
<1>1. /\ th[t].pc = "opened" /\ th[t].op = "mount" /\ UNCHANGED <<alive, records, readers, writers>>
      /\ mount' = [mount EXCEPT ![th[t].target] = Root(th[t].vol)]
      /\ handles' = Renamed(WalkHandles(t), Mounted(th[t].vol)) /\ th' = [th EXCEPT ![t].pc = "record"]
  BY Zenon DEF set_mount_driver, At, Renamed
<1>2. /\ t = Shell /\ th[t].vol \in Volumes \ {"basic"} /\ th[t].target \in Files /\ th[t].dir = th[t].target
      /\ Shell \in Threads
  BY <1>0, <1>1, ConstantsAssumption DEF ThreadOk, ThreadStates
<1> DEFINE f == th[t].target
           v == th[t].vol
<1>3. Moved(t, "record", f, f, th[t].todo) BY <1>0, <1>1, <1>2, MovesOn, ZenonT(60) DEF PCs
<1>4. Holds(f, Walk(t)) BY <1>0, <1>1, <1>2, FileFacts, SMTT(30) DEF PathOk
<1>5. WalkHandles(t) \in SUBSET handles BY Zenon DEF WalkHandles
<1>6. HoldsNext(f, Mounted(v))
  <2>1. PICK h \in WalkHandles(t) : h.fop = f BY <1>4, Zenon DEF Holds, WalkHandles
  <2> HIDE DEF f, v
  <2>2. \E g \in Renamed(WalkHandles(t), Mounted(v)) : g.fop = h.fop /\ g.of = Mounted(v)
    BY <1>0, <1>5, RenamedFacts
  <2> QED BY <1>1, <2>1, <2>2 DEF HoldsNext, v
<1>7. \A h \in handles : h.of # Walk(t) => h \in handles' BY <1>1, Zenon DEF Renamed, WalkHandles
<1>8. \A h \in handles' : \E g \in handles : g.fop = h.fop BY <1>0, <1>1, <1>5, RenamedFrom, ZenonT(60)
<1>9. \A i \in DOMAIN records : records[i].point # f
  BY <1>4, OwnerFacts DEF SafeInv, MountInv, RecordsInv, RecordOk, Holds, Sole
<1>10. Sole' /\ Counted' BY <1>0, <1>1, <1>5, RenamedCounted, ZenonT(60) DEF SafeInv
<1>11. \A u \in Threads \ {t} : th'[u] = th[u] /\ Pointers(u)' = Pointers(u)
  BY <1>3, Zenon DEF Moved, Pointers, Fresh
<1>12. Pointers(t)' \subseteq Pointers(t)
  <2>1. Pointers(t)' \subseteq {f} \ {None} BY <1>3, PointersMoved
  <2>2. f # None => f \in Pointers(t) BY <1>2, Zenon DEF Pointers
  <2> QED BY <2>1, <2>2, ZenonT(60)
<1>13. /\ th'[Shell].pc = "record" /\ th'[Shell].op = "mount" /\ th'[Shell].vol = v /\ th'[Shell].target = f
  BY <1>1, <1>2, <1>3, Zenon DEF Moved
<1>14. mount' = [mount EXCEPT ![f] = Root(v)] /\ f \in Files /\ v \in Volumes \ {"basic"} BY <1>1, <1>2, ZenonT(60)
<1>15. Root(v) \in alive /\ (v # "devfs" => Unreachable(v))
  BY <1>1, <1>2 DEF SafeInv, MountInv, ShellInv
<1>16. \A i \in DOMAIN records : records[i].vol # "devfs" => records[i].vol # v
  BY <1>2, Zenon DEF SafeInv, MountInv, RecordsInv, RecordOk
<1> HIDE DEF f, v
<1>17. InUse'
  <2>1. \A h \in handles' : h.fop \in alive' BY <1>1, <1>8 DEF SafeInv, InUse
  <2>2. \A u \in Threads : Pointers(u)' \subseteq alive' BY <1>1, <1>11, <1>12 DEF SafeInv, InUse
  <2> QED BY <2>1, <2>2 DEF InUse
<1>18. PathInv'
  <2>1. PathOk(t)' BY <1>2, <1>13, Zenon DEF PathOk, Fresh, Walking
  <2>2. \A u \in Threads \ {t} : Fresh(u) => th[u].target \notin alive'
    BY <1>1, ZenonT(60) DEF SafeInv, PathInv, PathOk
  <2>3. \A h \in handles, u \in Threads \ {t} : h.of = Walk(u) => h \in handles' BY <1>7, OwnerFacts
  <2> QED BY <1>11, <2>1, <2>2, <2>3, PathFrame, ZenonT(60) DEF SafeInv
<1>19. \A g \in Files : mount'[g] = IF g = f THEN Root(v) ELSE mount[g] BY <1>0, <1>14, SMTT(30) DEF TypeInv
<1>20. RootsInv'
  <2>0. RootsInv BY Zenon DEF SafeInv, MountInv
  <2>1. \A g \in Files : mount'[g] # None => mount'[g] \in alive' BY <1>1, <1>15, <1>19, <2>0, SMTT(30) DEF RootsInv
  <2>2. ASSUME NEW a \in Files, NEW b \in Files, mount'[a] = mount'[b], mount'[a] \notin {None, Root("devfs")}
        PROVE  a = b
    <3>1. CASE v = "devfs" BY <1>19, <2>0, <2>2, <3>1, ZenonT(60) DEF RootsInv
    <3>2. CASE v # "devfs"
      <4>1. \A g \in Files : mount[g] # Root(v) BY <1>15, <3>2 DEF Unreachable
      <4> QED BY <1>19, <2>0, <2>2, <4>1, SMTT(30) DEF RootsInv
    <3> QED BY <3>1, <3>2, Zenon
  <2> QED BY <1>1, <2>0, <2>1, <2>2, SMTT(30) DEF RootsInv
<1>21. RecordsInv'
  <2>0. RecordsInv BY Zenon DEF SafeInv, MountInv
  <2>1. ASSUME NEW i \in DOMAIN records PROVE RecordOk(i)'
    <3>1. RecordOk(i) /\ records[i].point \in Files BY <1>0, <2>0, RecordFacts, SMTT(30) DEF RecordsInv
    <3>2. mount'[records[i].point] = Root(records[i].vol) BY <1>1, <1>2, <1>9, <1>19, <3>1, SMTT(30) DEF RecordOk
    <3>3. \A g, w : Holds(g, Mounted(w)) => Holds(g, Mounted(w))' BY <1>7, OwnerFacts, ZenonT(60) DEF Holds
    <3> QED BY <1>1, <1>13, <1>16, <3>1, <3>2, <3>3, ZenonT(60) DEF RecordOk
  <2> QED BY <1>1, <2>0, <2>1 DEF RecordsInv
<1>22. ShellInv' BY <1>1, <1>6, <1>9, <1>13, <1>14, <1>15, <1>19, SMTT(30) DEF ShellInv, Holds, HoldsNext
<1> QED BY <1>10, <1>17, <1>18, <1>20, <1>21, <1>22, SMTT(30) DEF SafeInv, MountInv

\* The end of a mount or unmount, which may delete a volume that nothing leads
\* into.
LEMMA SafeDone ==
  ASSUME BaseInv, SafeInv, BaseInv', th' = [th EXCEPT ![Shell] = Idle], mount' = mount,
         handles' \subseteq handles,
         \A h \in handles, u \in Threads : h.of = Walk(u) => h \in handles' \/ u = Shell,
         Sole', Counted', RecordsInv', NEW v,
         \/ alive' = alive
         \/ alive' = alive \ Delete(v) /\ v \in Volumes \ {"basic"} /\ (v # "devfs" => Unreachable(v))
  PROVE  SafeInv'
<1>1. /\ Shell \in Threads /\ th'[Shell] = Idle /\ \A u \in Threads \ {Shell} : th'[u] = th[u]
  BY ConstantsAssumption, ZenonT(60) DEF BaseInv, TypeInv
<1>2. \A u \in Threads \ {Shell} : Pointers(u)' = Pointers(u) BY <1>1, SMTT(30) DEF Pointers, Fresh
<1>3. Pointers(Shell)' = {} BY <1>1, StateFacts, SMTT(30) DEF Pointers
<1>4. PathInv'
  <2>1. PathOk(Shell)' BY <1>1, StateFacts, ZenonT(60) DEF PathOk, Fresh, Walking
  <2>2. alive' \subseteq alive BY Zenon
  <2>3. \A u \in Threads \ {Shell} : Fresh(u) => th[u].target \notin alive'
    BY <2>2, Zenon DEF SafeInv, PathInv, PathOk
  <2> QED BY <1>1, <2>1, <2>3, PathFrame, SMTT(30) DEF SafeInv
<1>5. ShellInv' BY <1>1, StateFacts, ZenonT(60) DEF ShellInv
<1>6. CASE alive' = alive
  <2>1. InUse' BY <1>2, <1>3, <1>6 DEF SafeInv, InUse
  <2>2. RootsInv' BY <1>6, ZenonT(60) DEF SafeInv, MountInv, RootsInv
  <2> QED BY <1>4, <1>5, <2>1, <2>2, SMTT(30) DEF SafeInv, MountInv
<1>7. CASE alive' = alive \ Delete(v) /\ v \in Volumes \ {"basic"} /\ v # "devfs" /\ Unreachable(v)
  <2>1. alive' = {f \in alive : f.vol # v} BY <1>7 DEF Delete
  <2>2. InUse'
    <3>1. \A h \in handles' : h.fop \in alive' BY <1>7, <2>1, Zenon DEF SafeInv, InUse, Unreachable
    <3>2. \A u \in Threads : Pointers(u)' \subseteq alive'
      BY <1>2, <1>3, <1>7, <2>1, ZenonT(60) DEF SafeInv, InUse, Unreachable
    <3> QED BY <3>1, <3>2 DEF InUse
  <2>3. RootsInv'
    <3>0. RootsInv /\ \A w \in Volumes : Root(w).vol = w BY FileFacts DEF SafeInv, MountInv
    <3>1. Root("basic") \in alive' /\ Root("devfs") \in alive' BY <1>7, <2>1, <3>0, FileFacts, ZenonT(60) DEF RootsInv
    <3>2. ASSUME NEW f \in alive' PROVE Root(f.vol) \in alive'
      <4>1. f \in alive /\ f.vol # v /\ f.vol \in Volumes BY <2>1, FileFacts, Zenon DEF BaseInv, TypeInv
      <4> QED BY <2>1, <3>0, <4>1, ZenonT(60) DEF RootsInv
    <3>3. ASSUME NEW f \in Files, mount[f] # None PROVE mount[f] \in alive'
      <4>1. mount[f] \in alive /\ mount[f] # Root(v) BY <1>7, <3>0, <3>3, ZenonT(60) DEF RootsInv, Unreachable
      <4>2. PICK w \in Volumes : mount[f] = Root(w) BY <3>3 DEF BaseInv, TypeInv, Roots
      <4> QED BY <2>1, <3>0, <4>1, <4>2, ZenonT(60)
    <3> QED BY <3>0, <3>1, <3>2, <3>3, SMTT(30) DEF RootsInv
  <2> QED BY <1>4, <1>5, <2>2, <2>3, SMTT(30) DEF SafeInv, MountInv
<1>8. v = "devfs" => alive \ Delete(v) = alive BY ZenonT(60) DEF Delete
<1> QED BY <1>6, <1>7, <1>8

LEMMA SafeRecord ==
  ASSUME BaseInv, SafeInv, BaseInv', NEW t \in Threads, record(t)
  PROVE  SafeInv'
<1>0. ThreadOk(t) /\ TypeInv /\ RecordsInv BY Zenon DEF BaseInv, ThreadInv, SafeInv, MountInv
<1> DEFINE r == [path |-> th[t].path, point |-> th[t].target, vol |-> th[t].vol]
           n == Len(records)
<1>1. /\ th[t].pc = "record" /\ records' = Append(records, r) /\ th' = [th EXCEPT ![t] = Idle]
      /\ UNCHANGED <<alive, mount, readers, writers, handles>>
  BY Zenon DEF record, At
<1>2. t = Shell /\ th[t].vol \in Volumes \ {"basic"} BY <1>0, <1>1, Zenon DEF ThreadOk
<1>3. r.point = th[Shell].target /\ r.vol = th[Shell].vol BY <1>2, ZenonT(60)
<1> HIDE DEF r
<1>4. /\ n \in Nat /\ DOMAIN records = 1..n /\ DOMAIN records' = 1..(n + 1)
      /\ \A i \in 1..n : records'[i] = records[i]
      /\ records'[n + 1] = r
  BY <1>0, <1>1, AppendFacts, SMTT(60) DEF TypeInv
<1>5. th'[Shell] = Idle /\ Idle.vol = "none" BY <1>1, <1>2, StateFacts, Zenon DEF BaseInv, TypeInv
<1>6. \A i \in 1..n : /\ Holds(records[i].point, Mounted(records[i].vol))
                      /\ records[i].vol # "basic" /\ mount[records[i].point] = Root(records[i].vol)
                      /\ records[i].vol # "devfs" => records[i].vol # r.vol
                      /\ records[i].vol # "none"
  BY <1>0, <1>1, <1>2, <1>3, <1>4, RecordFacts, FileFacts, SMTT(60) DEF RecordsInv, RecordOk
<1>7. /\ Holds(r.point, Mounted(r.vol)) /\ r.vol # "basic" /\ mount[r.point] = Root(r.vol) /\ r.vol # "none"
      /\ \A i \in 1..n : records[i].point # r.point
  BY <1>1, <1>2, <1>3, <1>4, FileFacts, ZenonT(60) DEF SafeInv, MountInv, ShellInv
<1>8. ASSUME NEW i \in 1..(n + 1) PROVE RecordOk(i)'
  <2>1. CASE i \in 1..n BY <1>1, <1>4, <1>5, <1>6, <2>1, ZenonT(60) DEF RecordOk, Holds
  <2>2. CASE i = n + 1 BY <1>1, <1>4, <1>5, <1>7, <2>2, ZenonT(60) DEF RecordOk, Holds
  <2> QED BY <1>4, <2>1, <2>2, SMTT(30)
<1>9. ASSUME NEW i \in 1..(n + 1), NEW j \in 1..(n + 1), i # j
      PROVE  /\ records'[i].point # records'[j].point
             /\ records'[i].vol = records'[j].vol => records'[i].vol = "devfs"
  <2>1. CASE i \in 1..n /\ j \in 1..n BY <1>0, <1>4, <1>9, <2>1, ZenonT(60) DEF RecordsInv
  <2>2. CASE i \in 1..n /\ j = n + 1 BY <1>4, <1>6, <1>7, <2>2, ZenonT(60)
  <2>3. CASE i = n + 1 /\ j \in 1..n BY <1>4, <1>6, <1>7, <2>3, ZenonT(60)
  <2> QED BY <1>4, <1>9, <2>1, <2>2, <2>3, SMTT(30)
<1>10. RecordsInv' BY <1>4, <1>8, <1>9, SMTT(30) DEF RecordsInv
<1>11. Sole' /\ Counted' BY <1>1 DEF SafeInv, Sole, Counted
<1> QED BY <1>1, <1>2, <1>10, <1>11, SafeDone, SMTT(30)

\* A mount that has failed deletes a volume that was never reachable.
LEMMA SafeFailed ==
  ASSUME BaseInv, SafeInv, BaseInv', NEW t \in Threads, Failed(t)
  PROVE  SafeInv'
<1>0. ThreadOk(t) /\ TypeInv /\ RecordsInv BY Zenon DEF BaseInv, ThreadInv, SafeInv, MountInv
<1> DEFINE vol == IF th[t].op = "mount" THEN th[t].vol ELSE "none"
           gone == {h \in handles : h.of = Mounted(vol) /\ vol \in FatVolumes}
<1>1. /\ th[t].pc = "failed" /\ UNCHANGED <<mount, records>> /\ th' = [th EXCEPT ![t] = Idle]
      /\ alive' = (IF vol = "none" THEN alive ELSE alive \ Delete(vol)) /\ Release(gone, {})
  BY Zenon DEF Failed, At
<1>2. gone \in SUBSET handles /\ handles' = handles \ gone BY <1>1, Zenon DEF Release
<1>3. \A h \in handles : h.of # Mounted(vol) => h \in handles' BY <1>2, Zenon
<1>4. th[t].op = "mount" => t = Shell /\ vol \in Volumes \ {"basic"} /\ vol = th[Shell].vol BY <1>0, Zenon DEF ThreadOk
<1>5. th[t].op # "mount" => vol = "none" BY Zenon
<1>6. \A h \in handles : h \in gone => h.of = Mounted(vol) /\ vol \in FatVolumes BY Zenon
<1>7. "none" \notin FatVolumes /\ "devfs" \notin FatVolumes BY ConstantsAssumption, Zenon
<1> HIDE DEF vol, gone
<1>8. Sole' /\ Counted' BY <1>0, <1>1, <1>2, ReleaseCounted DEF SafeInv
<1>9. CASE th[t].op # "mount"
  <2>1. handles' = handles /\ alive' = alive BY <1>1, <1>2, <1>5, <1>6, <1>7, <1>9, SMTT(30)
  <2> QED BY <1>1, <1>8, <2>1, SafeIdle, ZenonT(60)
<1>10. CASE th[t].op = "mount"
  <2>1. t = Shell /\ vol \in Volumes \ {"basic"} /\ vol = th[Shell].vol BY <1>4, <1>10
  <2>2. vol # "devfs" => Unreachable(vol) BY <1>1, <1>10, <2>1, ZenonT(60) DEF SafeInv, MountInv, ShellInv
  <2>3. alive' = alive \ Delete(vol) BY <1>1, <2>1, FileFacts, ZenonT(60)
  <2>4. th'[Shell] = Idle /\ Idle.vol = "none" BY <1>1, <2>1, StateFacts, ZenonT(60) DEF BaseInv, TypeInv
  <2>5. ASSUME NEW i \in DOMAIN records PROVE RecordOk(i)'
    <3>1. RecordOk(i) /\ records[i].vol # "none" BY <1>0, RecordFacts, FileFacts DEF RecordsInv
    <3>2. PICK h \in handles : h.fop = records[i].point /\ h.of = Mounted(records[i].vol)
      BY <3>1, ZenonT(60) DEF RecordOk, Holds
    <3>3. h \in handles'
      <4>1. CASE records[i].vol = "devfs" BY <1>2, <1>6, <1>7, <3>2, <4>1, OwnerFacts, ZenonT(60)
      <4>2. CASE records[i].vol # "devfs"
        <5>1. records[i].vol # vol BY <2>1, <3>1, <4>2, Zenon DEF RecordOk
        <5> QED BY <1>3, <3>2, <5>1, OwnerFacts, ZenonT(60)
      <4> QED BY <4>1, <4>2
    <3>4. mount[records[i].point] = Root(records[i].vol) BY <1>1, <2>1, <3>1, Zenon DEF RecordOk
    <3> QED BY <1>1, <2>4, <3>1, <3>2, <3>3, <3>4, ZenonT(60) DEF RecordOk, Holds
  <2>6. RecordsInv' BY <1>0, <1>1, <2>5, ZenonT(60) DEF RecordsInv
  <2>7. \A h \in handles, u \in Threads : h.of = Walk(u) => h \in handles' BY <1>3, OwnerFacts, Zenon
  <2> QED BY <1>1, <1>2, <1>8, <2>1, <2>2, <2>3, <2>6, <2>7, SafeDone, SMTT(30)
<1> QED BY <1>9, <1>10, Zenon

\* unmount has found the record and its volume unused.
LEMMA SafeUnmount ==
  ASSUME BaseInv, SafeInv, BaseInv', NEW t \in Threads, unmount(t)
  PROVE  SafeInv'
<1>0. ThreadOk(t) /\ TypeInv /\ RecordsInv BY Zenon DEF BaseInv, ThreadInv, SafeInv, MountInv
<1>1. t = Shell /\ th[t].pc = "idle" /\ UNCHANGED <<alive, mount, records, readers, writers, handles>>
  BY Zenon DEF unmount, At, tree
<1>2. PICK k \in DOMAIN records :
        /\ IsLast(k)
        /\ th' = [th EXCEPT ![t].pc = "clear", ![t].target = records[k].point, ![t].path = records[k].path]
  BY Zenon DEF unmount
<1> DEFINE q == records[k].point
           p == records[k].path
<1>3. LastRecord(p) = k BY <1>0, <1>2, LastRecordIs, ZenonT(60) DEF TypeInv
<1>4. RecordOk(k) BY <1>0, Zenon DEF RecordsInv
<1>5. q \in alive BY <1>4, Zenon DEF RecordOk, Holds, SafeInv, InUse
<1> HIDE DEF q, p
<1>6. th[t] = Idle BY <1>0, <1>1, ZenonT(60) DEF ThreadOk
<1>7. /\ th'[t].pc = "clear" /\ th'[t].target = q /\ th'[t].path = p /\ th'[t].op = "open"
      /\ th'[t].vol = "none" /\ th'[t].dir = None /\ \A u \in Threads \ {t} : th'[u] = th[u]
  BY <1>0, <1>2, <1>6, StateFacts, SMTT(30) DEF TypeInv, ThreadStates, q, p
<1>8. \A u \in Threads \ {t} : Pointers(u)' = Pointers(u) BY <1>7, Zenon DEF Pointers, Fresh
<1>9. Pointers(t)' \subseteq {q} BY <1>7, Zenon DEF Pointers
<1>10. InUse' BY <1>1, <1>5, <1>8, <1>9, ZenonT(60) DEF SafeInv, InUse
<1>11. PathInv'
  <2>1. PathOk(t)' BY <1>7, Zenon DEF PathOk, Fresh, Walking
  <2>2. \A u \in Threads \ {t} : Fresh(u) => th[u].target \notin alive' BY <1>1, Zenon DEF SafeInv, PathInv, PathOk
  <2> QED BY <1>1, <1>7, <2>1, <2>2, PathFrame, ZenonT(60) DEF SafeInv
<1>12. RootsInv' BY <1>1, ZenonT(60) DEF SafeInv, MountInv, RootsInv
<1>13. RecordsInv'
  <2>1. ASSUME NEW i \in DOMAIN records PROVE RecordOk(i)'
    <3>1. RecordOk(i) /\ records[i].vol # "none" BY <1>0, RecordFacts, FileFacts, ZenonT(60) DEF RecordsInv
    <3> QED BY <1>1, <1>7, <3>1, ZenonT(60) DEF RecordOk, Holds
  <2> QED BY <1>0, <1>1, <2>1 DEF RecordsInv
<1>14. ShellInv'
  <2>1. LastRecord(th[t].path)' = LastRecord(p) BY <1>1, <1>7, ZenonT(60) DEF LastRecord, IsLast, p
  <2> QED BY <1>1, <1>3, <1>7, <2>1, ZenonT(60) DEF ShellInv, q
<1>15. Sole' /\ Counted' BY <1>1 DEF SafeInv, Sole, Counted
<1> QED BY <1>10, <1>11, <1>12, <1>13, <1>14, <1>15, Zenon DEF SafeInv, MountInv

\* Where nobody has entered the volume since unmount looked at it, clearing its
\* mount makes it unreachable.
LEMMA SafeClearMount ==
  ASSUME BaseInv, SafeInv, BaseInv', NEW t \in Threads, ClearMount(t), windows' = {}
  PROVE  SafeInv'
<1>0. ThreadOk(t) /\ TypeInv /\ RecordsInv /\ RootsInv /\ th[t] \in ThreadStates
  BY Zenon DEF BaseInv, ThreadInv, SafeInv, MountInv, TypeInv
<1>1. /\ th[t].pc = "clear" /\ ~Entering(t, mount[th[t].target])
      /\ mount' = [mount EXCEPT ![th[t].target] = None] /\ th' = [th EXCEPT ![t].pc = "erase"]
      /\ UNCHANGED <<alive, records, readers, writers, handles>>
  BY Zenon DEF ClearMount, At
<1>2. /\ t = Shell /\ th[t].target \in Files /\ th[t].op = "open" /\ th[t].dir = None
      /\ th[t].vol = "none"
  BY <1>0, <1>1, Zenon DEF ThreadOk, ThreadStates
<1> DEFINE q == th[t].target
           L == LastRecord(th[t].path)
           v == records[L].vol
<1>3. /\ L \in DOMAIN records
      /\ q = records[L].point
  <2>1. HasLast(th[Shell].path)
    BY <1>1, <1>2 DEF BaseInv, LeakInv, VolumeInv
  <2>2. L \in DOMAIN records BY <1>0, <1>2, <2>1, LastRecordFacts, ZenonT(60) DEF TypeInv
  <2> QED BY <1>1, <1>2, <2>2, SMTT(30) DEF SafeInv, MountInv, ShellInv
<1>4. RecordOk(L) /\ v \in Volumes \ {"basic"}
  <2> HIDE DEF L
  <2> QED BY <1>0, <1>3, RecordFacts, ZenonT(60) DEF RecordsInv, RecordOk
<1>5. mount[q] = Root(v) BY <1>1, <1>2, <1>3, <1>4 DEF RecordOk
<1>6. Moved(t, "erase", None, q, th[t].todo) BY <1>0, <1>1, <1>2, MovesOn, ZenonT(60) DEF PCs
<1>7. /\ th'[t].pc = "erase" /\ th'[t].target = q /\ th'[t].op = "open" /\ th'[t].vol = "none"
      /\ LastRecord(th[t].path)' = L /\ \A u \in Threads \ {t} : th'[u] = th[u]
  <2>1. th'[t].path = th[t].path BY <1>6, Zenon DEF Moved
  <2> QED BY <1>1, <1>2, <1>6, <2>1, SMTT(30) DEF Moved, LastRecord, IsLast
<1>8. \A u \in Threads \ {t} : Pointers(u)' = Pointers(u) BY <1>7, ZenonT(60) DEF Pointers, Fresh
<1>9. Pointers(t)' \subseteq {q} \ {None} BY <1>6, PointersMoved, SMTT(30)
<1>10. q \in alive /\ \E h \in handles : h.fop = q BY <1>3, <1>4, ZenonT(60) DEF RecordOk, Holds, SafeInv, InUse
<1>11. ~is_busy(Root(v)) /\ \A u \in Threads \ {t} : Root(v) \notin Pointers(u)
  BY <1>1, <1>5, ZenonT(60) DEF Entering
<1>12. q \in Files /\ mount' = [mount EXCEPT ![q] = None] BY <1>1, <1>2
<1>13. \A i \in DOMAIN records : i # L => records[i].point # q BY <1>0, <1>3, ZenonT(60) DEF RecordsInv
<1> HIDE DEF q, L
<1>14. \A g \in Files : mount'[g] = IF g = q THEN None ELSE mount[g] BY <1>0, <1>12 DEF TypeInv
<1>15. Sole' /\ Counted' BY <1>1 DEF SafeInv, Sole, Counted
<1>16. InUse' BY <1>1, <1>8, <1>9, <1>10, Zenon DEF SafeInv, InUse
<1>17. PathInv'
  <2>1. PathOk(t)' BY <1>7, Zenon DEF PathOk, Fresh, Walking
  <2>2. \A u \in Threads \ {t} : Fresh(u) => th[u].target \notin alive' BY <1>1, Zenon DEF SafeInv, PathInv, PathOk
  <2> QED BY <1>1, <1>7, <2>1, <2>2, PathFrame, ZenonT(60) DEF SafeInv
<1>18. RootsInv' BY <1>0, <1>1, <1>14 DEF RootsInv
<1>19. RecordsInv'
  <2>1. ASSUME NEW i \in DOMAIN records PROVE RecordOk(i)'
    <3>1. RecordOk(i) /\ records[i].vol # "none" /\ records[i].point \in Files
      BY <1>0, RecordFacts, FileFacts, SMTT(30) DEF RecordsInv
    <3>2. CASE i = L BY <1>1, <1>2, <1>7, <3>1, <3>2, SMTT(30) DEF RecordOk, Holds
    <3>3. CASE i # L
      <4>1. mount'[records[i].point] = Root(records[i].vol)
        BY <1>1, <1>2, <1>13, <1>14, <3>1, <3>3, SMTT(30) DEF RecordOk
      <4> QED BY <1>1, <1>2, <1>7, <3>1, <4>1, SMTT(30) DEF RecordOk, Holds
    <3> QED BY <3>2, <3>3, SMTT(30)
  <2> QED BY <1>0, <1>1, <2>1, SMTT(30) DEF RecordsInv
<1>20. PICK w \in Volumes \ {"basic"} :
         /\ w = v /\ mount[q] = Root(w) /\ ~is_busy(Root(w))
         /\ \A u \in Threads \ {t} : Root(w) \notin Pointers(u)
  BY <1>4, <1>5, <1>11, ZenonT(60)
<1>21. w # "devfs" => Unreachable(w)'
  <2> SUFFICES ASSUME w # "devfs" PROVE Unreachable(w)' BY SMTT(30)
  <2>0. Root(w) \in Files /\ Root(w).vol = w /\ Root(w).path = <<>> /\ Root(w) # None /\ Root(w) # Root("devfs")
    BY <1>20, FileFacts, SMTT(30)
  <2>1. readers[Root(w)] = 0 /\ writers[Root(w)] = 0 /\ Children(Root(w)) = {} BY <1>20, SMTT(30) DEF is_busy
  <2>2. \A f \in alive : f.vol = w => f = Root(w)
    <3> SUFFICES ASSUME NEW f \in alive, f.vol = w, f # Root(w) PROVE FALSE OBVIOUS
    <3>1. f.path \in Seq(STRING) BY <1>0, FileFacts, SMTT(30) DEF TypeInv
    <3>2. Within(f.path, <<>>)
      <4>1. \A s \in Seq(STRING) : Within(s, <<>>) BY DEF Within
      <4> QED BY <3>1, <4>1
    <3> QED BY <2>0, <2>1, <3>2, SMTT(30) DEF Children
  <2>3. \A h \in handles : h.fop # Root(w) BY <1>0, <2>0, <2>1, NoHandle, ZenonT(60) DEF SafeInv
  <2>4. \A h \in handles : h.fop.vol # w BY <2>2, <2>3, SMTT(30) DEF SafeInv, InUse
  <2>5. \A g \in Files : mount'[g] # Root(w) BY <1>0, <1>12, <1>20, <1>14, <2>0, SMTT(30) DEF RootsInv
  <2>6. q.vol # w BY <1>10, <2>2, <2>3, ZenonT(60)
  <2>7. \A u \in Threads \ {t} : \A f \in Pointers(u) : f.vol # w BY <1>20, <2>2, SMTT(30) DEF SafeInv, InUse
  <2>8. \A u \in Threads : \A f \in Pointers(u)' : f.vol # w BY <1>8, <1>9, <2>6, <2>7, SMTT(30)
  <2>9. \A f \in alive' : f.vol = w => f = Root(w) BY <1>1, <2>2
  <2>10. \A h \in handles' : h.fop.vol # w BY <1>1, <2>4
  <2> QED BY <2>5, <2>8, <2>9, <2>10, SMTT(30) DEF Unreachable
<1>22. records'[L].vol = w BY <1>1, <1>20, SMTT(30)
<1>23. ShellInv' BY <1>1, <1>2, <1>3, <1>7, <1>21, <1>22, SMTT(30) DEF ShellInv
<1> QED BY <1>15, <1>16, <1>17, <1>18, <1>19, <1>23, ZenonT(60) DEF SafeInv, MountInv

\* The record is erased and the volume deleted that nothing leads into any more.
LEMMA SafeEraseRecord ==
  ASSUME BaseInv, SafeInv, BaseInv', NEW t \in Threads, EraseRecord(t)
  PROVE  SafeInv'
<1>0. ThreadOk(t) /\ TypeInv /\ RecordsInv BY Zenon DEF BaseInv, ThreadInv, SafeInv, MountInv
<1> DEFINE L == LastRecord(th[t].path)
           v == records[L].vol
           gone == {h \in handles : h.of = Mounted(v) /\ (h.fop = records[L].point \/ v \in FatVolumes)}
           n == Len(records)
<1>1. /\ th[t].pc = "erase" /\ mount' = mount /\ records' = Without(records, L)
      /\ alive' = alive \ Delete(v) /\ th' = [th EXCEPT ![t] = Idle]
      /\ \E more : Release(gone, more)
  BY Zenon DEF EraseRecord, At
<1>2. t = Shell BY <1>0, <1>1, Zenon DEF ThreadOk
<1>3. L \in DOMAIN records
  <2>1. HasLast(th[Shell].path)
    BY <1>1, <1>2, Zenon DEF BaseInv, LeakInv, VolumeInv
  <2> QED BY <1>0, <1>2, <2>1, LastRecordFacts, ZenonT(60) DEF TypeInv
<1>4. v # "devfs" => Unreachable(v) BY <1>1, <1>2, Zenon DEF SafeInv, MountInv, ShellInv
<1>5. gone \in SUBSET handles /\ handles' = handles \ gone BY <1>1, Zenon DEF Release
<1>6. Sole' /\ Counted'
  <2> HIDE DEF gone
  <2>1. PICK more : Release(gone, more) BY <1>1, Zenon
  <2> QED BY <1>0, <1>5, <2>1, ReleaseCounted DEF SafeInv
<1>7. \A h \in gone : h.of = Mounted(v) /\ (h.fop = records[L].point \/ v \in FatVolumes) BY Zenon
<1>8. \A k \in DOMAIN records : k # L =>
        /\ mount[records[k].point] = Root(records[k].vol)
        /\ records[k].point # records[L].point
        /\ records[k].vol = v => v = "devfs"
  BY <1>0, <1>1, <1>2, <1>3, ZenonT(60) DEF RecordsInv, RecordOk
<1>9. /\ n \in Nat /\ DOMAIN records = 1..n /\ L \in 1..n /\ DOMAIN records' = 1..(n - 1)
      /\ \A k \in 1..(n - 1) : records'[k] = IF k < L THEN records[k] ELSE records[k + 1]
  <2>1. records \in Seq(RecordSet) BY <1>0, SMTT(30) DEF TypeInv
  <2> HIDE DEF L
  <2>2. /\ Without(records, L) \in Seq(RecordSet) /\ Len(Without(records, L)) = n - 1
        /\ \A k \in 1..(n - 1) : Without(records, L)[k] = IF k < L THEN records[k] ELSE records[k + 1]
    BY <1>3, <2>1, WithoutFacts, ZenonT(60)
  <2>3. n \in Nat /\ DOMAIN records = 1..n BY <2>1
  <2>4. DOMAIN Without(records, L) = 1..(n - 1) BY <2>2
  <2> QED BY <1>1, <1>3, <2>2, <2>3, <2>4, ZenonT(60)
<1> DEFINE Old(k) == IF k < L THEN k ELSE k + 1
<1> HIDE DEF L, gone
<1>10. v \in Volumes \ {"basic"} BY <1>0, <1>3, RecordFacts, Zenon DEF RecordsInv, RecordOk
<1>11. /\ \A k \in 1..(n - 1) : Old(k) \in DOMAIN records /\ Old(k) # L /\ records'[k] = records[Old(k)]
       /\ \A j, k \in 1..(n - 1) : Old(j) = Old(k) => j = k
  BY <1>9
<1> HIDE DEF Old, v
<1>12. th'[Shell] = Idle /\ Idle.vol = "none" /\ Idle.pc = "idle"
  BY <1>1, <1>2, StateFacts, SMTT(30) DEF BaseInv, TypeInv
<1>13. ASSUME NEW k \in 1..(n - 1) PROVE RecordOk(k)'
  <2>1. PICK i \in DOMAIN records : i # L /\ records'[k] = records[i] BY <1>11, ZenonT(60)
  <2>2. RecordOk(i) /\ records[i].vol # "none" BY <1>0, RecordFacts, FileFacts DEF RecordsInv
  <2>3. PICK h \in handles : h.fop = records[i].point /\ h.of = Mounted(records[i].vol)
    BY <2>2, Zenon DEF RecordOk, Holds
  <2>4. h \in handles'
    <3> SUFFICES ASSUME h \in gone PROVE FALSE BY <1>5, Zenon
    <3>1. records[i].vol = v BY <1>7, <2>3, OwnerFacts, ZenonT(60)
    <3>2. v = "devfs" /\ records[i].point # records[L].point BY <1>8, <2>1, <3>1
    <3>3. "devfs" \notin FatVolumes BY ConstantsAssumption, ZenonT(60)
    <3> QED BY <1>7, <2>3, <3>2, <3>3, ZenonT(60)
  <2>5. mount'[records'[k].point] = Root(records'[k].vol) BY <1>1, <1>8, <2>1, SMTT(30)
  <2>6. HoldsNext(records'[k].point, Mounted(records'[k].vol)) BY <2>1, <2>3, <2>4, SMTT(30) DEF HoldsNext
  <2> QED BY <1>12, <2>1, <2>2, <2>5, <2>6, ZenonT(60) DEF RecordOk, Holds, HoldsNext
<1>14. ASSUME NEW j \in 1..(n - 1), NEW k \in 1..(n - 1), j # k
       PROVE  /\ records'[j].point # records'[k].point
              /\ records'[j].vol = records'[k].vol => records'[j].vol = "devfs"
  <2>1. /\ Old(j) \in DOMAIN records /\ Old(k) \in DOMAIN records /\ Old(j) # Old(k)
        /\ records'[j] = records[Old(j)] /\ records'[k] = records[Old(k)]
    BY <1>11, <1>14, SMTT(30)
  <2> QED BY <1>0, <2>1, SMTT(30) DEF RecordsInv
<1>15. RecordsInv' BY <1>9, <1>13, <1>14, SMTT(30) DEF RecordsInv
<1>16. \A h \in handles, u \in Threads : h.of = Walk(u) => h \in handles' BY <1>5, <1>7, OwnerFacts
<1> QED BY <1>1, <1>2, <1>4, <1>5, <1>6, <1>10, <1>15, <1>16, SafeDone, SMTT(30)

\* After the mount of the device file system at boot.
LEMMA SafeInit ==
  ASSUME Init
  PROVE  SafeInv
<1> DEFINE dev == File("basic", <<"dev">>)
           r == [path |-> <<"dev">>, point |-> dev, vol |-> "devfs"]
           g == Handle(dev, open_rw, Mounted("devfs"))
<1>1. /\ alive = {Root("basic"), dev, Root("devfs")}
      /\ readers = [f \in Files |-> IF f = dev THEN 1 ELSE 0] /\ writers = readers
      /\ mount = [f \in Files |-> IF f = dev THEN Root("devfs") ELSE None]
      /\ records = <<r>> /\ handles = {g} /\ th = [t \in Threads |-> Idle]
  BY ZenonT(60) DEF Init
<1>2. /\ g.of = Mounted("devfs") /\ g.fop = dev /\ g.mode.read = TRUE /\ g.mode.write = TRUE
      /\ r.vol = "devfs" /\ r.point = dev
  BY SMTT(30) DEF Handle, open_rw
<1>3. dev.vol = "basic" /\ dev \in Files
  BY ConstantsAssumption, FileFacts, SMTT(30) DEF File, Files
<1> HIDE DEF dev, r, g
<1>4. Sole BY <1>1, SMTT(30) DEF Sole
<1>5. Counted
  <2>1. ASSUME NEW f \in Files
        PROVE /\ (\E h \in handles : h.fop = f /\ h.mode.read) <=> f = dev
              /\ (\E h \in handles : h.fop = f /\ h.mode.write) <=> f = dev
    BY <1>1, <1>2, ZenonT(60)
  <2>2. \A f \in Files : readers[f] = (IF f = dev THEN 1 ELSE 0) /\ writers[f] = (IF f = dev THEN 1 ELSE 0)
    BY <1>1, ZenonT(60)
  <2> QED BY <2>1, <2>2 DEF Counted
<1>6. \A t \in Threads : th[t] = Idle BY <1>1, ZenonT(60)
<1>7. \A t \in Threads : Pointers(t) = {} BY <1>6, StateFacts, SMTT(30) DEF Pointers
<1>8. InUse BY <1>1, <1>2, <1>7, SMTT(30) DEF InUse
<1>9. PathInv BY <1>6, StateFacts, ZenonT(60) DEF PathInv, PathOk, Fresh, Walking
<1>10. Shell \in Threads BY ConstantsAssumption, SMTT(30)
<1>11. \A f \in Files : mount[f] = IF f = dev THEN Root("devfs") ELSE None BY <1>1, SMTT(30)
<1>12. RootsInv BY <1>1, <1>3, <1>11, FileFacts, SMTT(30) DEF RootsInv
<1>13. DOMAIN records = {1} /\ records[1] = r BY <1>1, SMTT(30)
<1>14. RecordOk(1)
  <2>1. Holds(dev, Mounted("devfs")) BY <1>1, <1>2, SMTT(30) DEF Holds
  <2> QED BY <1>2, <1>3, <1>11, <1>13, <2>1, SMTT(30) DEF RecordOk
<1>15. RecordsInv BY <1>13, <1>14 DEF RecordsInv
<1>16. ShellInv BY <1>6, <1>10, StateFacts, ZenonT(60) DEF ShellInv
<1> QED BY <1>4, <1>5, <1>8, <1>9, <1>12, <1>15, <1>16, SMTT(30) DEF SafeInv, MountInv

\* As long as nothing has gone wrong.
CondInv == windows = {} => SafeInv

LEMMA CondNext ==
  ASSUME BaseInv, BaseInv', CondInv, [Next]_vars
  PROVE  CondInv'
<1> SUFFICES ASSUME windows' = {} PROVE SafeInv' BY Zenon DEF CondInv
<1>1. ASSUME NEW t \in Threads, Step(t) \/ Call(t) \/ Dangling(t) PROVE SafeInv'
  <2>1. ~Dangling(t) BY DEF Dangling
  <2>2. windows = {}
    BY <1>1, <2>1, ZenonT(60) DEF Step, Call, Release, tree, follow_mountpoints, prepare_fop, TryOpen, append_child, Leave,
       Opened, create_device, create_fat_driver, set_mount_driver, record, Failed, ClearMount, EraseRecord,
       open, close, create, remove, create_device_file, mount_volume, unmount
  <2>3. SafeInv BY <2>2, Zenon DEF CondInv
  <2> QED BY <1>1, <2>1, <2>3, SafeWalk, SafeCalls, SafeRemove, SafeMountVolume, SafeFatDriver, SafeSetMount,
             SafeRecord, SafeFailed, SafeUnmount, SafeClearMount, SafeEraseRecord, ZenonT(60) DEF Step, Call
<1>2. CASE UNCHANGED vars
  <2>1. SafeInv BY <1>2, Zenon DEF CondInv, vars
  <2>2. Sole' /\ Counted' /\ InUse' BY <1>2, <2>1, ZenonT(60) DEF vars, SafeInv, Sole, Counted, InUse, Pointers, Fresh
  <2>3. PathInv' BY <1>2, <2>1, Zenon DEF vars, SafeInv, PathInv, PathOk, Fresh, Holds
  <2>4. RootsInv' BY <1>2, <2>1, ZenonT(60) DEF vars, SafeInv, MountInv, RootsInv
  <2>5. \A p : LastRecord(p)' = LastRecord(p) BY <1>2 DEF vars, LastRecord, IsLast
  <2>6. RecordsInv'
    BY <1>2, <2>1, <2>5, ZenonT(60) DEF vars, SafeInv, MountInv, RecordsInv, RecordOk, Holds
  <2>7. \A w : Unreachable(w) => Unreachable(w)' BY <1>2, Zenon DEF vars, Unreachable, Pointers, Fresh
  <2>8. ShellInv' BY <1>2, <2>1, <2>5, <2>7, Zenon DEF vars, SafeInv, MountInv, ShellInv, Holds
  <2> QED BY <2>2, <2>3, <2>4, <2>6, <2>8, SMTT(30) DEF SafeInv, MountInv
<1> QED BY <1>1, <1>2 DEF Next

LEMMA CondInvariance == Spec => []CondInv
<1>1. Init => CondInv BY SafeInit DEF CondInv
<1>2. BaseInv /\ BaseInv' /\ CondInv /\ [Next]_vars => CondInv' BY CondNext
<1> QED BY <1>1, <1>2, BaseInvariance, PTL DEF Spec

\* As long as no window has been hit, try_open lets nobody else open a file that
\* is open: a file has one handle, of one owner, and FileOperator's counts say
\* how it was opened.
THEOREM OneHandlePerFile == Spec => []SoleHandle
<1>1. CondInv => SoleHandle
  <2> SUFFICES ASSUME CondInv, windows = {} PROVE Sole /\ Counted BY Zenon DEF SoleHandle, Sole, Counted
  <2> QED BY Zenon DEF CondInv, SafeInv
<1> QED BY <1>1, CondInvariance, PTL

\* As long as no window has been hit, neither close, remove, unmount nor a failed
\* mount deletes a FileOperator that a handle or an open in progress points to.
THEOREM NothingInUseIsDeleted == Spec => []OpenFilesExist
<1>1. CondInv => OpenFilesExist BY Zenon DEF CondInv, SafeInv, InUse, OpenFilesExist
<1> QED BY <1>1, CondInvariance, PTL

=============================================================================
