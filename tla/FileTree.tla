------------------------------ MODULE FileTree -------------------------------
(***************************************************************************)
(* Opening, closing, mounting and unmounting (fs/manager.hpp, handle.hpp,  *)
(* fs.hpp) over the basic, device, temporary and FAT file systems.         *)
(*                                                                         *)
(* A file is named by its volume and its path in it; its FileOperator      *)
(* exists from its first open on.  A section under one mutex is one step,  *)
(* except in Handle::open: it follows the mounts of a child while it holds *)
(* the children of the directory, and unmount changes them without that    *)
(* mutex.                                                                  *)
(***************************************************************************)
EXTENDS Integers, Sequences, FiniteSets

CONSTANTS
  Threads,        \* threads that use the file system
  Users,          \* those of them that open files
  Shell,          \* the thread that mounts and unmounts
  TmpVolumes,     \* bound: instances of tmp::Driver
  FatVolumes,     \* bound: instances of fat::Driver
  LocalPaths,     \* bound: paths within a volume
  Names,          \* names that are created
  Devices,        \* names of device files
  Paths,          \* paths that are opened
  Modes,          \* modes they are opened in
  Mountpoints,    \* paths that are mounted on
  DiskPath,       \* the device that FAT volumes are mounted from
  MaxHandles,     \* bound: files a thread keeps open
  MaxRecords      \* bound: volumes mounted at a time

Volumes == {"basic", "devfs"} \cup TmpVolumes \cup FatVolumes
File(vol, path) == [vol |-> vol, path |-> path]
Root(vol) == File(vol, <<>>)
Child(dir, name) == File(dir.vol, Append(dir.path, name))
Files == {File(v, p) : v \in Volumes, p \in LocalPaths}
None == File("none", <<>>)

\* path is dir, or below it
Within(path, dir) == Len(dir) <= Len(path) /\ SubSeq(path, 1, Len(dir)) = dir

\* A vector after erase(begin() + i - 1)
Without(s, i) == SubSeq(s, 1, i - 1) \o SubSeq(s, i + 1, Len(s))

VARIABLES
  alive,              \* the FileOperators that exist
  readers, writers,   \* FileOperator::critical_counts
  mount,              \* FileOperator::mount
  locked,             \* directories whose critical_children is held
  entries,            \* per volume, the paths its driver knows
  records,            \* critical_mount_records
  handles,            \* handles that have not expired, with their owner
  th,                 \* what each thread is doing
  windows             \* history: what has gone wrong, see the properties

vars == <<alive, readers, writers, mount, locked, entries, records, handles, th, windows>>
tree == <<alive, mount, locked, entries, records, windows>>

open_ro == [read |-> TRUE, write |-> FALSE]
open_wo == [read |-> FALSE, write |-> TRUE]
open_rw == [read |-> TRUE, write |-> TRUE]

ASSUME ConstantsAssumption ==
  /\ Shell \in Threads
  /\ TmpVolumes \cup FatVolumes \subseteq STRING \ {"basic", "devfs", "none"}
  /\ TmpVolumes \cap FatVolumes = {}
  /\ LocalPaths \subseteq Seq(STRING)
  /\ {<<>>, <<"dev">>, <<"f">>} \cup {<<n>> : n \in Devices} \subseteq LocalPaths
  /\ Names \subseteq STRING /\ Devices \subseteq STRING
  /\ Paths \cup Mountpoints \cup {DiskPath} \subseteq Seq(STRING)
  /\ Modes \subseteq {open_ro, open_wo, open_rw}

-----------------------------------------------------------------------------
(* What the drivers say of a file.                                         *)

volume_root_attributes ==
  [read_level |-> "Single", write_level |-> "Single", exclusive |-> TRUE,
   volume_root |-> TRUE, keep_on_close |-> FALSE]

default_attributes ==
  [read_level |-> "Single", write_level |-> "Single", exclusive |-> TRUE,
   volume_root |-> FALSE, keep_on_close |-> FALSE]

keyboard_attributes == [default_attributes EXCEPT !.write_level = "Block"]

IsDirectory(f) == IF f.path = <<>> THEN TRUE ELSE f.path[Len(f.path)] \in {"dev", "dir"}

tmp_attributes(f) == [default_attributes EXCEPT !.keep_on_close = ~IsDirectory(f)]

attributes(f) ==
  CASE f.path = <<>>                       -> volume_root_attributes
    [] f.path # <<>> /\ f.vol \in TmpVolumes -> tmp_attributes(f)
    [] f = File("devfs", <<"keyboard">>)   -> keyboard_attributes
    [] OTHER                               -> default_attributes

basic_find(dir, name) == dir.path = <<>> /\ name = "dev"
dev_find(dir, name) == dir.path = <<>> /\ <<name>> \in entries["devfs"]
tmp_find(dir, name) == IsDirectory(dir) /\ Append(dir.path, name) \in entries[dir.vol]
fat_find(dir, name) == dir.path = <<>> /\ name = "f"

find(dir, name) ==
  CASE dir.vol = "basic"       -> basic_find(dir, name)
    [] dir.vol = "devfs"       -> dev_find(dir, name)
    [] dir.vol \in TmpVolumes  -> tmp_find(dir, name)
    [] dir.vol \in FatVolumes  -> fat_find(dir, name)

\* create, remove and create_device of the drivers that support them
tmp_create(dir, name) ==
  /\ IsDirectory(dir) /\ ~tmp_find(dir, name)
  /\ entries' = [entries EXCEPT ![dir.vol] = @ \cup {Append(dir.path, name)}]

tmp_remove(dir, name) ==
  /\ tmp_find(dir, name)
  /\ entries' = [entries EXCEPT ![dir.vol] = {p \in @ : ~Within(p, Append(dir.path, name))}]

dev_remove(dir, name) ==
  /\ dev_find(dir, name)
  /\ entries' = [entries EXCEPT !["devfs"] = @ \ {<<name>>}]

dev_create_device(dir, name) ==
  entries' = IF dir = Root("devfs") THEN [entries EXCEPT !["devfs"] = @ \cup {<<name>>}]
             ELSE entries

-----------------------------------------------------------------------------
(* FileOperator.                                                           *)

\* Deliberately wrong: Single is treated like Multi.
Admitted_multi(level, same, other, excl) == level # "Block" /\ (excl => other = 0)

\* One switch of try_open: the count of the same kind, then the other one
Admitted(level, same, other, excl) ==
  /\ level # "Block"
  /\ level = "Single" => same = 0
  /\ excl => other = 0

try_open(f, mode) ==
  LET a == attributes(f) IN
  /\ mode.read  => Admitted(a.read_level, readers[f], writers[f], a.exclusive)
  /\ mode.write => Admitted(a.write_level, writers[f], readers[f], a.exclusive)

Children(f) == {g \in alive : g # f /\ g.vol = f.vol /\ Within(g.path, f.path)}

\* Deliberately wrong: the open files of the volume are not looked at.
is_busy_unopened(f) == mount[f] # None

is_busy(f) == mount[f] # None \/ readers[f] # 0 \/ writers[f] # 0 \/ Children(f) # {}

-----------------------------------------------------------------------------
(* Handles.                                                                *)

Handle(f, mode, owner) == [fop |-> f, mode |-> mode, of |-> owner]

\* The owners: an open of t, for the handles it holds on its way; t itself;
\* the volume that has been mounted on the file or reads its blocks
Walk(t) == [as |-> "walk", who |-> t]
User(t) == [as |-> "user", who |-> t]
Mounted(vol) == [as |-> "volume", who |-> vol]

\* try_open has succeeded and the handle has been constructed
Acquire(h) ==
  /\ readers' = [readers EXCEPT ![h.fop] = IF h.mode.read THEN @ + 1 ELSE @]
  /\ writers' = [writers EXCEPT ![h.fop] = IF h.mode.write THEN @ + 1 ELSE @]
  /\ handles' = handles \cup {h}

\* Manager::close of the handles in gone, at most one of a file.  Its loop over
\* the parents reads FileOperator::parent, which no constructor sets: where it
\* is not null, and the file neither kept nor busy, close erases the file from
\* the children of whatever is there.
MayErase(h) ==
  /\ ~attributes(h.fop).volume_root /\ ~attributes(h.fop).keep_on_close
  /\ mount[h.fop] = None /\ Children(h.fop) = {}

Release(gone, more) ==
  /\ readers' = [f \in Files |-> IF \E h \in gone : h.fop = f /\ h.mode.read
                                 THEN readers[f] - 1 ELSE readers[f]]
  /\ writers' = [f \in Files |-> IF \E h \in gone : h.fop = f /\ h.mode.write
                                 THEN writers[f] - 1 ELSE writers[f]]
  /\ handles' = handles \ gone
  /\ \E s \in {{}} \cup {{"stray"} : h \in {g \in gone : MayErase(g)}} :
       windows' = windows \cup s \cup more

-----------------------------------------------------------------------------
(* Threads.                                                                *)

Idle == [pc |-> "idle", op |-> "open", todo |-> <<>>, mode |-> open_ro, dir |-> None,
         target |-> None, vol |-> "none", path |-> <<>>, name |-> "none"]

\* About to open path and then to go on with op
Opening(op, path, mode, vol, point) ==
  [Idle EXCEPT !.pc = "follow", !.op = op, !.todo = path, !.mode = mode,
               !.target = Root("basic"), !.vol = vol, !.path = point]

\* The file it opens is not yet among the children of its directory.
Fresh(t) == th[t].pc \in {"new", "append"}

\* The FileOperators a thread has pointers to
Pointers(t) == ({th[t].dir} \cup (IF Fresh(t) THEN {} ELSE {th[t].target})) \ {None}

At(t, pc) == th[t].pc = pc /\ Pointers(t) \subseteq alive

WalkHandles(t) == {h \in handles : h.of = Walk(t)}
LeftHandles(t) == {h \in WalkHandles(t) : h.fop = th[t].dir}

\* Directories are opened for reading on the way, the file itself as asked for.
StepMode(t) ==
  IF th[t].todo = <<>> \/ (th[t].dir # None /\ Len(th[t].todo) = 1) THEN th[t].mode ELSE open_ro

Busy(vol) ==
  \/ Root(vol) \in alive
  \/ \E h \in handles : h.fop.vol = vol
  \/ \E t \in Threads : \E f \in Pointers(t) : f.vol = vol

\* After Manager::mount("devfs", "/dev") at boot
Init ==
  LET dev == File("basic", <<"dev">>)
  IN  /\ alive = {Root("basic"), dev, Root("devfs")}
      /\ readers = [f \in Files |-> IF f = dev THEN 1 ELSE 0]
      /\ writers = readers
      /\ mount = [f \in Files |-> IF f = dev THEN Root("devfs") ELSE None]
      /\ locked = {} /\ windows = {}
      /\ entries = [v \in {"devfs"} \cup TmpVolumes |-> {}]
      /\ records = <<[path |-> <<"dev">>, point |-> dev, vol |-> "devfs"]>>
      /\ handles = {Handle(dev, open_rw, Mounted("devfs"))}
      /\ th = [t \in Threads |-> Idle]

-----------------------------------------------------------------------------
(* Manager::open, open_root, open_parent_directory and Handle::open.       *)

open(t) ==
  /\ At(t, "idle") /\ t \in Users /\ Cardinality({h \in handles : h.of = User(t)}) < MaxHandles
  /\ \E p \in Paths, m \in Modes :
       th' = [th EXCEPT ![t] = Opening("open", p, m, "none", <<>>)]
  /\ UNCHANGED <<tree, readers, writers, handles>>

\* Deliberately wrong: the loop looks at the same file again.
follow_mountpoints_stuck(t) ==
  /\ At(t, "follow")
  /\ th' = IF mount[th[t].target] # None THEN th ELSE [th EXCEPT ![t].pc = "try"]
  /\ UNCHANGED <<tree, readers, writers, handles>>

\* One iteration of follow_mountpoints
follow_mountpoints(t) ==
  /\ At(t, "follow")
  /\ th' = IF mount[th[t].target] # None
           THEN [th EXCEPT ![t].target = mount[th[t].target]]
           ELSE [th EXCEPT ![t].pc = "try"]
  /\ UNCHANGED <<tree, readers, writers, handles>>

\* prepare_fop, which finds the child under the mutex of the children
prepare_fop(t) ==
  LET dir == th[t].dir
      name == Head(th[t].todo)
      child == Child(dir, name)
  IN  /\ At(t, "find") /\ dir \notin locked
      /\ \/ /\ child \in alive
            /\ th' = [th EXCEPT ![t].pc = "follow", ![t].target = child]
            /\ locked' = locked \cup {dir}
         \/ /\ child \notin alive /\ find(dir, name)
            /\ th' = [th EXCEPT ![t].pc = "new", ![t].target = child]
            /\ locked' = locked \cup {dir}
         \/ /\ child \notin alive /\ ~find(dir, name)
            /\ th' = [th EXCEPT ![t].pc = "leave", ![t].target = None]
            /\ UNCHANGED locked
      /\ UNCHANGED <<alive, mount, entries, records, windows, readers, writers, handles>>

\* try_open, and the end of the scope that holds the mutex.  A file that has
\* only just been found is counted where nobody sees it yet.
TryOpen(t) ==
  LET f == th[t].target IN
  /\ At(t, "try") \/ At(t, "new")
  /\ locked' = locked \ {th[t].dir}
  /\ \/ /\ try_open(f, StepMode(t)) /\ ~Fresh(t)
        /\ Acquire(Handle(f, StepMode(t), Walk(t)))
        /\ th' = [th EXCEPT ![t].pc = "leave"]
     \/ /\ try_open(f, StepMode(t)) /\ Fresh(t)
        /\ th' = [th EXCEPT ![t].pc = "append"]
        /\ UNCHANGED <<readers, writers, handles>>
     \/ /\ ~try_open(f, StepMode(t))
        /\ th' = [th EXCEPT ![t].pc = "leave", ![t].target = None]
        /\ UNCHANGED <<readers, writers, handles>>
  /\ UNCHANGED <<alive, mount, entries, records, windows>>

\* append_child: emplace keeps the child that is there already, and the handle
\* is then one that nobody has counted.
append_child(t) ==
  LET f == th[t].target
      h == Handle(f, StepMode(t), Walk(t))
  IN  /\ At(t, "append") /\ th[t].dir \notin locked
      /\ alive' = alive \cup {f}
      /\ IF f \in alive THEN handles' = handles \cup {h} /\ UNCHANGED <<readers, writers>>
                       ELSE Acquire(h)
      /\ th' = [th EXCEPT ![t].pc = "leave"]
      /\ UNCHANGED <<mount, locked, entries, records, windows>>

\* Deliberately wrong: the directory stays open when the open in it has failed.
Leave_leaky(t) ==
  LET todo == IF th[t].dir = None THEN th[t].todo ELSE Tail(th[t].todo)
  IN  /\ At(t, "leave")
      /\ UNCHANGED <<alive, mount, locked, entries, records>>
      /\ Release(IF th[t].target = None THEN {} ELSE LeftHandles(t), {})
      /\ th' = [th EXCEPT ![t].pc = IF th[t].target = None THEN "failed"
                                    ELSE IF todo = <<>> THEN "opened" ELSE "find",
                          ![t].todo = todo, ![t].dir = th[t].target]

\* The directory is closed, whether or not the open in it has succeeded; then
\* the next element.
Leave(t) ==
  LET gone == LeftHandles(t)
      todo == IF th[t].dir = None THEN th[t].todo ELSE Tail(th[t].todo)
  IN  /\ At(t, "leave")
      /\ UNCHANGED <<alive, mount, locked, entries, records>>
      /\ Release(gone, {})
      /\ th' = [th EXCEPT ![t].pc = IF th[t].target = None THEN "failed"
                                    ELSE IF todo = <<>> THEN "opened" ELSE "find",
                          ![t].todo = todo, ![t].dir = th[t].target]

\* open returns the handle.
Opened(t) ==
  /\ At(t, "opened") /\ th[t].op = "open"
  /\ handles' = (handles \ WalkHandles(t)) \cup {[h EXCEPT !.of = User(t)] : h \in WalkHandles(t)}
  /\ th' = [th EXCEPT ![t] = Idle]
  /\ UNCHANGED <<tree, readers, writers>>

-----------------------------------------------------------------------------
(* What is done with an open file.                                         *)

close(t) ==
  \E h \in handles :
    /\ At(t, "idle") /\ h.of = User(t) /\ h.fop \in alive
    /\ UNCHANGED <<alive, mount, locked, entries, records, th>>
    /\ Release({h}, {})

\* Handle::create; only the temporary file system supports it.
create(t) ==
  \E h \in handles, n \in Names :
    /\ At(t, "idle") /\ h.of = User(t) /\ h.mode.write /\ h.fop \in alive
    /\ h.fop.vol \in TmpVolumes /\ Child(h.fop, n).path \in LocalPaths
    /\ tmp_create(h.fop, n)
    /\ UNCHANGED <<alive, mount, locked, records, windows, readers, writers, handles, th>>

\* FileOperator::remove: a file that is in use is kept, one that is not goes
\* together with its FileOperator.
remove(t) ==
  \E h \in handles, n \in Names \cup Devices :
    LET c == Child(h.fop, n) IN
    /\ At(t, "idle") /\ h.of = User(t) /\ h.mode.write /\ h.fop \in alive
    /\ h.fop \notin locked
    /\ c \in alive => ~is_busy(c)
    /\ \/ h.fop.vol \in TmpVolumes /\ tmp_remove(h.fop, n)
       \/ h.fop.vol = "devfs" /\ dev_remove(h.fop, n)
    /\ alive' = alive \ {c}
    /\ UNCHANGED <<mount, locked, records, windows, readers, writers, handles, th>>

\* Manager::create_device_file: /dev is opened, the driver given the device,
\* and /dev closed.  Elsewhere than in the device file system create_device
\* fails, and nobody looks at its result.
create_device_file(t) ==
  /\ At(t, "idle") /\ t \in Users
  /\ \E n \in Devices :
       th' = [th EXCEPT ![t] = [Opening("device", <<"dev">>, open_rw, "none", <<>>)
                                  EXCEPT !.name = n]]
  /\ UNCHANGED <<tree, readers, writers, handles>>

create_device(t) ==
  /\ At(t, "opened") /\ th[t].op = "device"
  /\ dev_create_device(th[t].target, th[t].name)
  /\ UNCHANGED <<alive, mount, locked, records>>
  /\ Release(WalkHandles(t), {})
  /\ th' = [th EXCEPT ![t] = Idle]

-----------------------------------------------------------------------------
(* Manager::mount.                                                         *)

\* Volume vol, its driver and its root exist; then its mountpoint is opened.
NewVolume(t, vol, point) ==
  /\ alive' = alive \cup {Root(vol)}
  /\ entries' = [v \in DOMAIN entries |-> IF v = vol /\ v # "devfs" THEN {} ELSE entries[v]]
  /\ th' = [th EXCEPT ![t] = Opening("mount", point, open_rw, vol, point)]

Delete(vol) == IF vol = "devfs" THEN {} ELSE {f \in alive : f.vol = vol}

\* A FAT volume begins with opening its device.
mount_volume(t) ==
  /\ At(t, "idle") /\ t = Shell /\ Len(records) < MaxRecords
  /\ \E p \in Mountpoints :
       \/ \E v \in {"devfs"} \cup {w \in TmpVolumes : ~Busy(w)} : NewVolume(t, v, p)
       \/ \E v \in {w \in FatVolumes : ~Busy(w)} :
            /\ th' = [th EXCEPT ![t] = Opening("probe", DiskPath, open_rw, v, p)]
            /\ UNCHANGED <<alive, entries>>
  /\ UNCHANGED <<mount, locked, records, windows, readers, writers, handles>>

\* create_fat_driver: the driver keeps the handle of the device, unless it
\* finds no FAT file system on it.
create_fat_driver(t) ==
  /\ At(t, "opened") /\ th[t].op = "probe"
  /\ UNCHANGED <<mount, locked, records>>
  /\ \/ /\ NewVolume(t, th[t].vol, th[t].path)
        /\ handles' = (handles \ WalkHandles(t))
                        \cup {[h EXCEPT !.of = Mounted(th[t].vol)] : h \in WalkHandles(t)}
        /\ UNCHANGED <<readers, writers, windows>>
     \/ /\ UNCHANGED <<alive, entries>>
        /\ Release(WalkHandles(t), {})
        /\ th' = [th EXCEPT ![t] = Idle]

\* set_mount_driver
set_mount_driver(t) ==
  /\ At(t, "opened") /\ th[t].op = "mount"
  /\ mount' = [mount EXCEPT ![th[t].target] = Root(th[t].vol)]
  /\ handles' = (handles \ WalkHandles(t))
                  \cup {[h EXCEPT !.of = Mounted(th[t].vol)] : h \in WalkHandles(t)}
  /\ th' = [th EXCEPT ![t].pc = "record"]
  /\ UNCHANGED <<alive, locked, entries, records, windows, readers, writers>>

record(t) ==
  /\ At(t, "record")
  /\ records' = Append(records, [path |-> th[t].path, point |-> th[t].target, vol |-> th[t].vol])
  /\ th' = [th EXCEPT ![t] = Idle]
  /\ UNCHANGED <<alive, mount, locked, entries, windows, readers, writers, handles>>

\* An open has failed.  A mount destroys the volume it has made, and a FAT
\* driver closes its device.
Failed(t) ==
  LET vol == IF th[t].op = "mount" THEN th[t].vol ELSE "none"
      gone == {h \in handles : h.of = Mounted(vol) /\ vol \in FatVolumes}
  IN  /\ At(t, "failed")
      /\ UNCHANGED <<mount, locked, entries, records>>
      /\ alive' = IF vol = "none" THEN alive ELSE alive \ Delete(vol)
      /\ Release(gone, {})
      /\ th' = [th EXCEPT ![t] = Idle]

-----------------------------------------------------------------------------
(* Manager::unmount.                                                       *)

IsLast(i) == \A j \in DOMAIN records : records[j].path = records[i].path => j <= i

LastRecord(p) == CHOOSE i \in DOMAIN records : records[i].path = p /\ IsLast(i)

\* The record is found, from the end, and its volume not in use.
unmount(t) ==
  /\ At(t, "idle") /\ t = Shell
  /\ \E i \in {k \in DOMAIN records : IsLast(k)} :
       LET r == records[i] IN
       /\ ~is_busy(mount[r.point])
       /\ th' = [th EXCEPT ![t].pc = "clear", ![t].target = r.point, ![t].path = r.path]
  /\ UNCHANGED <<tree, readers, writers, handles>>

\* Others that are entering the volume, or have entered it since it was looked at
Entering(t, root) ==
  is_busy(root) \/ \E u \in Threads \ {t} : root \in Pointers(u)

ClearMount(t) ==
  /\ At(t, "clear")
  /\ mount' = [mount EXCEPT ![th[t].target] = None]
  /\ windows' = IF Entering(t, mount[th[t].target]) THEN windows \cup {"overlap"} ELSE windows
  /\ th' = [th EXCEPT ![t].pc = "erase"]
  /\ UNCHANGED <<alive, locked, entries, records, readers, writers, handles>>

\* The mountpoint is closed and the record erased.  Destroying the last record
\* deletes the root and then the driver; erasing another one moves its
\* successor over it, which deletes the driver first, and what is shared too.
EraseRecord(t) ==
  LET i == LastRecord(th[t].path)
      vol == records[i].vol
      gone == {h \in handles : h.of = Mounted(vol) /\ (h.fop = records[i].point \/ vol \in FatVolumes)}
  IN  /\ At(t, "erase")
      /\ UNCHANGED <<mount, locked, entries>>
      /\ records' = Without(records, i)
      /\ alive' = alive \ Delete(vol)
      /\ Release(gone, IF i < Len(records) THEN {"order"} ELSE {})
      /\ th' = [th EXCEPT ![t] = Idle]

-----------------------------------------------------------------------------

\* A FileOperator is used that has been deleted.
Dangling(t) ==
  /\ \/ ~(Pointers(t) \subseteq alive)
     \/ th[t].pc = "idle" /\ \E h \in handles : h.of = User(t) /\ h.fop \notin alive
  /\ windows' = windows \cup {"dangling"}
  /\ UNCHANGED <<alive, mount, locked, entries, records, readers, writers, handles, th>>

\* Nothing is known of what follows these.
Undefined == windows \cap {"stray", "order", "dangling"} # {}

Step(t) ==
  /\ th[t].pc # "idle"
  /\ \/ follow_mountpoints(t) \/ prepare_fop(t) \/ TryOpen(t) \/ append_child(t) \/ Leave(t)
     \/ Opened(t) \/ create_device(t) \/ create_fat_driver(t) \/ set_mount_driver(t)
     \/ record(t) \/ Failed(t) \/ ClearMount(t) \/ EraseRecord(t)

Call(t) ==
  \/ open(t) \/ close(t) \/ create(t) \/ remove(t) \/ create_device_file(t)
  \/ mount_volume(t) \/ unmount(t)

Next ==
  \/ ~Undefined /\ \E t \in Threads : Step(t) \/ Call(t) \/ Dangling(t)
  \/ Undefined /\ UNCHANGED vars

Fairness == \A t \in Threads : WF_vars(~Undefined /\ Step(t))

Spec == Init /\ [][Next]_vars /\ Fairness

-----------------------------------------------------------------------------
(* Properties.                                                             *)

\* Every driver asks for Single levels and exclusive use: a file has at most
\* one handle, and its counts say which.  That, and not the mutexes, is what
\* makes the walk of Handle::open, the unlocked store to FileOperator::mount
\* and the one cursor of a FAT directory safe.
SoleHandle ==
  windows = {} =>
    /\ \A g, h \in handles : g.fop = h.fop => g = h
    /\ \A f \in Files :
         /\ readers[f] = (IF \E h \in handles : h.fop = f /\ h.mode.read THEN 1 ELSE 0)
         /\ writers[f] = (IF \E h \in handles : h.fop = f /\ h.mode.write THEN 1 ELSE 0)

\* Neither an open file nor a file that an open has resolved to is deleted,
\* unless unmount has cleared a mount that another thread was just entering
\* (is_busy and the deletion are not one step), a record that was not the last
\* has been erased, or close has followed a parent that was never set.
OpenFilesExist ==
  windows = {} => /\ \A h \in handles : h.fop \in alive
                  /\ \A t \in Threads : Pointers(t) \subseteq alive

\* Whatever happens on the way, a call that has returned leaves no handle that
\* nobody can close: a failed open has closed the directories it went through,
\* and a failed mount the device and the mountpoint.
NothingLeaks ==
  /\ \A t \in Threads : th[t].pc = "idle" => WalkHandles(t) = {}
  /\ \A h \in handles : h.of.as = "volume" =>
       \/ \E i \in DOMAIN records : records[i].vol = h.of.who
       \/ \E t \in Threads : th[t].vol = h.of.who

\* Volumes that are mounted on each other, as the device file system is on
\* itself after a second "mount devfs /dev"
Circular == \E S \in SUBSET {Root(v) : v \in Volumes} : S # {} /\ \A f \in S : mount[f] \in S

\* Every call of open, mount, unmount and create_device_file returns, unless
\* the mounts have become circular: then follow_mountpoints never ends.
CallsEnd == \A t \in Threads : []<>(th[t].pc = "idle" \/ Circular \/ windows # {})

=============================================================================
