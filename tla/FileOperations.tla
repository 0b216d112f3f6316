---------------------------- MODULE FileOperations ----------------------------
(***************************************************************************)
(* file_operations and file_pointer (src/source/src/file_operations.cpp,   *)
(* src/include/file_operations.hpp), the Linux branch: objects that own a  *)
(* descriptor and a mapping of a file, and the two ways to save a list of  *)
(* pieces of memory.                                                       *)
(*                                                                         *)
(* A file is a sequence of chunks.  Descriptors and mappings are numbers,  *)
(* the lowest free one first, so that what is released twice may hit what  *)
(* another object has opened since.  A mapping shows its file as it was    *)
(* opened while nobody rewrites the file.  A system call can fail when its *)
(* name is in Faults.                                                      *)
(***************************************************************************)
EXTENDS Integers, Sequences, SequencesExt, FiniteSets

CONSTANTS
  Names,     \* the names of files
  Objects,   \* the variables of the caller that hold a file_operations
  Chunks,    \* what files and memory are made of
  Disks,     \* what can be on disk at first: functions from Names to contents
  Lists,     \* the lists of pieces that the caller saves
  Faults,    \* the system calls that can fail
  MaxOps     \* bound on the calls

Absent == <<"absent">>
Junk == "junk"
Null == 0       \* nullptr
Failed == -1    \* MAP_FAILED
NoName == "none"

Calls == {"open", "lseek", "mmap", "madvise", "munmap", "close", "write"}

\* What the caller makes a file_pointer of: memory of its own for each, or len bytes
\* behind the first `from` of an object's data.  The flag deletes them at the end.
Pointers ==
  [of : {"heap"}, what : Chunks, from : {0}, len : Nat, delete : BOOLEAN]
    \cup [of : {"object"}, what : Objects, from : Nat, len : Nat, delete : BOOLEAN]

ASSUME ChunksAssumption == Junk \in Chunks /\ "absent" \notin Chunks
ASSUME DisksAssumption == Disks \subseteq [Names -> Seq(Chunks) \cup {Absent}]
ASSUME ListsAssumption == Lists \subseteq Seq(Pointers)
ASSUME FaultsAssumption == Faults \subseteq Calls
ASSUME NamesAssumption == NoName \notin Names /\ NoName \notin Objects
ASSUME MaxOpsAssumption == MaxOps \in Nat

VARIABLES
  disk,    \* the content of each file
  sys,     \* the process: fds and maps in use, lost ones, faults, broken rules
  objs,    \* the objects of the caller
  call,    \* the call of save_third_file or save_this_file that runs
  ops      \* how many calls have begun

vars == <<disk, sys, objs, call, ops>>

-----------------------------------------------------------------------------
(* Objects: opening and releasing. *)

Dead == [live |-> FALSE, name |-> NoName, size |-> -1, data |-> Null,
         fd |-> -1, clean |-> TRUE]

\* Mutant of LowestFree: counted from zero.
LowestFromZero(used) ==
  CHOOSE k \in 0..Cardinality(used) :
    k \notin used /\ \A j \in 0..(k - 1) : j \in used

LowestFree(used) ==
  CHOOSE k \in 1..(Cardinality(used) + 1) :
    k \notin used /\ \A j \in 1..(k - 1) : j \in used

Fault(s, c) == [s EXCEPT !.faults = @ \cup {c}]
Lose(s, what) == [s EXCEPT !.lost = @ \cup what]
Break(s, what) == [s EXCEPT !.broken = @ \cup {what}]

\* read_file: the outcomes of open, lseek, mmap and madvise for the object x.
\* After a failure behind open the descriptor stays open and nobody has it.
ReadFile(s, x) ==
  LET fd == LowestFree(s.fds)
      m == LowestFree(DOMAIN s.maps)
      s1 == [s EXCEPT !.fds = @ \cup {fd}]
      s2 == [s1 EXCEPT !.maps =
               [k \in DOMAIN @ \cup {m} |->
                 IF k = m THEN [name |-> x.name, content |-> disk[x.name]]
                          ELSE @[k]]]
      Out(c, t, y) == IF c \in Faults THEN {[sys |-> Fault(t, c), obj |-> y]}
                                      ELSE {}
  IN   Out("open", s, [x EXCEPT !.fd = -1])
  \cup Out("lseek", Lose(s1, {<<"fd", fd>>}), [x EXCEPT !.fd = fd])
  \cup Out("mmap", Lose(s1, {<<"fd", fd>>}), [x EXCEPT !.fd = fd, !.data = Failed])
  \cup Out("madvise", Lose(s2, {<<"fd", fd>>, <<"map", m>>}),
           [x EXCEPT !.fd = fd, !.data = m])
  \cup {[sys |-> s2, obj |-> [x EXCEPT !.fd = fd, !.data = m, !.clean = FALSE]]}

\* set_constructor_vars of the object x.
SetVars(s, x) ==
  LET y == [x EXCEPT !.data = Null, !.clean = TRUE,
                     !.size = IF x.name \in Names /\ disk[x.name] # Absent
                              THEN Len(disk[x.name]) ELSE -1]
  IN IF y.size > 0 THEN ReadFile(s, y) ELSE {[sys |-> s, obj |-> y]}

\* What the objects other than o will release.
OthersFds(o) == {objs[p].fd : p \in {q \in Objects \ {o} : ~objs[q].clean}}
OthersMaps(o) == {objs[p].data : p \in {q \in Objects \ {o} : ~objs[q].clean}}

\* munmap and close of what o says it has, by number.
Unmap(s, o) ==
  LET t == [s EXCEPT !.maps = [k \in DOMAIN @ \ {objs[o].data} |-> @[k]]]
  IN IF objs[o].data \in OthersMaps(o) THEN Break(t, "foreign") ELSE t

CloseFd(s, o) ==
  LET t == [s EXCEPT !.fds = @ \ {objs[o].fd}]
  IN IF objs[o].fd \in OthersFds(o) THEN Break(t, "foreign") ELSE t

\* clear: the outcomes of munmap and close for the object o.  Linux releases the
\* descriptor also when close fails; closing one that is not open fails.  A file
\* that cannot be read is never mapped, so the second early return is the first.
Clear(o) ==
  LET x == objs[o]
      released == CloseFd(Unmap(sys, o), o)
  IN IF x.clean THEN {[sys |-> sys, obj |-> x, ret |-> 0]}
     ELSE {[sys |-> Fault(sys, c), obj |-> x, ret |-> -1] :
              c \in Faults \cap {"munmap"}}
     \cup {[sys |-> Fault(released, c), obj |-> x, ret |-> -1] :
              c \in {"close"} \cap (Faults \cup {e \in Calls : x.fd \notin sys.fds})}
     \cup {[sys |-> released, obj |-> [x EXCEPT !.clean = TRUE, !.data = Null],
            ret |-> 0] : e \in {x.fd} \cap sys.fds}

\* An object that stops to exist, or is assigned to, after clear has failed
\* takes what it still holds with it.
Abandon(o, c) ==
  Lose(c.sys, IF c.obj.clean THEN {}
              ELSE {<<"fd", k>> : k \in ({c.obj.fd} \cap c.sys.fds) \ OthersFds(o)}
          \cup {<<"map", k>> : k \in ({c.obj.data} \cap DOMAIN c.sys.maps)
                                        \ OthersMaps(o)})

\* No save runs.
Idle == [pc |-> "idle", ret |-> 0, self |-> NoName, target |-> NoName,
         trunc |-> FALSE, reload |-> FALSE, list |-> <<>>, next |-> 1,
         given |-> FALSE, copy |-> <<>>, before |-> <<>>, want |-> <<>>,
         safe |-> TRUE]

Init ==
  /\ disk \in Disks
  /\ sys = [fds |-> {}, maps |-> <<>>, lost |-> {}, faults |-> {}, broken |-> {}]
  /\ objs = [o \in Objects |-> Dead]
  /\ call = Idle
  /\ ops = 0

Begin == call.pc \in {"idle", "returned"} /\ ops < MaxOps /\ ops' = ops + 1

NoSave == call' = Idle

\* file_operations(name)
Construct(o, n) ==
  /\ Begin /\ ~objs[o].live
  /\ \E r \in SetVars(sys, [Dead EXCEPT !.live = TRUE, !.name = n]) :
       sys' = r.sys /\ objs' = [objs EXCEPT ![o] = r.obj]
  /\ NoSave /\ UNCHANGED disk

\* The copy constructor opens the file again.
CopyConstruct(o, p) ==
  /\ Begin /\ ~objs[o].live /\ objs[p].live
  /\ \E r \in SetVars(sys, [Dead EXCEPT !.live = TRUE, !.name = objs[p].name]) :
       sys' = r.sys /\ objs' = [objs EXCEPT ![o] = r.obj]
  /\ NoSave /\ UNCHANGED disk

\* Mutant of MovedFrom: memory_is_clean is forgotten.
MovedFromKeeps(x) == [x EXCEPT !.name = NoName, !.size = -1, !.data = Null,
                               !.fd = -1]

\* What a move leaves behind.
MovedFrom(x) == [x EXCEPT !.name = NoName, !.size = -1, !.data = Null,
                          !.fd = -1, !.clean = TRUE]

MoveConstruct(o, p) ==
  /\ Begin /\ ~objs[o].live /\ objs[p].live
  /\ objs' = [objs EXCEPT ![o] = objs[p], ![p] = MovedFrom(objs[p])]
  /\ NoSave /\ UNCHANGED <<disk, sys>>

\* Mutant of CopyAssign: the assignment does not release what it had.
CopyAssignNoClear(o, p) ==
  /\ Begin /\ objs[o].live /\ objs[p].live
  /\ \E r \in SetVars(Abandon(o, [sys |-> sys, obj |-> objs[o]]),
                      [objs[o] EXCEPT !.name = objs[p].name]) :
       sys' = r.sys /\ objs' = [objs EXCEPT ![o] = r.obj]
  /\ NoSave /\ UNCHANGED disk

\* The copy assignment destroys the object, whatever clear returns, and opens
\* the file of the other one.
CopyAssign(o, p) ==
  /\ Begin /\ objs[o].live /\ objs[p].live
  /\ \E c \in Clear(o) :
       \E r \in SetVars(Abandon(o, c), [c.obj EXCEPT !.name = objs[p].name]) :
         sys' = r.sys /\ objs' = [objs EXCEPT ![o] = r.obj]
  /\ NoSave /\ UNCHANGED disk

\* The move assignment, of an object to itself too: then nothing is left.
MoveAssign(o, p) ==
  /\ Begin /\ objs[o].live /\ objs[p].live
  /\ \E c \in Clear(o) :
       LET source == IF o = p THEN c.obj ELSE objs[p]
       IN /\ sys' = Abandon(o, c)
          /\ objs' = [objs EXCEPT ![o] = source, ![p] = MovedFrom(source)]
  /\ NoSave /\ UNCHANGED disk

Destroy(o) ==
  /\ Begin /\ objs[o].live
  /\ \E c \in Clear(o) :
       /\ sys' = Abandon(o, c)
       /\ objs' = [objs EXCEPT ![o] = Dead]
  /\ NoSave /\ UNCHANGED disk

-----------------------------------------------------------------------------
(* Saving a list of pieces. *)

\* A file_pointer: a piece of the caller's heap, or of what get_data_file of an object
\* returns.  Without data or size it is null.
Piece(p) ==
  LET data == IF p.of = "object" THEN objs[p.what].data ELSE Null
      At(ptr, from, len) == [ptr |-> ptr, from |-> from, len |-> len, delete |-> p.delete]
  IN IF p.of = "heap" THEN At(<<"heap", p.what>>, 0, 1)
     ELSE IF data = Null \/ p.len = 0 THEN At(<<"map", Null>>, 0, 0)
     ELSE At(<<"map", data>>, p.from, p.len)

\* The mapping m still shows the file it was made of.
Fresh(m) ==
  /\ m \in DOMAIN sys.maps
  /\ IsPrefix(sys.maps[m].content, disk[sys.maps[m].name])

\* The first piece was the shared copy, and was popped with the flag that deletes it.
CopyFreed == call.next > 1 /\ call.list[1].delete /\ call.list[1].ptr[1] = "copy"

\* What write_file reads for the piece p, and how that goes wrong.
Bytes(p) ==
  CASE p.ptr[1] = "heap" -> <<p.ptr[2]>>
    [] p.ptr[1] = "copy" -> [k \in 1..p.len |-> IF k \in DOMAIN call.copy /\ ~CopyFreed
                                                THEN call.copy[k] ELSE Junk]
    [] OTHER -> [k \in 1..p.len |->
                  IF Fresh(p.ptr[2]) /\ p.from + k <= Len(sys.maps[p.ptr[2]].content)
                  THEN sys.maps[p.ptr[2]].content[p.from + k] ELSE Junk]

Reading(s, p) ==
  IF p.len > 0 /\ \E k \in 1..p.len : Bytes(p)[k] = Junk
  THEN Break(s, IF p.ptr[1] # "copy" THEN "stale"
                ELSE IF CopyFreed THEN "freed" ELSE "beyond") ELSE s

\* ~file_pointer of pieces of which nothing may be deleted but heap memory: a mapping
\* is not of new, and the copy belongs to clear_this.
Drop(s, list) ==
  IF \E k \in DOMAIN list : list[k].delete /\ list[k].ptr[1] # "heap"
                                           /\ list[k].ptr # <<"map", Null>>
  THEN Break(s, "delete") ELSE s

\* pop_front behind the first piece.  A list of one piece is done before clear_this: the
\* copy stays, unless the piece deletes it.
Pop(s, p) ==
  IF p.ptr[1] # "copy" THEN Drop(s, <<p>>)
  ELSE IF Len(call.list) = 1 /\ ~p.delete THEN Lose(s, {<<"copy", 0>>}) ELSE s

\* clear_this, and what is left of the list is destroyed, on failure by the caller.
Released(s) == Drop(IF CopyFreed THEN Break(s, "delete") ELSE s,
                    IF call.next > 1 THEN Tail(call.list) ELSE call.list)

\* The return of a save.
Return(s, value) ==
  /\ sys' = Released(s)
  /\ call' = [call EXCEPT !.pc = "returned", !.ret = value]

\* A save begins.  It is safe when each piece can still be read at its turn: of the heap;
\* null; from the front of the object's own data, not longer than the copy will be and
\* without the flag that deletes the copy, unless it is the only piece; or of the data of
\* another object, without that flag, whose file is not the one that is written.
NewCall(kind, o, target, given, mode, reload) ==
  LET list == [k \in DOMAIN given |-> Piece(given[k])]
      old == IF disk[target] = Absent THEN <<>> ELSE disk[target]
      base == IF mode = "trunc" THEN <<>> ELSE old
      inside(k) == o # NoName /\ list[k].ptr = <<"map", objs[o].data>>
      own(k) == inside(k) /\ list[k].from = 0
      safe(k) == \/ list[k].ptr[1] = "heap"
                 \/ list[k].len = 0 /\ ~own(k)
                 \/ /\ own(k) /\ (list[k].delete => Len(list) = 1)
                    /\ \A j \in 1..k : own(j) => list[j].len >= list[k].len
                 \/ /\ ~inside(k) /\ ~list[k].delete /\ Fresh(list[k].ptr[2])
                    /\ sys.maps[list[k].ptr[2]].name # target
  IN [Idle EXCEPT !.pc = kind, !.self = o, !.target = target,
                  !.trunc = (mode = "trunc"), !.reload = reload,
                  !.list = list, !.before = disk[target],
                  !.safe = (\A k \in DOMAIN list : safe(k)),
                  !.want = base \o FlattenSeq([k \in DOMAIN list |-> Bytes(list[k])])]

\* A piece of the list may only show data that its object has, but for the length of
\* those from the front of the object's own, which save_this_file looks at.
Legal(list, self) ==
  \A k \in DOMAIN list : list[k].of = "object" =>
    /\ objs[list[k].what].live
    /\ \/ list[k].what = self /\ list[k].from = 0
       \/ list[k].from + list[k].len <= objs[list[k].what].size

\* save_third_file
SaveThird(target, list, mode) ==
  /\ Begin /\ Legal(list, NoName)
  /\ LET c == NewCall("open", NoName, target, list, mode, FALSE)
     IN call' = IF list = <<>> THEN [c EXCEPT !.pc = "returned"] ELSE c
  /\ UNCHANGED <<disk, sys, objs>>

\* save_this_file; std::ofstream can not be opened with in and app together.
SaveThis(o, list, mode, reload) ==
  /\ Begin /\ objs[o].live /\ objs[o].name \in Names /\ Legal(list, o)
  /\ LET c == NewCall("copy", o, objs[o].name, list, mode, reload)
     IN call' = IF mode = "in" THEN [c EXCEPT !.pc = "returned", !.ret = -1] ELSE c
  /\ UNCHANGED <<disk, sys, objs>>

\* Mutant of CopyOwn: the object's own data are not copied before they are unmapped.
CopyOwnNot ==
  /\ call.pc = "copy"
  /\ call' = [call EXCEPT !.pc = "clear"]
  /\ UNCHANGED <<disk, sys, objs, ops>>

\* The pieces from the front of the object's own data, before the one that is too long,
\* are replaced by one copy, as long as the first of them; or all are.
CopyOwn ==
  /\ call.pc = "copy"
  /\ LET x == objs[call.self]
         own == {k \in DOMAIN call.list : /\ call.list[k].ptr = <<"map", x.data>>
                                          /\ call.list[k].from = 0}
         long == {k \in own : call.list[k].len > x.size}
         first == CHOOSE k \in own : \A j \in own : k <= j
         moved == {k \in own : \A j \in long : k < j}
         list == [k \in DOMAIN call.list |->
                   IF k \in moved THEN [call.list[k] EXCEPT !.ptr = <<"copy", 0>>]
                                  ELSE call.list[k]]
     IN IF long # {}
        THEN /\ sys' = Drop(sys, list)
             /\ call' = [call EXCEPT !.pc = "returned", !.ret = -1]
        ELSE /\ call' = [call EXCEPT !.pc = "clear", !.list = list,
                           !.given = (own # {}),
                           !.copy = IF own = {} THEN <<>> ELSE Bytes(call.list[first])]
             /\ UNCHANGED sys
  /\ UNCHANGED <<disk, objs, ops>>

ClearThis ==
  /\ call.pc = "clear"
  /\ \E c \in Clear(call.self) :
       /\ objs' = [objs EXCEPT ![call.self] = c.obj]
       /\ IF c.ret = -1 \/ call.list = <<>>
          THEN Return(c.sys, c.ret)
          ELSE sys' = c.sys /\ call' = [call EXCEPT !.pc = "open"]
  /\ UNCHANGED <<disk, ops>>

\* Mutant of OpenStream: every piece truncates.
OpenStreamTrunc ==
  /\ call.pc = "open"
  /\ \/ /\ "open" \in Faults
        /\ Return(Fault(sys, "open"), -1)
        /\ UNCHANGED disk
     \/ /\ disk' = [disk EXCEPT ![call.target] =
                     IF @ = Absent \/ call.trunc THEN <<>> ELSE @]
        /\ call' = [call EXCEPT !.pc = "write"]
        /\ UNCHANGED sys
  /\ UNCHANGED <<objs, ops>>

\* write_file opens the stream: the first piece truncates or appends, the others
\* append.
OpenStream ==
  /\ call.pc = "open"
  /\ \/ /\ "open" \in Faults
        /\ Return(Fault(sys, "open"), -1)
        /\ UNCHANGED disk
     \/ /\ disk' = [disk EXCEPT ![call.target] =
                     IF @ = Absent \/ (call.trunc /\ call.next = 1) THEN <<>> ELSE @]
        /\ call' = [call EXCEPT !.pc = "write"]
        /\ UNCHANGED sys
  /\ UNCHANGED <<objs, ops>>

\* Behind the piece that was written: the first is popped, the others are cleared
\* at the end.  A list of one piece returns before the reload and clear_this.
WriteStream ==
  /\ call.pc = "write"
  /\ LET p == call.list[call.next]
         last == call.next = Len(call.list)
         s == Reading(sys, p)
     IN \/ /\ p.ptr = <<"map", Null>>
           /\ Return(sys, -1)
           /\ UNCHANGED disk
        \/ /\ p.ptr # <<"map", Null>>
           /\ \E done \in {TRUE} \cup {FALSE : c \in Faults \cap {"write"}} :
                LET t == IF done THEN s ELSE Fault(s, "write")
                    popped == IF call.next = 1 THEN Pop(t, p) ELSE t
                IN /\ disk' = [disk EXCEPT ![call.target] =
                                IF done THEN @ \o Bytes(p) ELSE @]
                   /\ \/ /\ last /\ call.next = 1
                         /\ sys' = popped
                         /\ call' = [call EXCEPT !.pc = "returned", !.ret = 0]
                      \/ /\ last /\ call.next > 1 /\ ~call.reload
                         /\ Return(popped, 0)
                      \/ /\ ~last \/ (call.next > 1 /\ call.reload)
                         /\ sys' = popped
                         /\ call' = [call EXCEPT !.next = @ + 1,
                                       !.pc = IF last THEN "reload" ELSE "open"]
  /\ UNCHANGED <<objs, ops>>

\* Mutant of Reload: read_file without a new size.
ReloadOldSize ==
  /\ call.pc = "reload"
  /\ \E r \in ReadFile(sys, objs[call.self]) :
       /\ objs' = [objs EXCEPT ![call.self] = r.obj]
       /\ Return(r.sys, IF r.obj.size < 0 \/ (r.obj.size > 0 /\ r.obj.clean)
                        THEN -1 ELSE 0)
  /\ UNCHANGED <<disk, ops>>

\* set_constructor_vars at the end of save_this_file.
Reload ==
  /\ call.pc = "reload"
  /\ \E r \in SetVars(sys, objs[call.self]) :
       /\ objs' = [objs EXCEPT ![call.self] = r.obj]
       /\ Return(r.sys, IF r.obj.size < 0 \/ (r.obj.size > 0 /\ r.obj.clean)
                        THEN -1 ELSE 0)
  /\ UNCHANGED <<disk, ops>>

Modes == {"trunc", "app", "in"}

Next ==
  \/ \E o \in Objects :
       \/ \E n \in Names : Construct(o, n)
       \/ \E p \in Objects : \/ CopyConstruct(o, p) \/ MoveConstruct(o, p)
                             \/ CopyAssign(o, p) \/ MoveAssign(o, p)
       \/ Destroy(o)
       \/ \E list \in Lists, mode \in Modes, reload \in BOOLEAN :
            SaveThis(o, list, mode, reload)
  \/ \E n \in Names, list \in Lists, mode \in Modes : SaveThird(n, list, mode)
  \/ CopyOwn \/ ClearThis \/ OpenStream \/ WriteStream \/ Reload

Spec == Init /\ [][Next]_vars

-----------------------------------------------------------------------------
(* Properties *)

\* The types of the variables.  (class file_operations)
TypeOK ==
  /\ DOMAIN disk = Names
  /\ sys.fds \subseteq Nat \ {0} /\ DOMAIN sys.maps \subseteq Nat \ {0}
  /\ sys.lost \subseteq {"fd", "map", "copy"} \X Nat
  /\ sys.faults \subseteq Calls
  /\ sys.broken \subseteq {"foreign", "delete", "stale", "beyond", "freed"}
  /\ \A o \in Objects : /\ objs[o].name \in Names \cup {NoName}
                        /\ objs[o].data >= -1 /\ objs[o].size >= -1
                        /\ objs[o].clean \in BOOLEAN
  /\ call.pc \in {"idle", "returned", "copy", "clear", "open", "write", "reload"}
  /\ call.next \in 1..(Len(call.list) + 1)
  /\ ops \in 0..MaxOps

\* While close has not failed, every descriptor and mapping in use has one
\* object that will release it, through copies, moves, assignments and saves, or
\* is listed as lost; and no object would release what is not its own.
\* (memory_is_clean in clear, read_file and the five special members)
OwnedOnce ==
  "close" \notin sys.faults =>
    LET holders == {o \in Objects : ~objs[o].clean}
    IN /\ \A o \in holders : objs[o].live
       /\ \A o, p \in holders :
            o # p => objs[o].fd # objs[p].fd /\ objs[o].data # objs[p].data
       /\ sys.fds = {objs[o].fd : o \in holders}
                      \cup {x[2] : x \in {y \in sys.lost : y[1] = "fd"}}
       /\ DOMAIN sys.maps = {objs[o].data : o \in holders}
                              \cup {x[2] : x \in {y \in sys.lost : y[1] = "map"}}
       /\ "foreign" \notin sys.broken

\* While no system call has failed nothing is lost, except the copy of its own
\* data that save_this_file leaves when it saves one piece only.
\* (the constructors, assignments and destructor, save_this_file)
NothingLost == sys.faults = {} => sys.lost \subseteq {<<"copy", 0>>}

Returned == call.pc = "returned" /\ call.list # <<>>

\* A save that returns 0, was safe (NewCall) and met no failing write has left the
\* pieces in the file, in order, behind what was there if it appends; also pieces of
\* the data that save_this_file unmaps before it writes.
\* (save_third_file, save_this_file, write_file)
SavedWhole ==
  Returned /\ call.ret = 0 /\ call.safe /\ "write" \notin sys.faults =>
    disk[call.target] = call.want

\* At every moment of a safe save, so wherever it fails or the process ends, the file
\* is as before or a prefix of what it should become.  (the order of truncation,
\* clear and writes in save_third_file, save_this_file and write_file)
SavedInOrder ==
  call.list # <<>> /\ call.safe /\ "write" \notin sys.faults =>
    \/ disk[call.target] = call.before
    \/ IsPrefix(disk[call.target], call.want)

\* After a save of two pieces or more that should reload and returns 0, the
\* object shows the file as it is now on disk.  (the end of save_this_file)
ReloadShows ==
  Returned /\ call.ret = 0 /\ call.reload /\ Len(call.list) > 1 =>
    LET x == objs[call.self]
    IN /\ x.size = Len(disk[x.name])
       /\ x.size > 0 => ~x.clean /\ sys.maps[x.data].content = disk[x.name]
=============================================================================
