--------------------------- MODULE MCFileOperations ---------------------------
(***************************************************************************)
(* Instances of FileOperations for TLC: two objects, a file of two chunks  *)
(* and a name that is free or an empty file, lists of up to three pieces   *)
(* of the heap and of the data of the objects, with lengths up to one more *)
(* than the file has, from the second chunk on, and with the flag that     *)
(* deletes the data.                                                       *)
(***************************************************************************)
EXTENDS FileOperations

MCChunks == {"x", "y", "a", "b", Junk}

MCDisks == {[n \in Names |-> IF n = "f" THEN <<"x", "y">> ELSE c] :
             c \in {Absent, <<>>}}

Heap(c) == [of |-> "heap", what |-> c, from |-> 0, len |-> 1, delete |-> TRUE]
Data(o, len, delete) == [of |-> "object", what |-> o, from |-> 0, len |-> len,
                         delete |-> delete]
Rest(o) == [Data(o, 1, FALSE) EXCEPT !.from = 1]

MCLists == {<<>>, <<Heap("a")>>, <<Heap("a"), Heap("b")>>,
            <<Data("o1", 2, FALSE)>>, <<Data("o1", 2, TRUE)>>,
            <<Data("o1", 3, FALSE), Heap("a")>>,
            <<Data("o1", 2, FALSE), Heap("a"), Data("o1", 1, FALSE)>>,
            <<Data("o1", 1, FALSE), Data("o1", 2, FALSE)>>,
            <<Heap("a"), Data("o1", 0, FALSE)>>,
            <<Data("o1", 2, TRUE), Data("o1", 1, FALSE)>>,
            <<Data("o1", 1, FALSE), Rest("o1")>>}
=============================================================================
