-------------------------------- MODULE MCTools --------------------------------
(* Values for module Tools: two users with a password each, files of less than a *)
(* block, of whole blocks and of neither, images with and without room; texts   *)
(* with every rest of three bytes, empty lines and the last two letters.        *)
EXTENDS Tools

MCUsers == {"ann", "bob"}
MCTabs == {"files", "b64", "sha256", "dfhl"}

MCMaxOps == [files |-> 2, b64 |-> 2, sha256 |-> 2, dfhl |-> 4]

Document(dir, name, len) == [dir |-> dir, name |-> name, len |-> len]
Image(dir, name, rows, cols) == [dir |-> dir, name |-> name, rows |-> rows, cols |-> cols]
Note == Document(Home, "note", 5)
Sky == Image(Home, "sky", 2, 65)

\* Encrypted, the note's last byte starts in the last column of the sky.  Seek refuses
\* the dot, which has room for the note, not for the encrypted one.
MCStarts ==
  {<<Note, Sky>>, <<Document(Home, "pin", 3), Sky>>,
   <<Document(Home, "doc", 8), Sky>>, <<Note, Image(Home, "dot", 2, 32)>>,
   <<Document("ann", "note", 5), Image("bob", "sea", 5, 26)>>}
MCNameLength == [pin |-> 3, note |-> 4, doc |-> 3, sky |-> 3, sea |-> 3, dot |-> 3,
                 noise |-> 5, out |-> 3]
MCPasswords == {"pa", "pb"}
MCPasswordOf == [ann |-> "pa", bob |-> "pb"]
MCOutNames == {"", "out"}
MCScrapLens == {0, 5}

\* 'A' is 65, '?' 63, '>' 62 and the line end 10.
MCTexts == {<<>>, <<65>>, <<62, 63>>, <<65, 66, 63>>, <<10, 65, 10, 10, 66, 67>>,
            <<65, 66, 62, 67, 10>>, <<65, 65, 10, 66>>, <<81, 65, 61, 61>>, <<81>>,
            <<81, 65, 81>>, <<81, 65, 61>>, <<62, 63, 63, 62, 63>>}
MCContents == {<<>>, <<65, 0, 66>>, <<255, 254, 65>>, <<81, 65, 61, 61>>, <<65, 10, 66, 67>>, <<0>>}
MCBehind == {<<>>, <<65>>}
MCOddKeys == {<<0, 0, 0, 1>>, <<1, 3, 0, 4>>}
=============================================================================
