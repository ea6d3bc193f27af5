-------------------------------- MODULE MCShell --------------------------------
(***************************************************************************)
(* Ram disks for the shell: with an empty file, files that fill their last *)
(* block and one that does not, and two of one name.                       *)
(***************************************************************************)
EXTENDS Shell

File(filename, text) == [filename |-> filename, text |-> text]

RamDisks == {
    <<File("a", <<"t", "u", "v">>), File("b", <<"t", "u">>), File("c", <<>>)>>,
    <<File("b", <<>>), File("a", <<"t", "u">>), File("a", <<"v">>)>>}

(* The shortest file whose text with a NUL fills a chunk of the heap, and  *)
(* one that is a character shorter.                                        *)
Letters(n) == [i \in 1 .. n |-> "t"]
LongTexts == {<<File("a", Letters(11))>>, <<File("a", Letters(10))>>}
=============================================================================
