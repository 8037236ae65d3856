---------------------------- MODULE MCBlockFlash ----------------------------
EXTENDS BlockFlash
(* An EC header, which starts with "UBI#", and the VID header after it; the *)
(* second image has one more 0x55 byte in between, as a checksum may have,  *)
(* and the third is no UBI image.                                           *)
Header(gap) == <<"U", "B", "I", "#">> \o gap \o <<"U", "B", "I", "!">>
MCImages == {Header(<<"x", "x", "x", "x">>), Header(<<"U", "x", "x", "x">>),
             <<"x", "x">>}
(* An NFI file of five partitions, whole, cut at several places, and one of *)
(* three partitions only.                                                   *)
MCNfiFiles ==
  {[sizes |-> <<1, 1, 1, 3, 1>>, cut |-> c] : c \in {0, 1, 5, 9, 10, 14}}
    \cup {[sizes |-> <<1, 1, 1>>, cut |-> 8]}
(* "old" is a name the archive does not have.                               *)
MCNames == {"etc", "init", "sh", "old"}
MCArchives ==
  {<<[name |-> "etc", kind |-> "dir"], [name |-> "init", kind |-> "file"],
     [name |-> "sh", kind |-> "link"]>>}
==============================================================================
