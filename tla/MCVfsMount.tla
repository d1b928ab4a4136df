----------------------------- MODULE MCVfsMount -----------------------------
(***************************************************************************)
(* A pool with a directory that holds a name twice, a file, a legacy file, *)
(* a symlink, a dangling entry and an entry that calls a file a symlink,   *)
(* on a source with up to three cells lost, read in pieces of any of four  *)
(* sizes.                                                                  *)
(***************************************************************************)
EXTENDS VfsMount

\* A directory entry: type code and object id.
E(name, type, obj) == <<name, IdBits * type + obj>>

Obj(bonus, kind, size, blocks, entries, xattrs) ==
  [bonus |-> bonus, kind |-> kind, size |-> size, blocks |-> blocks,
   entries |-> entries, xattrs |-> xattrs, blockSize |-> 2]

MCObjects ==
  [obj \in 3 .. 8 |->
     CASE obj = 3 -> Obj("sa", "dir", 4, <<0, 0>>,
                         <<E("a", 4, 4), E("b", 8, 5), E("a", 8, 6), E("c", 10, 7)>>, <<>>)
       [] obj = 4 -> Obj("sa", "dir", 2, <<0, 0>>, <<E("b", 10, 6), E("c", 8, 9), E("a", 8, 8)>>, << <<9>> >>)
       [] obj = 5 -> Obj("sa", "file", 3, <<1, 2, 3, 4>>, <<>>, << <<7, 8>>, <<>> >>)
       [] obj = 6 -> Obj("znode", "file", 2, <<5, 6>>, <<>>, <<>>)
       [] obj = 7 -> Obj("sa", "symlink", 3, <<6, 7, 8, 9>>, <<>>, <<>>)
       [] obj = 8 -> Obj("other", "file", 1, <<4, 3>>, <<>>, <<>>)]

Intact ==
  << Cell("label"), Cell("bare_label"), Cell("mos"), Cell("objdir"), Cell("dsl_dir"),
     Cell("dataset"), Cell("zpl"), Cell("master"), <<"dnode", 3>>, <<"data", 3>>,
     <<"dnode", 4>>, <<"data", 4>>, <<"dnode", 5>>, <<"data", 5>>, <<"dnode", 6>>,
     <<"data", 6>>, <<"dnode", 7>>, <<"data", 7>>,
     <<"dnode", 8>>, <<"data", 8>>, Cell("sa_master"), Cell("registry"),
     Cell("layouts"), Cell("bare_label") >>

\* One cell overwritten, or both front labels and one more.
Lose(cells, i) == [cells EXCEPT ![i] = Cell("junk")]
Lost == {Lose(Intact, i) : i \in DOMAIN Intact}

AllSources ==
  {Intact} \cup Lost \cup {Lose(Lose(s, 1), 2) : s \in Lost}
    \cup {[Intact EXCEPT ![3] = Cell("short_mos")], [Intact EXCEPT ![7] = Cell("zvol")]}
=============================================================================
