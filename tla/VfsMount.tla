------------------------------ MODULE VfsMount ------------------------------
(***************************************************************************)
(* The mount of a pool and a client of it (vfs.rs over zpl.rs): the whole  *)
(* source is read into memory, the bootstrap follows one hop after the     *)
(* other to the root directory, and the client walks directories and reads *)
(* streams in pieces of its own choice.                                    *)
(*                                                                         *)
(* The image is a sequence of cells, each holding one structure of the     *)
(* pool whole or something else: a structure can be read if its cell is in *)
(* the image.  Blocks, ZAPs and attributes are modelled elsewhere.         *)
(***************************************************************************)
EXTENDS Integers, Sequences, SequencesExt

CONSTANTS
  Sources,    \* the contents of the sources, sequences of cells
  Objects,    \* the objects of the root dataset, records by object id
  RootId,     \* the object the master node names ROOT
  Names,      \* the names a client may look up
  Pieces,     \* how many cells or bytes a read may give at once
  MaxPath     \* bound on the client's path

\* Directory entries hold a type code above the bits of the object id.  It is
\* passed on as it stands: nothing compares it with the mode of the object.
IdBits == 16

\* Sources are sequences, of any cells.
SourcesAssumption == \A s \in Sources : s \in Seq(Range(s))

PiecesAssumption == Pieces \subseteq Nat \ {0}

ObjectsAssumption ==
  /\ RootId \in 0 .. IdBits - 1
  /\ \A obj \in DOMAIN Objects :
       Objects[obj] \in [bonus : STRING, kind : STRING, size : Nat, blockSize : Nat,
                        blocks : Seq(Nat), entries : Seq(Names \X Nat), xattrs : Seq(Seq(Nat))]

ASSUME SourcesAssumption
ASSUME PiecesAssumption
ASSUME MaxPathAssumption == MaxPath \in Nat
ASSUME ObjectsAssumption

VARIABLES
  source,     \* the source
  image,      \* what read_all has got of it
  phase,      \* where open is, "mounted" or "failed"
  stage,      \* the stage a failed open names
  tables,     \* the mount has the SA registry and layouts
  poolName,   \* the mount has the name of the pool
  recordSize, \* the record size, or 0 for the default
  path, node, \* the client's path and the object it led to
  stream,     \* the stream being read: "none", 0 for the data, i for attribute i
  got,        \* the bytes read of it
  ended       \* the read that gave none has been made, or one has failed

client == <<path, node, stream, got, ended>>
mount == <<stage, tables, poolName, recordSize>>
vars == <<source, image, phase, mount, client>>

Absent == -1
NoStream == -1
Failure == <<-1>>
Cell(kind) == <<kind, 0>>

Init ==
  /\ source \in Sources
  /\ image = <<>>
  /\ phase = "reading" /\ stage = "none"
  /\ tables = FALSE /\ poolName = FALSE /\ recordSize = 0
  /\ path = <<>> /\ node = RootId
  /\ stream = NoStream /\ got = <<>> /\ ended = FALSE

-----------------------------------------------------------------------------
(***************************************************************************)
(* read_all: until the source gives nothing or all of it is there.         *)
(***************************************************************************)
Filling == phase = "reading" /\ Len(image) < Len(source)

Fill ==
  /\ Filling
  /\ \E n \in Pieces : image' = SubSeq(source, 1, IF Len(image) + n < Len(source)
                                                  THEN Len(image) + n ELSE Len(source))
  /\ UNCHANGED <<source, phase, mount, client>>

FillFails ==
  /\ Filling
  /\ phase' = "failed" /\ stage' = "io"
  /\ UNCHANGED <<source, image, tables, poolName, recordSize, client>>

\* Mutant: the buffer keeps its full length after a short read.
FilledUncut ==
  /\ phase = "reading"
  /\ phase' = "uberblock"
  /\ image' = image \o [i \in 1 .. Len(source) - Len(image) |-> Cell("zero")]
  /\ UNCHANGED <<source, mount, client>>

\* The source gives no more, early or at its end.
Filled ==
  /\ phase = "reading"
  /\ phase' = "uberblock"
  /\ UNCHANGED <<source, image, mount, client>>

-----------------------------------------------------------------------------
(***************************************************************************)
(* open.  Two labels are looked for in front and two behind, the latter    *)
(* from the end of what was read.                                          *)
(***************************************************************************)
Present(cell) == \E i \in DOMAIN image : image[i] = cell

LabelCells == {1, 2, Len(image) - 1, Len(image)} \cap DOMAIN image

\* A label without its config still has its uberblocks.
HasUberblock == \E i \in LabelCells : image[i] \in {Cell("label"), Cell("bare_label")}

Hop(from, ok, to, failure) ==
  /\ phase = from
  /\ phase' = IF ok THEN to ELSE "failed"
  /\ stage' = IF ok THEN stage ELSE failure
  /\ UNCHANGED <<source, image, tables, poolName, recordSize, client>>

FindUberblock == Hop("uberblock", HasUberblock, "mos_block", "uberblock_ring")

ReadMos == Hop("mos_block", Present(Cell("mos")) \/ Present(Cell("short_mos")), "mos", "MOS_block")

ParseMos == Hop("mos", Present(Cell("mos")), "chain", "MOS_objset")

\* zpl_objset: object directory, DSL directory, dataset, objset.
Chain == /\ Present(Cell("objdir")) /\ Present(Cell("dsl_dir")) /\ Present(Cell("dataset"))
         /\ Present(Cell("zpl")) \/ Present(Cell("zvol"))

ResolveZpl == Hop("chain", Chain, "type", "root_dataset_chain")

CheckType == Hop("type", Present(Cell("zpl")), "root", "objset_type")

\* zpl_master_root names an object; it need not be there.
FindRoot == Hop("root", Present(Cell("master")), "tables", "ROOT_entry")

\* zpl_sa_context.
SaContext == \A kind \in {"master", "sa_master", "registry", "layouts"} : Present(Cell(kind))

Dnode(obj) == Present(<<"dnode", obj>>) /\ obj \in DOMAIN Objects

\* pool_config: the config of L0 only.
PoolConfig == image # <<>> /\ image[1] = Cell("label")

\* The rest degrades: no tables, the default record size, no name.
Mount ==
  /\ phase = "tables"
  /\ phase' = "mounted"
  /\ tables' = SaContext
  /\ recordSize' = IF Dnode(RootId) THEN Objects[RootId].blockSize ELSE 0
  /\ poolName' = PoolConfig
  /\ UNCHANGED <<source, image, stage, client>>

-----------------------------------------------------------------------------
(***************************************************************************)
(* The operations on a mounted file system.                                *)
(***************************************************************************)
\* zpl_attrs.
HasAttrs(obj) ==
  Dnode(obj) /\ (Objects[obj].bonus = "znode" \/ (Objects[obj].bonus = "sa" /\ tables))

\* The size an object reports: its own, or 0 if its bonus does not decode.
SizeOf(obj) == IF HasAttrs(obj) THEN Objects[obj].size ELSE 0

Data(obj) == Present(<<"data", obj>>)

Shorter(s, n) == SubSeq(s, 1, IF n < Len(s) THEN n ELSE Len(s))

\* zpl_read_file_with: the blocks, cut to the size if there is one.
ReadFileWith(obj, sized, size) ==
  IF ~Dnode(obj) \/ ~Data(obj) \/ Objects[obj].blockSize = 0 THEN Failure
  ELSE IF sized THEN Shorter(Objects[obj].blocks, size) ELSE Objects[obj].blocks

Content(obj) == ReadFileWith(obj, HasAttrs(obj), SizeOf(obj))

\* Mutant: the type bits left in the object id.
MaskedNot(entries) == entries

\* zap_list of a directory; its entries with the object id cut out.
Masked(entries) == [i \in DOMAIN entries |-> <<entries[i][1], entries[i][2] % IdBits>>]
DirReadable(obj) == Dnode(obj) /\ Data(obj)
DirEntries(obj) == IF DirReadable(obj) THEN Masked(Objects[obj].entries) ELSE Failure

FirstNamed(entries, name) ==
  LET named == {i \in DOMAIN entries : entries[i][1] = name}
  IN IF named = {} THEN Absent ELSE entries[Min(named)][2]

\* Mutant: the last entry of a name.
LookupLast(parent, name) ==
  IF DirReadable(parent)
  THEN FirstNamed(Reverse(DirEntries(parent)), name) ELSE Absent

\* FileSystem::lookup; an unreadable directory is an error.
Lookup(parent, name) ==
  IF DirReadable(parent) THEN FirstNamed(DirEntries(parent), name) ELSE Absent

\* zpl_list_dir: an unreadable directory is taken for an empty one.
ListDir(obj) == IF DirReadable(obj) THEN Masked(Objects[obj].entries) ELSE <<>>

\* The objects it goes through, that after i names under i.
ZplWalk(names) ==
  LET at[i \in 0 .. Len(names)] ==
        IF i = 0 THEN RootId
        ELSE IF at[i - 1] = Absent THEN Absent ELSE FirstNamed(ListDir(at[i - 1]), names[i])
  IN at

\* Tables are needed, and so are the attributes of the last object.
ZplLookup(names) ==
  LET last == ZplWalk(names)[Len(names)]
  IN IF tables /\ last # Absent /\ HasAttrs(last) THEN last ELSE Absent

\* zpl_read_path.
ReadPath(names) ==
  IF ZplLookup(names) = Absent THEN Failure
  ELSE ReadFileWith(ZplLookup(names), TRUE, SizeOf(ZplLookup(names)))

\* list_xattrs, and the streams data_streams lists: 0 is the data.
Xattrs(obj) == IF Dnode(obj) /\ tables /\ Objects[obj].bonus = "sa" THEN Objects[obj].xattrs ELSE <<>>
StreamSize(obj) ==
  [i \in 0 .. Len(Xattrs(obj)) |-> IF i = 0 THEN SizeOf(obj) ELSE Len(Xattrs(obj)[i])]

\* read_at: at most n bytes from off.
Bytes(obj, i) ==
  IF i = 0 THEN Content(obj) ELSE IF i <= Len(Xattrs(obj)) THEN Xattrs(obj)[i] ELSE Failure

\* Mutant: a piece taken from the start whatever the offset, until all was read.
ReadAtStart(obj, i, off, n) ==
  IF Bytes(obj, i) = Failure THEN Failure
  ELSE IF off >= Len(Bytes(obj, i)) THEN <<>> ELSE Shorter(Bytes(obj, i), n)

ReadAt(obj, i, off, n) ==
  IF Bytes(obj, i) = Failure THEN Failure
  ELSE IF off > Len(Bytes(obj, i)) THEN <<>>
  ELSE Shorter(SubSeq(Bytes(obj, i), off + 1, Len(Bytes(obj, i))), n)

\* read_link: what is not a symlink has an empty target.
ReadLink(obj, cap) ==
  IF ~(HasAttrs(obj) /\ Objects[obj].kind = "symlink") THEN <<>>
  ELSE IF Content(obj) = Failure THEN Failure ELSE Shorter(Content(obj), cap)

(***************************************************************************)
(* The client.                                                             *)
(***************************************************************************)
Mounted == phase = "mounted"

Step ==
  /\ Mounted /\ Len(path) < MaxPath /\ node # Absent /\ stream = NoStream
  /\ \E name \in Names : path' = Append(path, name) /\ node' = Lookup(node, name)
  /\ UNCHANGED <<source, image, phase, mount, stream, got, ended>>

OpenStream ==
  /\ Mounted /\ node # Absent /\ stream = NoStream
  /\ \E i \in 0 .. 2 : stream' = i
  /\ UNCHANGED <<source, image, phase, mount, path, node, got, ended>>

Read ==
  /\ Mounted /\ stream # NoStream /\ ~ended
  /\ \E n \in Pieces :
       LET bytes == ReadAt(node, stream, Len(got), n) IN
       /\ got' = IF bytes = Failure THEN got ELSE got \o bytes
       /\ ended' = (bytes \in {Failure, <<>>})
  /\ UNCHANGED <<source, image, phase, mount, path, node, stream>>

Rest == (phase = "failed" \/ ended \/ (Mounted /\ node = Absent)) /\ UNCHANGED vars

Next ==
  \/ Fill \/ FillFails \/ Filled \/ FindUberblock \/ ReadMos \/ ParseMos
  \/ ResolveZpl \/ CheckType \/ FindRoot \/ Mount \/ Step \/ OpenStream
  \/ Read \/ Rest

Spec == Init /\ [][Next]_vars /\ WF_vars(Next)

-----------------------------------------------------------------------------
(***************************************************************************)
(* Properties                                                              *)
(***************************************************************************)
TypeOK ==
  /\ source \in Sources
  /\ phase \in {"reading", "uberblock", "mos_block", "mos", "chain", "type", "root", "tables",
                "mounted", "failed"}
  /\ tables \in BOOLEAN /\ poolName \in BOOLEAN /\ recordSize \in Nat
  /\ path \in Seq(Names) /\ Len(path) <= MaxPath
  /\ node \in {Absent} \cup 0 .. IdBits - 1
  /\ stream \in -1 .. 2 /\ ended \in BOOLEAN

\* The hops open depends on, as the image has them, and the stage each names.
Made == << HasUberblock, Present(Cell("mos")) \/ Present(Cell("short_mos")),
           Present(Cell("mos")), Chain, Present(Cell("zpl")), Present(Cell("master")) >>
Stages == << "uberblock_ring", "MOS_block", "MOS_objset", "root_dataset_chain",
             "objset_type", "ROOT_entry" >>

Broken == {i \in DOMAIN Made : ~Made[i]}

\* open works on what the source gave and on nothing else, however it was cut
\* up on the way; it fails exactly if a hop of the chain is missing, naming
\* the first one: a wiped config, lost attribute tables or a lost root
\* directory do not block it.
MountFollowsChain ==
  /\ IsPrefix(image, source)
  /\ phase = "mounted" => Broken = {}
  /\ phase = "failed" /\ stage # "io" =>
       Broken # {} /\ stage = Stages[Min(Broken)]

Honest(obj) == HasAttrs(obj) => Objects[obj].size <= Len(Objects[obj].blocks)

\* Reading a stream piece by piece gives what it holds, in order and once,
\* and as many bytes as data_streams lists for it, unless the bonus does not
\* decode; of the data of a path it gives what zpl_read_path and read_link
\* give at once.
ReadsReassemble ==
  /\ stream # NoStream /\ got # <<>> => IsPrefix(got, Bytes(node, stream))
  /\ ended /\ Bytes(node, stream) # Failure =>
       /\ got = Bytes(node, stream)
       /\ Honest(node) /\ HasAttrs(node) => Len(got) = StreamSize(node)[stream]
       /\ stream = 0 /\ ReadPath(path) # Failure => ReadPath(path) = got
       /\ stream = 0 => \A n \in Pieces : ReadLink(node, n) \in {<<>>, Shorter(got, n)}

\* The steps of a client through FileSystem::lookup and the one call of
\* zpl_lookup lead to the same object, also where a directory holds a name
\* twice; zpl_lookup has no answer only where the object cannot be described.
PathsAgree ==
  phase = "mounted" =>
    /\ ZplLookup(path) # Absent => ZplLookup(path) = node
    /\ node # Absent /\ tables /\ HasAttrs(node) => ZplLookup(path) = node
=============================================================================
