---------------------------- MODULE SystemAttrs ----------------------------
(***************************************************************************)
(* What is read from the bonus buffer of one object: its metadata          *)
(* (zpl_attrs, with decode_sa_bonus and decode_znode_phys) and then its    *)
(* extended attributes (list_xattrs: the packed list of ZPL_DXATTR, else   *)
(* the hidden directory of ZPL_XATTR, both found by sa_attr_bytes).        *)
(*                                                                         *)
(* Attributes are packed in the order of a layout, without their names or  *)
(* lengths: lengths come from the registry, and those of variable-length   *)
(* attributes from an array in the header.  The bonus is bytes.            *)
(***************************************************************************)
EXTENDS Integers, Sequences, FiniteSets, SequencesExt

CONSTANTS
  Objects,    \* the objects, with the tables that describe them
  Scalars,    \* the known attributes of eight bytes, in the order of assign_known
  Times,      \* the known attributes of sixteen bytes, likewise
  DXATTR, XATTR,        \* the registered names ZPL_DXATTR and ZPL_XATTR
  ZnodeAt,    \* the offset of each known attribute znode_phys_t has
  ZnodeSize   \* ZNODE_PHYS_SIZE

VARIABLES
  object,     \* the object
  walk,       \* the walk of the layout in progress, or "returned"
  pos,        \* the position in the layout
  off,        \* the offset in the bonus
  nvar,       \* the variable-length attributes passed
  meta,       \* what zpl_attrs returned or has decoded so far
  unknown,    \* its unknown_attr_ids
  xattrs,     \* what list_xattrs returned
  source      \* which of the two ways it is stored gave it

attrVars == <<object, walk, pos, off, nvar, meta, unknown, xattrs, source>>

None == <<>>
Known == Scalars \o Times
Unset == [n \in Range(Known) |-> <<>>]
Width(n) == IF n \in Range(Scalars) THEN 8 ELSE 16

\* A little-endian u16; 0 outside the buffer.  Offsets are from 0.
LE16(bytes, at) == IF at + 2 > Len(bytes) THEN 0 ELSE bytes[at + 1] + 256 * bytes[at + 2]

\* The header: 0x2F505A, little-endian, then the layout's number and the
\* header's size in one word.
Magic == <<90, 80, 47, 0>>
IsSa(bonus) == Len(bonus) >= 4 /\ SubSeq(bonus, 1, 4) = Magic
Info(bonus) == LE16(bonus, 4)
LayoutNum(bonus) == Info(bonus) % 1024
HdrSize(bonus) == ((Info(bonus) \div 1024) % 64) * 8

(***************************************************************************)
(* The tables.  A registry value packs the length, the byteswap class and  *)
(* the id of an attribute.  The first entry of a name, of an id and of a   *)
(* layout number is the one that counts.                                   *)
(***************************************************************************)
Least(S) == CHOOSE i \in S : \A j \in S : i <= j

IdAt(x, i) == x.registry[i][2] % 65536
SizeAt(x, i) == (x.registry[i][2] \div 16777216) % 65536

IdOf(x, name) ==
  LET found == {i \in DOMAIN x.registry : x.registry[i][1] = name}
  IN  IF found = {} THEN -1 ELSE IdAt(x, Least(found))

SizeOf(x, id) ==
  LET found == {i \in DOMAIN x.registry : IdAt(x, i) = id}
  IN  IF found = {} THEN -1 ELSE SizeAt(x, Least(found))

\* A layout is an array of big-endian ids; an odd byte at its end is dropped.
Layouts(x, bonus) == {i \in DOMAIN x.layouts : x.layouts[i][1] = LayoutNum(bonus)}
Ids(x, bonus) ==
  LET bytes == x.layouts[Least(Layouts(x, bonus))][2]
  IN  [i \in 1 .. Len(bytes) \div 2 |-> 256 * bytes[2 * i - 1] + bytes[2 * i]]

Walkable(x, bonus) == IsSa(bonus) /\ Layouts(x, bonus) # {}

Bonus == object.bonus

AttrInit ==
  /\ object \in Objects
  /\ walk = "meta"
  /\ pos = 1 /\ off = HdrSize(Bonus) /\ nvar = 0
  /\ meta = None
  /\ unknown = <<>>
  /\ xattrs = <<>> /\ source = "none"

\* Mutant: the count of variable-length attributes kept from the walk before.
RestartKeepingCount(next) ==
  /\ walk' = next
  /\ pos' = 1 /\ off' = HdrSize(Bonus)
  /\ UNCHANGED <<object, nvar>>

\* On to another walk of the layout.
Restart(next) ==
  /\ walk' = next
  /\ pos' = 1 /\ off' = HdrSize(Bonus) /\ nvar' = 0
  /\ UNCHANGED object

(***************************************************************************)
(* zpl_attrs.                                                              *)
(***************************************************************************)
\* The fields of znode_phys_t, by offset; the ones it has not stay unset.
Znode ==
  [n \in Range(Known) |->
     IF n \in DOMAIN ZnodeAt THEN SubSeq(Bonus, ZnodeAt[n] + 1, ZnodeAt[n] + Width(n)) ELSE <<>>]

MetaOfZnode ==
  /\ walk = "meta" /\ object.bonustype = "znode"
  /\ meta' = IF Len(Bonus) < ZnodeSize THEN None ELSE Znode
  /\ Restart("dxattr")
  /\ UNCHANGED <<unknown, xattrs, source>>

MetaOfNothing ==
  /\ walk = "meta"
  /\ object.bonustype = "other" \/ (object.bonustype = "sa" /\ ~Walkable(object, Bonus))
  /\ Restart("dxattr")
  /\ UNCHANGED <<meta, unknown, xattrs, source>>

InMeta == walk = "meta" /\ object.bonustype = "sa" /\ Walkable(object, Bonus)

\* The attribute the walk has come to, and its registered size.
More == pos <= Len(Ids(object, Bonus))
Id == Ids(object, Bonus)[pos]
Size == SizeOf(object, Id)

\* Mutant: a variable-length attribute stepped over as if it had no bytes.
MetaFitsVariable == More /\ Size >= 0 /\ off + Size <= Len(Bonus)

\* An unregistered id, a variable length or an attribute that does not fit
\* ends the walk, which returns what it has.
MetaFits == More /\ Size > 0 /\ off + Size <= Len(Bonus)

SoFar == IF meta = None THEN Unset ELSE meta

\* assign_known.
Holders(id, size) == {i \in DOMAIN Known : IdOf(object, Known[i]) = id /\ size >= Width(Known[i])}

Assign(attrs, id, size) ==
  IF Holders(id, size) = {} THEN attrs
  ELSE LET n == Known[Least(Holders(id, size))]
       IN [attrs EXCEPT ![n] = SubSeq(Bonus, off + 1, off + Width(n))]

MetaTake ==
  /\ InMeta /\ MetaFits
  /\ meta' = Assign(SoFar, Id, Size)
  /\ pos' = pos + 1 /\ off' = off + Size
  /\ UNCHANGED <<object, walk, nvar, unknown, xattrs, source>>

MetaEnds ==
  /\ InMeta /\ ~MetaFits
  /\ meta' = SoFar
  /\ unknown' = IF More /\ Size = -1 THEN <<Id>> ELSE <<>>
  /\ Restart("dxattr")
  /\ UNCHANGED <<xattrs, source>>

(***************************************************************************)
(* sa_attr_bytes, for the two attributes list_xattrs asks for.             *)
(***************************************************************************)
Finding == walk \in {"dxattr", "xattr"}
Want == IF walk = "dxattr" THEN IdOf(object, DXATTR) ELSE IdOf(object, XATTR)

\* Mutant: the lengths array indexed by the position in the layout.
LengthAtByPosition == 6 + 2 * (pos - 1)

LengthAt == 6 + 2 * nvar
Length == IF Size = 0 THEN LE16(Bonus, LengthAt) ELSE Size

\* The walk can tell the length of the attribute it has come to.
Measurable ==
  /\ Walkable(object, Bonus) /\ Want # -1 /\ More /\ Size # -1
  /\ Size = 0 => LengthAt + 2 <= HdrSize(Bonus) /\ LengthAt + 2 <= Len(Bonus)

AtWanted == Finding /\ Measurable /\ Id = Want
ValueFits == off + Length <= Len(Bonus)
Value == SubSeq(Bonus, off + 1, off + Length)

FindPasses ==
  /\ Finding /\ Measurable /\ Id # Want
  /\ pos' = pos + 1 /\ off' = off + Length
  /\ nvar' = IF Size = 0 THEN nvar + 1 ELSE nvar
  /\ UNCHANGED <<object, walk, meta, unknown, xattrs, source>>

NextWalk == IF walk = "dxattr" THEN "xattr" ELSE "returned"

FindFails ==
  /\ Finding
  /\ ~Measurable \/ (AtWanted /\ ~ValueFits)
  /\ Restart(NextWalk)
  /\ UNCHANGED <<meta, unknown, xattrs, source>>

(***************************************************************************)
(* What the nvlist decoder makes of the value: the pairs that were packed, *)
(* or, of other bytes, nothing or anything.  Only byte arrays are          *)
(* attributes.                                                             *)
(***************************************************************************)
Unpacked(bytes) ==
  IF bytes = object.packed THEN {object.pairs} ELSE {<<>>, <<<<"junk", "bytes", <<0>>>>>>}

Attributes(pairs) ==
  LET arrays == SelectSeq(pairs, LAMBDA p : p[2] = "bytes")
  IN [i \in DOMAIN arrays |-> <<arrays[i][1], arrays[i][3]>>]

FindDxattr ==
  /\ AtWanted /\ walk = "dxattr" /\ ValueFits
  /\ \E pairs \in Unpacked(Value) : xattrs' = Attributes(pairs)
  /\ IF xattrs' = <<>> THEN Restart("xattr") /\ UNCHANGED source
                        ELSE Restart("returned") /\ source' = "sa"
  /\ UNCHANGED <<meta, unknown>>

\* xattr_dir_object: a value too short and 0 name no directory; an object is
\* named by its eight bytes.
Zero == <<0, 0, 0, 0, 0, 0, 0, 0>>
DirObject(value) == IF Len(value) < 8 THEN Zero ELSE SubSeq(value, 1, 8)

Entries(x, dir) == IF dir \in DOMAIN x.dirs THEN x.dirs[dir] ELSE <<>>

\* An entry whose file cannot be read is left out.
Readable(x, entries) ==
  LET files == SelectSeq(entries, LAMBDA e : e[2] \in DOMAIN x.files)
  IN [i \in DOMAIN files |-> <<files[i][1], x.files[files[i][2]]>>]

\* dir_xattrs, of the value that names the directory.
Listed(x, value) ==
  IF DirObject(value) = Zero THEN <<>> ELSE Readable(x, Entries(x, DirObject(value)))

FindXattr ==
  /\ AtWanted /\ walk = "xattr" /\ ValueFits
  /\ xattrs' = Listed(object, Value)
  /\ source' = "dir"
  /\ Restart("returned")
  /\ UNCHANGED <<meta, unknown>>

AttrReturned == walk = "returned" /\ UNCHANGED attrVars

AttrNext ==
  \/ MetaOfZnode \/ MetaOfNothing \/ MetaTake \/ MetaEnds \/ FindPasses
  \/ FindFails \/ FindDxattr \/ FindXattr \/ AttrReturned

AttrSpec == AttrInit /\ [][AttrNext]_attrVars /\ WF_attrVars(AttrNext)

\* has_unread_spill_xattrs.
HasUnreadSpill == object.spill /\ source # "sa"

(***************************************************************************)
(* The objects.  Each has the bonus that was written (full), where in it   *)
(* each attribute of its layout begins and the last one ends (at), and     *)
(* what was done to it since (harm): nothing, cut short, or "lies", a      *)
(* bonus whose lengths or whose layout are not those of its attributes of  *)
(* variable length.  It also has the value of each known attribute of its  *)
(* layout (written), the ones before the first of variable length          *)
(* (leading), the attributes its packed list and its directory hold (inSa, *)
(* inDir), and whether there are others in a spill block (inSpill).        *)
(***************************************************************************)
FullIds(x) == Ids(x, x.full)
Fixed(x, i) == SizeOf(x, FullIds(x)[i]) > 0
Variable(x, i) == SizeOf(x, FullIds(x)[i]) = 0
Registered(x, i) == SizeOf(x, FullIds(x)[i]) # -1

\* The tables: numbers, and no id with two known names.
TablesWritten(x) ==
  /\ x.registry \in Seq(STRING \X Nat)
  /\ \A n, m \in Range(Known) : IdOf(x, n) = IdOf(x, m) /\ IdOf(x, n) # -1 => n = m
  /\ x.layouts \in Seq((Nat \ {0}) \X Seq(0 .. 255))

\* The attributes, one right after the other from the end of the header.
PackedInOrder(x) ==
  LET n == Len(FullIds(x)) IN
  /\ x.at \in [1 .. n + 1 -> Nat] /\ x.at[1] = HdrSize(x.full)
  /\ \A i \in 1 .. n :
       /\ Fixed(x, i) => x.at[i + 1] = x.at[i] + SizeOf(x, FullIds(x)[i])
       /\ \A name \in Range(Known) :
            IdOf(x, name) = FullIds(x)[i] /\ Width(name) <= SizeOf(x, FullIds(x)[i]) =>
              x.written[name] = SubSeq(x.full, x.at[i] + 1, x.at[i] + Width(name))
  /\ x.leading \subseteq Range(Known)
  /\ \A name \in x.leading :
       \E i \in 1 .. n :
         /\ IdOf(x, name) = FullIds(x)[i] /\ Width(name) <= SizeOf(x, FullIds(x)[i])
         /\ \A j \in 1 .. i : Fixed(x, j)

\* The lengths of those of variable length, in their order, between the words
\* of the header.
VariableBefore(x, i) == {j \in 1 .. i - 1 : Variable(x, j)}

LengthsWritten(x) ==
  LET n == Len(FullIds(x)) IN
  /\ x.at[n + 1] <= Len(x.full)
  /\ \A i \in 1 .. n :
       /\ x.at[i] <= x.at[i + 1]
       /\ Variable(x, i) =>
            LET at == 6 + 2 * Cardinality(VariableBefore(x, i)) IN
            /\ at + 2 <= HdrSize(x.full) /\ HdrSize(x.full) <= Len(x.full)
            /\ LE16(x.full, at) = x.at[i + 1] - x.at[i]

\* What the attributes of a name hold, if the walk can get to one.
Reachable(x, name) ==
  {i \in 1 .. Len(FullIds(x)) : FullIds(x)[i] = IdOf(x, name) /\ \A j \in 1 .. i : Registered(x, j)}

XattrsWritten(x) ==
  LET value(i) == SubSeq(x.full, x.at[i] + 1, x.at[i + 1]) IN
  /\ IF Reachable(x, DXATTR) = {} THEN x.inSa = <<>>
     ELSE /\ x.inSa = Attributes(x.pairs)
          /\ \A i \in Reachable(x, DXATTR) : value(i) = x.packed
  /\ IF Reachable(x, XATTR) = {} THEN x.inDir = <<>>
     ELSE \A i \in Reachable(x, XATTR) : x.inDir = Listed(x, value(i))
  /\ x.inSpill => x.spill /\ x.inSa = <<>>

ObjectWritten(x) ==
  /\ x.full \in Seq(0 .. 255)
  /\ \E n \in 0 .. Len(x.full) : x.bonus = SubSeq(x.full, 1, n)
  /\ TablesWritten(x)
  /\ x.bonustype = "znode" =>
       \A n \in DOMAIN ZnodeAt \cap Range(Known) :
         x.written[n] = SubSeq(x.full, ZnodeAt[n] + 1, ZnodeAt[n] + Width(n))
  /\ x.bonustype = "sa" /\ Walkable(x, x.full) => PackedInOrder(x)
  /\ x.harm \in {"none", "cut"} =>
       /\ x.bonustype = "sa" /\ Walkable(x, x.full)
       /\ LengthsWritten(x) /\ XattrsWritten(x)
  /\ x.harm = "none" => x.bonus = x.full

ASSUME NamesAssumption == Scalars \in Seq(STRING) /\ Times \in Seq(STRING)

ASSUME ZnodeAssumption ==
  /\ ZnodeSize \in Nat
  /\ \A n \in DOMAIN ZnodeAt : ZnodeAt[n] \in Nat /\ ZnodeAt[n] + Width(n) <= ZnodeSize

ASSUME ObjectsAssumption == \A x \in Objects : ObjectWritten(x)

(***************************************************************************)
(* Properties.                                                             *)
(***************************************************************************)
AttrTypeOK ==
  /\ walk \in {"meta", "dxattr", "xattr", "returned"}
  /\ pos \in Nat \ {0} /\ nvar \in 0 .. pos - 1 /\ off >= HdrSize(Bonus)
  /\ walk = "meta" /\ pos > 1 => off <= Len(Bonus)
  /\ meta = None \/ \A n \in Range(Known) : Len(meta[n]) \in {0, Width(n)}
  /\ Len(unknown) <= 1

\* decode_sa_bonus never takes the bytes of one attribute for another's, also
\* from a bonus that is cut, whose lengths lie, or with an unregistered id in
\* its layout, and gives every attribute that stands before the first one of
\* variable length.
MetadataIsWritten ==
  meta # None =>
    /\ \A n \in Range(Known) : meta[n] \in {<<>>, object.written[n]}
    /\ walk # "meta" /\ object.harm = "none" => \A n \in object.leading : meta[n] = object.written[n]

\* list_xattrs gives every attribute of an undamaged object, with its value,
\* or the object is flagged as having some that were not read; from a bonus
\* that is cut it gives them whole or not at all, never in part.
XattrsAreWritten ==
  walk = "returned" =>
    /\ object.harm = "none" =>
         /\ xattrs = IF object.inSa # <<>> THEN object.inSa ELSE object.inDir
         /\ object.inSpill => HasUnreadSpill
    /\ object.harm = "cut" => xattrs \in {<<>>, object.inSa, object.inDir}
    /\ HasUnreadSpill => object.spill
=============================================================================
