# A TLA+ model of zfs-forensic

zfs-forensic reads a ZFS vdev image that nobody vouches for. It has two crates:

- `zfs-core` (`src/core`): labels, uberblocks, block pointers, dnodes, indirect
  trees, ZAP, SA, nvlists, the ZPL on top of them, and a read-only VFS mount;
- `zfs-forensic` (`src/forensic`): an image audit (F-INTEGRITY) and the recovery of
  deleted files from the snapshot chain (F-CARVE).

Everything runs in one thread, keeps nothing on disk and writes nothing. What is hard
is not concurrency. It is that every link followed (snapshot to snapshot, indirect
block to block, chunk to chunk) may be missing, may lead back, or may lie; that
each of several steps may fail on its own, and what is left must still be true;
and that several readers of the same structure choose by different rules.

Everything the image can hold is chosen in the initial state, and one step is one
iteration or one early return of the code's loops. A model is therefore a family of
terminating executions, one for each small image.

## 1. Inventory

| Part | State and operations | Talks to | What makes it correct |
|---|---|---|---|
| Vdev label (`label.rs`, `uberblock.rs`) | no state; `label_offsets`, `VdevLabel::parse`, the ring scan `active_uberblock` | nvlist; used by the audit, the carver (L0) and the mount (all four) | the newest uberblock of the ring is chosen whatever the order of the slots, and the two callers' rules relate |
| Uberblock choice of the mount (`vfs.rs:173`) | best so far | labels | never older than what the auditor sees |
| Block pointer, block I/O (`blkptr.rs`, `read.rs`, `checksum.rs`, `compress.rs`) | no state; `Blkptr::parse`, DVA to byte offset, `read_block` over ditto copies | every reader above it | the first usable copy; no copy outside the image (an offset beyond the address space breaks this, see the divergences) |
| Dnode and indirect tree (`dnode.rs`, `read.rs`) | no state; `read_dnode_data`, `mos_dnode` | block I/O; ZAP, ZPL, DSL | block *n* of the object is the *n*th leaf; slot *o* of the meta-dnode is object *o* |
| File content (`zpl.rs`), ZAP object (`zap.rs:92`) | the bytes so far | indirect tree | all of the object in order, or an error |
| ZAP (`zap.rs`) | the entries so far; `zap_list`, `zap_list_arrays`, `zap_lookup` | directories, DSL, SA | every entry once; no chain can hang or starve the listing |
| Byte runs (`vfs.rs:409`) | the current level | indirect tree (breadth first) | the runs of the leaves, in order, within `MAX_RUNS` |
| DSL (`dsl.rs`) | no state; root dataset, previous snapshot | ZAP, indirect tree | fields at their offsets; misses are `None` |
| Deleted-file recovery (`forensic/lib.rs:557`) | visited snapshots, recovered files, step budget | DSL, ZPL | a live name is never reported; nothing recoverable is lost to a failure elsewhere; newest first; ends |
| Image audit (`forensic/lib.rs:240`) | the anomalies so far | labels, block I/O | the three checks do not silence one another; an intact slice is not evidence |
| nvlist (`nvlist.rs`) | cursor, nesting depth, pairs so far; `parse`, `get_*`, `VdevTree` | labels, xattrs, the mount's probe | what was packed comes back; of a cut stream the whole pairs; damage stays in its pair |
| SA and znode attributes (`sa.rs`) | cursor in the bonus, variable lengths used; `decode_sa_bonus`, `sa_attr_bytes`, `decode_znode_phys` | ZAP (registry, layouts) | the bytes of one attribute are never taken for another's |
| Extended attributes (`xattr.rs`) | no state; `list_xattrs`, `has_unread_spill_xattrs` | SA, nvlist, directories | all or flagged: "none" is a claim about the evidence |
| VFS mount (`vfs.rs`) | the image buffer, root, registry, layouts, pool name | everything | fails at the first missing hop and at no other loss; `lookup`, `read_at`, `read_link` and the ZPL's own path functions agree on an object |
| Codecs and checksums (`compress.rs`, `checksum.rs`) | positions in input and output | block I/O | what was written comes back, never more than `lsize`; damage is seen |

Hard behaviours, with the lines they bite at, are the `hazards` of `PROJECT.json`.

## 2. Modules

A name in the models is the code's name wherever there is one. A reader of a module
should have the lines named in `PROJECT.json` `map` open.

**RecoverDeleted** (`recover_deleted`, `recover_from_snapshot`). The image is a record:
whether each bootstrap lookup succeeds, the live listing, the chain as a function
from snapshot object to its previous one (which may be itself, the head, or nothing),
each snapshot's listing (a sequence: a fat-ZAP directory may repeat a name) and
which objects' content can be read. One action per exit and per iteration of
the two nested loops. Reading is a yes/no here; FileContent says what it means.

**SnapshotDiff** is the abstract specification: it takes whole snapshots, in chain
order, and adds the names not live and not reported, in one step each. RecoverDeleted
implements it (`ImplementsDiff`), with the loop over a snapshot's entries as stutter
until it leaves the snapshot; the mapping (`Absorbed`, `Diff`) stands at the end of
RecoverDeleted.

**UberblockScan** (`VdevLabel::parse`, `active_uberblock`,
`active_uberblock_across_labels`). Two scans of the same rings: the auditor's, of L0,
at the granularity of the vdev's ashift, and the mount's, of the four labels
at 1 KiB. An uberblock is its txg and whether it is whole.

**BlockPointer** holds what a pointer is and what checksum and codec promise;
**BlockRead** composes the two loops over its copies in the order `audit_image` runs
them, so that the properties can compare them.

**DnodeTree** is a dnode and the blocks under it, with the pointers of each level left to
right as reference (`Layer`). It is built on **Lists**, which holds `Those`, the filter of a
list by a set, the code's `filter` and `retain`. A pointer is a hole or says where its block is; a block's bytes can be
read as units (of a set `Unit`, one of which is `Zero`) and as pointers. **FileContent** walks it by shift and mask, one block id at a time
(`read_dnode_data` under `zpl_read_file_with`, `read_zap_object`, `mos_dnode`);
**Extents** walks it breadth first (`l0_blkptrs`). The models assume one byte
order in the pool: `l0_blkptrs` decodes children in the order of their parent pointer,
`read_dnode_data` in that of the dnode. `mos_dnode` reads block `obj / (bs / 512)`
and slices one slot of it; the request record says which of the two is modelled.

**Zap** (`zap_list`, `zap_list_arrays`): dispatch, micro slots, the probe for the leaf
block size, leaves, entries, and the two chunk chains of an entry. A block decodes to
a sequence of chunks that depends on the inferred block size. The reference follows a chain
by its paths (`Paths`: each element names the next, none twice), with no bound on steps.

**AuditImage** (`audit_image`): parse L0, judge the root pointer, compare labels
behind the L3 gate, sweep the MOS meta-dnode's pointers. Verdicts come from
BlockRead's `blkptr_checksum_verdict` and are inputs here.

**NvList** (`parse`, `parse_body`, `read_xdr_string`, the getters, `VdevTree`,
`is_pool_config`). A stream is a sequence of XDR words, and offsets and lengths count
words. The activations of the recursive `parse_body` are a stack of frames; a pair that
is a list pushes one, its end pops it and goes on where the *outer* pair's declared size
says. A read outside the buffer gives 0, as `be_u32` does. A stream comes with what was
written (`words`) and with its layout (`lists`): for each list where its pairs begin, what
they are, what a decoder keeps of them up to each, and whether it is within the caps. A list
may exceed any cap. `Written` says that the layout is that of the words; what is decoded
(`data`) is the words cut somewhere or with one overwritten.

**SystemAttrs** (`zpl_attrs`, `decode_sa_bonus`, `decode_znode_phys`, then
`list_xattrs` through `sa_attr_bytes`, `has_unread_spill_xattrs`). A bonus is bytes. The
three walks over one layout follow one another with their own cursor; the two tables
are given as the ZAP entries they are parsed from. What the nvlist decoder makes of
`ZPL_DXATTR` is an input (the pairs packed, or anything from other bytes). An object comes
with its undamaged bonus (`full`) and where its attributes begin in it (`at`).
`ObjectWritten` says that the two fit: the attributes are one after the other, those of
variable length have their lengths in the header. Its bonus is the whole one or a front
of it; only an object with a lying length or an unregistered id escapes the second half.
No layout is numbered 0, as in a pool, where numbers start at 2: the code reads
a number it cannot read as 0.

**VfsMount** (`read_all`, `ZfsFs::open` and the `FileSystem` operations, with
`zpl_lookup`, `zpl_read_path` and `list_xattrs` beside them). A source is a sequence of
cells, each the bytes of one hop of the bootstrap chain or lost; it yields them in
pieces, stops short or fails. Then a client steps down a path and reads a stream of
what it reached, piece by piece. Two labels stand for four, since UberblockScan
has the choice between them.

**Codec** (`verify`, `decompress`). LZJB and ZLE are stepped item by item over bytes, and an
LZJB match byte by byte, since it may overlap what it makes; LZ4, DEFLATE and zstd are
other crates, modelled by what they yield of the stream
they were given, of a cut one and of any other. A block comes with its whole stream, with
where each item begins in the stream (`at`) and in the data (`from`), and with the copymap
each item is flagged in (`map`); `BlockWritten` says that these fit. A checksum word is a
byte and a sum is `SumWidth` bits wide.

The theorems stand beside the models, in **RecoverDeletedProofs**, **AuditImageProofs** (also
those of BlockRead), **VfsMountProofs** (also those of UberblockScan), **FileContentProofs**,
**ExtentsProofs**, **ZapProofs** and **DecoderProofs** (NvList, SystemAttrs and Codec).
**DnodeTreeProofs** is the library of FileContentProofs, ExtentsProofs and ZapProofs: powers
and division, sequences put together, filtered and flattened, and the layers of a tree.

`MC*` modules give the families of images; the `.cfg` files the constants.

### Fairness

`Spec` is `Init /\ [][Next]_vars /\ WF_vars(Next)` throughout. One thread
executes straight-line loops, with no lock, channel or I/O wait between two steps: a
step that can be taken is taken. Nothing stronger is assumed. Each model
has a `Returned` disjunct that stutters, so that the end of the call is not a
deadlock and TLC's deadlock check finds a state the code has no branch for. Fairness
is used where a bound on the loop is the question: `ImplementsDiff` carries the fairness of
SnapshotDiff, so that a walk that never leaves a snapshot or the chain refutes it,
and `Terminates` of Extents, where only a count of levels ends a walk through blocks
that lead back to themselves. In the other models each step moves a cursor that
the type invariant bounds, and no separate liveness property is stated. In VfsMount
the same formula also moves the client; nothing checked there depends on it.

## 3. Runs

| Run | Asks | Bounds and why they are enough |
|---|---|---|
| `recover` | what is reported, what is not, that the walk ends and implements the diff | `ChainImages`: three snapshot objects with arbitrary pointers (cycles, self-loops, dangling) against a budget of two, so that chains shorter than, equal to and longer than the budget occur. `ListingImages`: two snapshots with up to two entries, repeated names included, two names, three file objects. The interactions of the properties are between one failure and one newer and one older copy of a name |
| `uberblock` | which uberblock each scan starts from | rings of two units, slots of one unit or two, two txgs (ties and both orders), labels cut short or off. L0 and L1 hold anything, L2 and L3 the same of two contents: the fold over labels is uniform, and two labels that differ show it |
| `block` | what the reader and the auditor use, and how they relate | all placements of up to three copies (unused, in the image, beyond it, beyond the address space) in all images of up to three sectors of three contents, all checksum kinds, four codecs |
| `content` | does shift-and-mask reach the leaves, in order, and nothing else | up to three levels, a recorded fan-out of 1, 2 or 4 over blocks of two pointers, up to three top pointers, holes of two sizes at every level, an unreadable block, `nlevels` 0 to 4, sizes and object ids at block edges |
| `content_placed` | "leaf block n sits at n * block_size" (zap.rs:30) | **violated**: a hole has its own length |
| `zap` | is every entry listed, whatever the chains are | every chain over three and five chunks, up to four blocks of one or two units |
| `extents` | are the runs the leaves' runs, in order, to the bound | up to three levels, holes, inline, ditto-only, unreadable and self-referencing pointers, a bound that strikes at each level |
| `audit` | do the checks report exactly the damage in their part, and nothing of an intact slice | every combination of seven label states on four labels, and every verdict on up to two pointers |
| `nvlist` | does the decoder give what was packed, and what of a cut or damaged stream | lists of up to four pairs (the pair cap) of integers, strings, byte arrays, skipped types and lists, nested to the depth cap of two and past it; names and strings up to and past the length cap; whole, cut at every word, every word overwritten |
| `attrs` | are attributes ever confused, and are all extended attributes given or flagged | six layouts of up to five attributes, two of variable length in every order that matters, one unregistered; packed list, directory, both, neither, spill; bonus cut at every byte, a short lengths array, a wrong length |
| `mount` | where does opening fail, do the piecewise and the whole read agree, do both resolvers agree | one cell per hop; none lost, any one, both front labels, or these and any one; every short read; paths of up to three names through a directory that holds one twice, with a dangling entry and one whose type code is not its object's; pieces that divide the content and pieces that do not |
| `codec` | does every codec give back what was written, and is damage seen | LZJB lists of one to four items of five kinds and nine to eleven of them (a second copymap), ZLE runs of 1, 64 and 70, the other codecs framed and padded; read at full length and one less; cut at every byte, two words exchanged, any of the first twelve overwritten. Ten-bit sums wrap within these blocks |

The loops are uniform in their iterations, and every run is large enough for a first, a
further and a last iteration of each loop, and for the loop to end at its bound as well
as before it. Each property has a mutant in `PROJECT.json`: a
plausible mistake in one definition, defined beside it, under which the same run
finds the property violated.

### Findings and known divergences

`content_placed` (bug, `expect: violation`): after a hole whose LSIZE is not the data
block size, file and ZAP content is at the wrong offset. `StoredDataInOrder` shows what
still holds: the stored data comes back in order, only not in place.

Met while modelling, each visible in the model of the lines named, without a run of its own:

- `recover_deleted` treats a live root it cannot read as empty (lib.rs:586, 631-639):
  every file of every snapshot is reported. lib.rs:18 says "a file present in the
  snapshot but absent live was deleted". `LiveNeverReported` covers readable roots only.
- A torn uberblock with its magic intact is selected (label.rs:147); docs/RESEARCH.md:62
  says "highest `ub_txg` with valid checksum".
- A DVA offset beyond the address space wraps into the image: the shift (blkptr.rs:86) drops
  the top bits before the saturating addition, and bytes of the image are judged and read
  for a copy that is in no image. Decision 0006, lines 52-54, says it "saturates rather than
  wrapping to a valid-looking small offset". `PhysicalByteOffset` models the wrap, and the
  images of `block` contain it; `ReadsFirstUsable` places copies without it (`Stored`) and
  is stated of pointers none of whose offsets wraps into the image (`Wraps`).
- `sweep_reachable_blkptrs` reports the offset of the first DVA in use (lib.rs:482-486), though
  `blkptr_checksum_verdict` judged the first one *inside the image* (lib.rs:345-350).
- A zeroed first copy is `Unreadable` though the second may be intact (lib.rs:352-359).
- The label check drops `txg`, which lib.rs:11 lists and lib.rs:393 excludes.
- `read_dnode_data` shifts by 64 or more for eight levels of wide indirect blocks, which
  panics in a checked build (`ShiftPanics` in FileContent).
- When block 1 of a fat ZAP is not a leaf, its block size is guessed too large.
- `nvlist::parse` returns what it has when the buffer ends after a pair, where its
  documentation lists `Truncated`; the pair that is cut is kept with zeros or an
  empty array for its value (nvlist.rs:223, 249-251). `CutKeepsPrefix` allows exactly that.
- `decode_sa_bonus` stops at the first attribute of variable length with the size still 0
  (sa.rs:276), and zpl.rs:163 then reads the file as empty.
- A large dnode is cut to 512 bytes (read.rs:235) and `Dnode::parse` then gives it an empty
  bonus if the bonus reaches further (dnode.rs:149).
- The SA header is read little-endian (sa.rs:236-239), like the DSL's object numbers
  (dsl.rs:56, 69), whatever the order of the pool; the values behind it are not.
- `list_xattrs` does not look into the attribute directory when the packed list has an
  entry; `data_streams` may list a size its `read_at` does not give when SIZE does not decode.
- `decompress` promises an error when the output does not reach `lsize` (compress.rs:100),
  but gzip and zstd pad with zeros and LZ4 may return less. `DataComesBack` says what is left.
- ZLE's literal and zero runs split at 0x80 (compress.rs:267); OpenZFS at its level, 64.
- `read_dir` takes an entry's kind from the top four bits of the entry (vfs.rs:396-401), `meta`
  from the mode of the object (vfs.rs:577-582). Nothing compares them: an image can make a
  file a symlink in its directory. The directories of VfsMount may do so; `PathsAgree` is
  about which object is reached.
- A timestamp before 1970 is read as unsigned (vfs.rs:228).

## 4. What is proved

TLAPS checks these for every value of the constants (any image, any budget, any set of
names), where the runs check them for small ones.

`RecoverDeletedProofs`: `TypeCorrect`, `LiveSafe`, `NoDuplicateReport`,
`WalkIsExhaustive`, `NothingIsMissed`, `NewestWins`. None of the properties is
inductive alone. `Control` ties the program counter to the loop's variables: the live
set is that of the head, the budget left and the snapshots seen add up to the budget,
each of them was readable, and the snapshot under the cursor is the chain's next
(between snapshots) or the last one seen (inside one). On it rests `NothingMissed` (every readable entry
passed is live or reported), and from that follows `NewestReadableWins`: a file
reported from an older snapshot cannot have had a readable newer state, because the
walk passed that one first and would have reported it.

`AuditImageProofs`, of the two readings of a block: `BlockReadTypes`, `FirstUsableIsRead`, `AuditAgreesWithRead`,
`TruncationIsSilent`. The strengthening is `Passed`: the copies behind the running
loop's cursor are unusable *by that loop's rule*. The agreement follows because the
auditor's rule (in the image) is weaker than the reader's (in the image and
decompresses), so the reader cannot stop earlier. The invariant speaks of the place a copy is
read at (`CopyReads`); that this is where the copy is, if its offset does not wrap, is
`PlaceRead`, and from it follows `FirstUsableIsRead`, of pointers none of whose offsets wraps
into the image.

`RecoverDeletedProofs` also has `LoopsImplementDiff`: every execution of the loops is one
of SnapshotDiff's initial state and steps. Leaving a snapshot maps to absorbing it, every
other step to a stutter. What the loop carved out of the snapshot it leaves is what the diff
finds there in one step (`DiffOfSnapshot`), which takes all the invariants above together.

`AuditImageProofs`, of the audit itself: `AuditTypes`, `IntactSliceIsSilent` and `EachCheckReportsItsDamage`. The
strengthening for the first two is `Gate`: while labels are compared the L3 gate was passed
and the label is not L0, and while pointers are swept there is a MOS. Past the gate L3
parses, so an intact slice is a whole intact vdev, whose labels agree
(`IntactLabelsAgree`). For the third it is `Progress`: what is reported, as a set, is the
damage of the parts behind the cursor, and nothing is reported twice (`NoneTwice`), from
which the counts follow.

`VfsMountProofs`, of the choice of the uberblock: `ScanTypes`, `ParseIsNewest`, `MountIsNewest`, for rings of any size,
any stride and any cut of the labels. `BestOf` says that the inner loop's best is the newest
of the slots passed, the first on a tie, and `BestOfLabels` the same of the outer loop and
the labels passed. Both loops replace only by a strictly higher txg, so "the first" of a tie
is part of both.

`VfsMountProofs`, of the mount: `MountTypes`, `OpenFollowsChain`, `PiecesAreTheStream`, `StepsAreTheWalk`.
The invariant has a conjunct per stage: the buffer is a front of the source, every hop
before the current stage was made (`HopsMade`), a failed mount names the first that was not
(`FirstHopNamed`), the client's node is where `ZplWalk` is after as many names
(`NodeIsWalked`), and what it read is a front of the stream (`PiecesAreFront`). That the two
resolvers agree is an induction along the path; nothing is assumed of what directories hold
but pairs of a name and a number.

`FileContentProofs`: `ContentTypes`, `SlotsAreRight`, `ContentIsWhole`,
`StoredDataIsInOrder`. `OnPath` is the heart: *k* levels below the dnode, the pointer held is
element `blkid >> (levels below) * shift` of `Layer[k]`, or a hole the reader made up where
that element is one. Its step is that the child at the masked index of a
pointer is the next layer's pointer at the shifted index. On it rest `SlotInv`, `ReadSoFar`
(the content so far is that of the leaves before `blkid`) and `StoredSoFar` (the same of
what is left without the zero units, which no hole can disturb).

`ExtentsProofs`: `RunsTypes` (`TypeOK` is inductive as it stands) and `RunsAreInOrder`.
`DownInv` says that the level is a front of the pointers at that depth that exist, all of
them as long as no level overflows, and that the next level is a front of what the pointers
passed give. What holes and unreadable blocks stand for in the reference disappears when
filtered (`NothingBelow`), so filtering before descending loses nothing (`RowBelow`).

`ZapProofs`: `ListTypes`, `ChainsAreCapped`, `EveryEntryIsListed`. The chain's bound alone is
inductive with the types. The listing needs `Chained` (the walk stands on the path of the
chain it follows, with the bytes of the elements passed in hand, and has the name before it
follows the value) and `Progress`, one for each block size: the
probe has not passed the size the object was written with, and what is listed is what the
leaves behind the cursor hold. Only the chains of names have to end: an entry whose value
loops, or shares chunks with another, spoils nothing but that value.

`DecoderProofs`, of nvlists: `DecoderTypes`, `WrittenIsReadBack`, `CutIsRead`,
`DamageIsContained`. The stream may be any, nested at will. `CutInv` carries a trail: each
activation on the stack stands at a pair of one of the written lists with exactly the
pairs before it in hand, and waits there for the one above it; only the innermost may have
left the path, and only in the one pair the end of the data runs through. From a whole
stream the trail leads to the whole list or to the first cap exceeded. `DamageInv` has four
phases: the decoder is before the damaged pair; it is ruined, as the damage is in
the pair's own size; it is inside; or it is beyond, on the undamaged path. In the third, what
is below the outermost activation does not matter, because a pair's end comes from its
declared size.

`DecoderProofs`, of attributes: `AttrTypes`, `MetadataIsTheObjects`, `XattrsAreWhole`. `MetaWalks`
says that the first walk stands where an attribute begins, having passed only registered ones
of fixed length, and that what it assigned is the object's. It uses no assumption on lengths,
so it covers lying headers. `Searching` is the same of a search, which also passes those of
variable length: its place in the array of lengths is the number of those it passed, and
none passed is the wanted one.

`DecoderProofs`, of codecs: `CodecTypes`, `BlocksComeBack`. The types include that the output never
exceeds `lsize` and that the match pointer stays inside the output, for any bytes at all. For
the second, `Following` says of a stream that is whole or cut: the output is a front of the data
(`AsWritten`), and the decoder stands where an item begins, or in a match whose remaining
bytes each repeat the written one (`ItemPlace`), or where a run begins (`RunPlace`). That
a match may overlap what it makes is harmless because the front it copies from is
already right. For the other crates it is enough that two fronts of one sequence, one as long
as asked for, agree (`FrontsMeet`).

The recursive functions in these statements (`Layer`, `Those`, `ZplWalk`, flattening) are
reasoned about by their defining equation at the next argument, and a fact about all arguments
by the least argument that would refute it. Where a reference would be an encoder (nvlists,
attributes, codecs), the input carries its own layout, and a named assumption says place by
place that the layout is that of the bytes. So the theorems cover every stream any encoder
could have written in the format, not only those of one encoder.

The assumptions are the named `ASSUME`s: the types of the inputs, that bounds are positive,
that marker values are not data, and that layouts fit their bytes (`StreamsAssumption`,
`ObjectsAssumption` of SystemAttrs, `BlocksAssumption`). TLC evaluates each on its module's
run, so every stream, object and block of the runs satisfies them.

Only model-checked:

- liveness, which TLAPS cannot conclude from fairness: the fairness half of
  `ImplementsDiff`, and `Terminates` of Extents;
- `DamageIsSeen`. A fletcher sum is a fold over the words, and what it is for every block is an
  induction over data, for which the provers have no rule. The statement also depends on
  sizes: that a fletcher sum sees two exchanged words is true of blocks short enough that
  the difference of their weights does not vanish modulo `2^SumWidth`;
- `ContentIsPlaced`, which does not hold.

## 5. Not modelled

- **The crates** behind LZ4, DEFLATE, zstd and SHA-256: external, by what they promise.
- **Byte layouts** other than the SA bonus, the nvlist and the codecs: decoded fields are
  inputs. Objset, DMU tables and byte readers have no decisions beyond a length
  check.
- **Byte order**: one order in the pool is assumed (see the divergences).
- **`audit_findings`, `Display`, hashing of recovered files, error texts**: rendering.
- **Sizes in RAM**: `Vec::with_capacity` hints.
- **Timestamps, permission bits, kinds and names' encoding** in `meta` and `read_dir`: values
  passed through. A kind decides only whether `read_link` gives a target.
- **A last word cut in part** of an nvlist: cuts are between XDR words, so the test for a
  buffer of fewer than four bytes (nvlist.rs:168) is that for an empty one.
- **Tests, fuzz targets and corpora**: read as documentation.

## 6. Plan

Done, in the order of importance: recovery with its abstract specification, uberblock choice,
block reading, content, audit, extents, mount, ZAP, nvlist, attributes and codecs, each
with its proofs.

Next: a composition of the mount and the carver over one image. What the mount shows is
not reported deleted when L0 holds the newest uberblock.
