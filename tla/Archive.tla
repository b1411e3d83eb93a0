------------------------------- MODULE Archive -------------------------------
(***************************************************************************)
(* The boot archive, read twice: tar_mount (kernel/tar.c) builds the       *)
(* kernel's tree of nodes (kernel/vfs.c) from it, and the console service  *)
(* walks the same bytes by itself (user/lib/boot_archive.c).               *)
(*                                                                         *)
(* A block is a zero block, a header or data; a name is the sequence of    *)
(* what stands between its slashes, so that "./a/" is <<".", "a", "">>.    *)
(* A header with a bad magic, checksum or number is a data block.           *)
(***************************************************************************)
EXTENDS SequencesExt, Integers

CONSTANTS
  Block,        \* bytes of a block, TAR_BLOCK_SIZE
  MaxNodes,     \* VFS_MAX_NODES
  Chunk,        \* bytes the console prints at a time
  Names,        \* the prefix and name fields of headers
  Sizes,        \* file sizes in bytes
  MaxEntries,   \* entries of an archive
  Queries       \* paths looked up

VARIABLES
  image,        \* the archive: its blocks and its length in bytes
  mount,        \* tar_mount: offset, state, and the nodes made
  walk          \* jcos_boot_archive_next: cursor, state, and the entries returned

archiveVars == <<image, mount, walk>>

(***************************************************************************)
(* The archive: entries with padded data, an end block or none, and a last *)
(* block that may be cut short.                                            *)
(***************************************************************************)
Pad(size) == ((size + Block - 1) \div Block) * Block

Entries ==
  {[prefix |-> n.prefix, name |-> n.name, kind |-> k, size |-> z] :
     n \in Names, k \in {"file", "dir", "other"}, z \in Sizes}

Laid(e) == <<e>> \o [i \in 1..(Pad(e.size) \div Block) |-> [kind |-> "data"]]

Images ==
  {[blocks |-> blocks, size |-> Block * Len(blocks) - cut] :
     blocks \in {FlattenSeq([i \in 1..Len(es) |-> Laid(es[i])]) \o tail :
                   es \in SeqOf(Entries, MaxEntries),
                   tail \in {<<>>, <<[kind |-> "zero"]>>, <<[kind |-> "data"]>>}},
     cut \in {0, 1}}

BlockAt(offset) == image.blocks[offset \div Block + 1]
IsHeader(b) == b.kind \in {"file", "dir", "other"}

(***************************************************************************)
(* Paths.                                                                  *)
(***************************************************************************)
\* A component is dropped only with the slash behind it.
DropWhile(p, x) ==
  LET kept == {i \in 1..Len(p) : p[i] /= x \/ i = Len(p)}
  IN  IF p = <<>> THEN p ELSE SubSeq(p, CHOOSE i \in kept : \A j \in kept : i <= j, Len(p))

DropTrailing(p) ==
  LET kept == {0} \cup {i \in 1..Len(p) : p[i] /= ""}
  IN  SubSeq(p, 1, CHOOSE i \in kept : \A j \in kept : j <= i)

\* The kernel's path of a header: <<>> is the root.
build_path(h) ==
  LET p == DropTrailing(DropWhile(DropWhile(h.prefix \o h.name, "."), ""))
  IN  IF p = <<".">> THEN <<>> ELSE p

\* Defect: the Ring 3 reader does not skip a leading "./".
NormalizedWithDot(p) ==
  LET s == DropWhile(p, "")
      t == DropTrailing(s)
  IN  IF t = <<>> \/ Contains(s, "..") THEN <<>>
      ELSE <<t[1]>> \o SelectSeq(Tail(t), LAMBDA x : x /= "")

\* The user library's: <<>> is refused.
normalize_path(p) ==
  LET s == DropWhile(DropWhile(p, ""), ".")
      t == DropTrailing(s)
  IN  IF t = <<>> \/ Contains(s, "..") THEN <<>>
      ELSE <<t[1]>> \o SelectSeq(Tail(t), LAMBDA x : x /= "")

(***************************************************************************)
(* The kernel's tree: node 1 is the root.                                  *)
(***************************************************************************)
Root == [name |-> "", parent |-> 0, type |-> "dir", data |-> 0, size |-> 0]

vfs_find_child(nodes, directory, name) ==
  LET named == {i \in 2..Len(nodes) : nodes[i].parent = directory /\ nodes[i].name = name}
  IN  IF nodes[directory].type /= "dir" \/ named = {} THEN 0
      ELSE CHOOSE i \in named : \A j \in named : i <= j

\* allocate_node, set_node_name and append_child.
Added(s, node) ==
  IF Len(s.nodes) >= MaxNodes THEN [s EXCEPT !.ok = FALSE]
  ELSE [s EXCEPT !.nodes = Append(@, node), !.at = Len(s.nodes) + 1]

ensure_directory(s, name) ==
  LET existing == vfs_find_child(s.nodes, s.at, name)
  IN  IF existing = 0
      THEN Added(s, [name |-> name, parent |-> s.at, type |-> "dir", data |-> 0, size |-> 0])
      ELSE IF s.nodes[existing].type /= "dir" THEN [s EXCEPT !.ok = FALSE]
      ELSE [s EXCEPT !.at = existing]

\* next_component skips empty components; "." stays where it is, ".." is refused.
Descend(s, name) ==
  IF ~s.ok \/ name \in {"", "."} THEN s
  ELSE IF name = ".." THEN [s EXCEPT !.ok = FALSE]
  ELSE ensure_directory(s, name)

vfs_add_directory(nodes, path) ==
  FoldLeft(Descend, [nodes |-> nodes, at |-> 1, ok |-> TRUE], path)

\* Defect: a second entry for the same file makes a second node.
AddsAnother(nodes, path, data, size) ==
  LET p == DropTrailing(path)
      s == FoldLeft(Descend, [nodes |-> nodes, at |-> 1, ok |-> TRUE], SubSeq(p, 1, Len(p) - 1))
  IN  IF p = <<>> \/ ~s.ok \/ Last(p) \in {".", ".."} THEN [s EXCEPT !.ok = FALSE]
      ELSE Added(s, [name |-> Last(p), parent |-> s.at, type |-> "file", data |-> data, size |-> size])

vfs_add_file(nodes, path, data, size) ==
  LET p == DropTrailing(path)
      s == FoldLeft(Descend, [nodes |-> nodes, at |-> 1, ok |-> TRUE], SubSeq(p, 1, Len(p) - 1))
      existing == vfs_find_child(s.nodes, s.at, Last(p))
  IN  IF p = <<>> THEN [nodes |-> nodes, at |-> 1, ok |-> FALSE]
      ELSE IF ~s.ok \/ Last(p) \in {".", ".."} THEN [s EXCEPT !.ok = FALSE]
      ELSE IF existing = 0
      THEN Added(s, [name |-> Last(p), parent |-> s.at, type |-> "file", data |-> data, size |-> size])
      ELSE IF s.nodes[existing].type /= "file" THEN [s EXCEPT !.ok = FALSE]
      ELSE [s EXCEPT !.nodes[existing].data = data, !.nodes[existing].size = size]

vfs_resolve(nodes, start, path) ==
  LET step(at, name) ==
        IF at = 0 \/ name \in {"", "."} THEN at
        ELSE IF name = ".." THEN IF at = 1 THEN 1 ELSE nodes[at].parent
        ELSE vfs_find_child(nodes, at, name)
  IN  FoldLeft(step, start, path)

vfs_get_path(nodes, node) ==
  LET climb[i \in 1..Len(nodes)] ==
        IF i = 1 THEN <<>> ELSE Append(climb[nodes[i].parent], nodes[i].name)
  IN  climb[node]

(***************************************************************************)
(* tar_mount, one entry at a time.  The node is made before the padding is *)
(* looked at.                                                              *)
(***************************************************************************)
AddEntry(h, data) ==
  CASE h.kind = "file" -> vfs_add_file(mount.nodes, build_path(h), data, h.size)
    [] h.kind = "dir" -> vfs_add_directory(mount.nodes, build_path(h))
    [] OTHER -> [nodes |-> mount.nodes, at |-> 1, ok |-> TRUE]

tar_mount ==
  /\ mount.st = "run"
  /\ LET end == mount.offset + Block > image.size
         h == BlockAt(mount.offset)
         data == mount.offset + Block
         added == AddEntry(h, data)
         next == data + Pad(h.size)
     IN  mount' = IF end \/ h.kind = "zero" THEN [mount EXCEPT !.st = "ok"]
                  ELSE IF ~IsHeader(h) \/ h.size > image.size - data THEN [mount EXCEPT !.st = "failed"]
                  ELSE IF ~added.ok \/ next > image.size
                  THEN [mount EXCEPT !.st = "failed", !.nodes = added.nodes]
                  ELSE [mount EXCEPT !.nodes = added.nodes, !.offset = next]
  /\ UNCHANGED <<image, walk>>

(***************************************************************************)
(* The console service's walk.                                             *)
(***************************************************************************)
entry_from_header(h, offset) ==
  IF ~IsHeader(h) \/ Pad(h.size) > image.size - (offset + Block) THEN [ok |-> FALSE]
  ELSE [ok |-> TRUE, path |-> normalize_path(h.prefix \o h.name), kind |-> h.kind,
        data |-> offset + Block, size |-> h.size, next |-> offset + Block + Pad(h.size)]

\* Entries without a usable name or type are passed over.  The service runs
\* long after the kernel has mounted.
jcos_boot_archive_next ==
  /\ walk.st = "run" /\ mount.st /= "run"
  /\ LET end == walk.offset + Block > image.size
         h == BlockAt(walk.offset)
         e == entry_from_header(h, walk.offset)
     IN  walk' = IF end \/ h.kind = "zero" THEN [walk EXCEPT !.st = "ok"]
                 ELSE IF ~e.ok THEN [walk EXCEPT !.st = "failed"]
                 ELSE [walk EXCEPT !.offset = e.next,
                                   !.found = IF e.path = <<>> \/ e.kind = "other" THEN @
                                             ELSE Append(@, e)]
  /\ UNCHANGED <<image, mount>>

\* jcos_boot_archive_find starts over: the first entry of that name.
jcos_boot_archive_find(path) ==
  LET p == normalize_path(path)
      named == {i \in 1..Len(walk.found) : p /= <<>> /\ walk.found[i].path = p}
  IN  IF named = {} THEN [kind |-> "none"]
      ELSE walk.found[CHOOSE i \in named : \A j \in named : i <= j]

jcos_boot_archive_read_file(e, offset, count) ==
  IF e.kind /= "file" \/ count = 0 \/ offset >= e.size \/ count > e.size - offset THEN <<>>
  ELSE [i \in 1..count |-> e.data + offset + i - 1]

\* archive_cat: the places of the bytes printed, chunk by chunk.
archive_cat(e) ==
  LET chunks == [i \in 1..((e.size + Chunk - 1) \div Chunk) |->
                   LET offset == (i - 1) * Chunk
                       left == e.size - offset
                   IN  jcos_boot_archive_read_file(e, offset, IF left > Chunk THEN Chunk ELSE left)]
  IN  FlattenSeq(chunks)

(***************************************************************************)
(* The specification.                                                      *)
(***************************************************************************)
Init ==
  /\ image \in Images
  /\ mount = [offset |-> 0, st |-> IF image.size < Block THEN "failed" ELSE "run", nodes |-> <<Root>>]
  /\ walk = [offset |-> 0, st |-> "run", found |-> <<>>]

Next == tar_mount \/ jcos_boot_archive_next

Spec == Init /\ [][Next]_archiveVars

(***************************************************************************)
(* Properties.                                                             *)
(***************************************************************************)
Headers == SelectSeq(SubSeq(image.blocks, 1, image.size \div Block), LAMBDA b : IsHeader(b) /\ b.kind /= "other")
RawName(h) == h.prefix \o h.name
InTree(p) == SelectSeq(p, LAMBDA x : x \notin {"", "."})
NamedOnce == \A i, j \in 1..Len(Headers) :
               i /= j => InTree(RawName(Headers[i])) /= InTree(RawName(Headers[j]))

\* Slashes and then "./" come before the first name, and from there on there is
\* no "." and no ".."; slashes may be repeated.
Plain(p) ==
  \E i \in 1..Len(p) :
    /\ \A k \in 1..i - 1 : p[k] \in {"", "."}
    /\ \A k \in 1..i - 2 : p[k] = "." => p[k + 1] = "."
    /\ p[i] /= "" /\ \A k \in i..Len(p) : p[k] \notin {".", ".."}

KernelFile(q) ==
  LET k == vfs_resolve(mount.nodes, 1, q)
  IN  IF k = 0 \/ mount.nodes[k].type /= "file" THEN [kind |-> "none"] ELSE mount.nodes[k]

Found(q) == KernelFile(q) /= [kind |-> "none"]

\* The two readers show one set of files: when the kernel mounts the archive
\* the walk ends too, and if no name occurs twice in it
\*   - a path that leads the Ring-3 reader to a file leads the kernel to a file
\*     of the same bytes, and cat prints exactly those, whatever the path;
\*   - both readers find every file under the name its header gives it;
\*   - a path the kernel resolves to a file is found by the Ring-3 reader too
\*     when path and headers are plain.  A "." or ".." on the way, which
\*     vfs_resolve follows, is compared as text or refused by normalize_path.
NamespacesAgree ==
  mount.st = "ok" /\ walk.st /= "run" =>
    /\ walk.st = "ok"
    /\ NamedOnce =>
         LET own == {RawName(Headers[i]) : i \in {n \in 1..Len(Headers) : Headers[n].kind = "file"}}
         IN  /\ \A q \in Queries \cup own :
                  LET e == jcos_boot_archive_find(q)
                      k == KernelFile(q)
                  IN  e.kind = "file" =>
                        Found(q) /\ archive_cat(e) = [i \in 1..k.size |-> k.data + i - 1]
             /\ \A q \in own : Found(q) /\ jcos_boot_archive_find(q).kind = "file"
             /\ \A q \in Queries :
                  Found(q) /\ Plain(q) /\ (\A p \in own : Plain(p)) =>
                    jcos_boot_archive_find(q).kind = "file"

\* However the archive is cut, repeated or refused half way: every node's path
\* leads back to that node, and a file's bytes lie inside the archive.
NodesSound ==
  \A i \in 1..Len(mount.nodes) :
    /\ vfs_resolve(mount.nodes, 1, vfs_get_path(mount.nodes, i)) = i
    /\ mount.nodes[i].type = "file" => mount.nodes[i].data + mount.nodes[i].size <= image.size
=============================================================================
