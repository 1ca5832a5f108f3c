--------------------------------- MODULE Sar ---------------------------------
(***************************************************************************)
(* The initrd archive: tools/sar.c writes it and kernel/sar.c finds the    *)
(* processes in it.                                                        *)
(*                                                                         *)
(* An archive is a function from addresses to what create wrote there: a   *)
(* file header where one begins, a byte of a file, or what is never read.  *)
(* A file is its basename, its size and whether it can be opened; Byte(k,  *)
(* i) is the i-th byte of the k-th file given to create.                   *)
(***************************************************************************)
EXTENDS Integers, Sequences, FiniteSetsExt

CONSTANTS
  Names,       \* basenames
  NameLen,     \* NameLen[f]: length of a basename with its NUL
  Sizes,       \* sizes of files
  MaxFiles,    \* bound: files given to create
  ArchiveHdr,  \* sizeof(struct sar_header), 4 in the code
  FileHdr,     \* sizeof(struct sar_file), 12 in the code
  Page         \* alignment of contents, 4096 in the code

ASSUME SarAssumption ==
  /\ NameLen \in [Names -> Nat \ {0}]
  /\ Sizes \subseteq Nat
  /\ {MaxFiles, ArchiveHdr, FileHdr, Page} \subseteq Nat \ {0}

VARIABLES
  files,            \* the arguments of create
  archive,          \* what has been written
  k,                \* next file of create
  pos,              \* file position of write()
  last_fhdr_addr, last_file_offset,
  pc,               \* what runs: create, then lookup or extract
  wanted,           \* name that sar_lookup looks for
  fhdr,             \* address of the header looked at
  found,            \* result of sar_lookup: a header's address, or -1
  extracted         \* files that extract has written

create_vars == <<archive, k, pos, last_fhdr_addr, last_file_offset>>
read_vars == <<wanted, fhdr, found, extracted>>
vars == <<files, create_vars, pc, read_vars>>

PALIGN(n) == ((n + Page - 1) \div Page) * Page

Header(f, off) == [size |-> f.size, offset |-> off, namelen |-> NameLen[f.name],
                   name |-> f.name]
Byte(f, i) == [file |-> f, byte |-> i]
Filler == Byte(0, 0)
Terminator == [size |-> 0, offset |-> 0, namelen |-> 0]

(* Mutant: the header that ends the list is not counted.                   *)
total_hdr_size_short(fs) ==
  PALIGN(MapThenSumSet(LAMBDA i : FileHdr + NameLen[fs[i].name], DOMAIN fs)
         + ArchiveHdr)

(* Room for all headers, those of files that turn out not to open too, and *)
(* for the terminating one.                                                *)
total_hdr_size(fs) ==
  PALIGN(MapThenSumSet(LAMBDA i : FileHdr + NameLen[fs[i].name], DOMAIN fs)
         + ArchiveHdr + FileHdr)

(* Writing at address a puts c[0], c[1], ... there.                        *)
Written(a, c) ==
  [x \in DOMAIN archive \cup {a + i : i \in DOMAIN c} |->
     IF x - a \in DOMAIN c THEN c[x - a] ELSE archive[x]]

(* A header and the name behind it; only its first byte carries it.        *)
HeaderBytes(h) == [i \in 0 .. FileHdr + h.namelen - 1 |-> IF i = 0 THEN h ELSE Filler]

Init ==
  /\ files \in UNION {[1 .. n -> [name : Names, size : Sizes, opens : BOOLEAN]] :
                       n \in 1 .. MaxFiles}
  /\ archive = [x \in 0 .. ArchiveHdr - 1 |-> Filler]
  /\ k = 1
  /\ pos = ArchiveHdr
  /\ last_fhdr_addr = ArchiveHdr
  /\ last_file_offset = total_hdr_size(files)
  /\ pc = "create"
  /\ wanted \in Names
  /\ fhdr = ArchiveHdr
  /\ found = -1
  /\ extracted = <<>>

(* A file that cannot be opened is left out.                               *)
Skip ==
  /\ pc = "create" /\ k <= Len(files)
  /\ ~files[k].opens
  /\ k' = k + 1
  /\ UNCHANGED <<files, archive, pos, last_fhdr_addr, last_file_offset, pc, read_vars>>

(* write() the header and the name, pwrite() the padded contents.          *)
Add ==
  LET f == files[k]
      h == Header(f, last_file_offset)
      size == PALIGN(f.size)
      content == [i \in 0 .. size - 1 |-> IF i < f.size THEN Byte(k, i) ELSE Filler]
      headers == Written(pos, HeaderBytes(h))
  IN /\ pc = "create" /\ k <= Len(files)
     /\ f.opens
     /\ archive' = [x \in DOMAIN headers \cup {last_file_offset + i : i \in DOMAIN content} |->
                      IF x - last_file_offset \in DOMAIN content
                      THEN content[x - last_file_offset] ELSE headers[x]]
     /\ pos' = pos + FileHdr + h.namelen
     /\ last_fhdr_addr' = last_fhdr_addr + FileHdr + h.namelen
     /\ last_file_offset' = last_file_offset + size
     /\ k' = k + 1
     /\ UNCHANGED <<files, pc, read_vars>>

(* The terminating header, and the archive is complete.                    *)
Terminate ==
  /\ pc = "create" /\ k > Len(files)
  /\ archive' = Written(last_fhdr_addr,
                  [i \in 0 .. FileHdr - 1 |-> IF i = 0 THEN Terminator ELSE Filler])
  /\ pc' \in {"lookup", "extract"}
  /\ UNCHANGED <<files, k, pos, last_fhdr_addr, last_file_offset, read_vars>>

-----------------------------------------------------------------------------
(* Mutant: an empty file ends the list.                                    *)
AtEnd_empty == archive[fhdr].size = 0

(* All of the fields of the terminator are zero.                           *)
AtEnd == archive[fhdr].size = 0 /\ archive[fhdr].offset = 0 /\ archive[fhdr].namelen = 0

NextHeader == fhdr + FileHdr + archive[fhdr].namelen

sar_lookup ==
  /\ pc = "lookup"
  /\ IF AtEnd THEN pc' = "done" /\ UNCHANGED <<fhdr, found>>
     ELSE IF archive[fhdr].name = wanted
     THEN pc' = "done" /\ found' = fhdr /\ UNCHANGED fhdr
     ELSE fhdr' = NextHeader /\ UNCHANGED <<pc, found>>
  /\ UNCHANGED <<files, create_vars, wanted, extracted>>

(* The contents that a header describes.                                   *)
Contents(h) == [i \in 0 .. h.size - 1 |-> archive[h.offset + i]]

(* extract, which writes a file anew when its name comes twice.            *)
extract ==
  /\ pc = "extract"
  /\ IF AtEnd THEN pc' = "done" /\ UNCHANGED <<fhdr, extracted>>
     ELSE /\ extracted' = [n \in DOMAIN extracted \cup {archive[fhdr].name} |->
                             IF n = archive[fhdr].name THEN Contents(archive[fhdr])
                             ELSE extracted[n]]
          /\ fhdr' = NextHeader
          /\ UNCHANGED pc
  /\ UNCHANGED <<files, create_vars, wanted, found>>

Next == Skip \/ Add \/ Terminate \/ sar_lookup \/ extract

Spec == Init /\ [][Next]_vars

-----------------------------------------------------------------------------
Archived(n) == {i \in DOMAIN files : files[i].opens /\ files[i].name = n}
ContentOf(i) == [x \in 0 .. files[i].size - 1 |-> Byte(i, x)]

(* kmain finds an essential process in the initrd if and only if create    *)
(* could read it, the first one of that name, with its contents in one     *)
(* piece on a page boundary, which elf_load needs to map it.               *)
LookupFindsFile ==
  [][pc = "lookup" /\ pc' = "done" =>
       IF Archived(wanted) = {} THEN found' = -1
       ELSE /\ found' # -1
            /\ Contents(archive[found']) = ContentOf(Min(Archived(wanted)))
            /\ archive[found'].offset % Page = 0]_vars

(* extract gives back what create was given, whatever could not be opened, *)
(* was empty or came twice.                                                *)
ExtractInvertsCreate ==
  [][pc = "extract" /\ pc' = "done" =>
       extracted' = [n \in {m \in Names : Archived(m) # {}} |->
                       ContentOf(Max(Archived(n)))]]_vars
=============================================================================
