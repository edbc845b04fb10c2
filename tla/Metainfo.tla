------------------------------ MODULE Metainfo ------------------------------
(***************************************************************************)
(* bip_metainfo as functions: what the builder writes into the root and    *)
(* the info dictionary (builder/mod.rs) and what a torrent file is parsed  *)
(* to (metainfo.rs, parse.rs).  A key is one byte; the bytes are in the    *)
(* alphabetical order of the keys.  Strings are byte sequences, a path is  *)
(* the sequence of its components, and no component holds a separator.     *)
(* An option is a set of at most one element.                              *)
(***************************************************************************)
EXTENDS Bencode
LOCAL INSTANCE Integers
LOCAL INSTANCE Sequences
LOCAL INSTANCE SequencesExt
LOCAL INSTANCE FiniteSetsExt

ANNOUNCE_URL_KEY == <<1>>
ANNOUNCE_LIST_KEY == <<2>>
COMMENT_KEY == <<3>>
CREATED_BY_KEY == <<4>>
CREATION_DATE_KEY == <<5>>
ENCODING_KEY == <<6>>
FILES_KEY == <<7>>
INFO_KEY == <<8>>
LENGTH_KEY == <<9>>
MD5SUM_KEY == <<10>>
NAME_KEY == <<11>>
PATH_KEY == <<12>>
PIECE_LENGTH_KEY == <<13>>
PIECES_KEY == <<14>>
PRIVATE_KEY == <<15>>

(* A SHA-1 hash: different slices have different hashes. *)
SHA_HASH_LEN == 20
sha(slice) ==
  [i \in 1..SHA_HASH_LEN |-> 256 + FoldLeft(LAMBDA a, b : 32 * a + b, 1, slice)]

---------------------------------------------------------------------------
(* The builder: [root, info, piece_length].  An InfoBuilder has no root.  *)

Custom(len) == [opt |-> "Custom", len |-> len]
Opt(name) == [opt |-> name]

MetainfoBuilder == [root |-> {NewDict}, info |-> NewDict,
                    piece_length |-> Opt("OptBalanced")]
InfoBuilder == [MetainfoBuilder EXCEPT !.root = {}]

(* The root setters: Some inserts, None removes. *)
SetRoot(b, key, opt) ==
  [b EXCEPT !.root = {IF opt = {} THEN remove(d, key).dict
                      ELSE insert(d, key, CHOOSE v \in opt : TRUE).dict : d \in @}]

set_trackers(b, opt) ==
  SetRoot(b, ANNOUNCE_LIST_KEY,
          {ben_list([g \in 1..Len(groups) |->
              ben_list([i \in 1..Len(groups[g]) |-> ben_bytes(groups[g][i])])]) :
              groups \in opt})
set_main_tracker(b, opt) ==
  SetRoot(b, ANNOUNCE_URL_KEY, {ben_bytes(u) : u \in opt})
set_creation_date(b, opt) ==
  SetRoot(b, CREATION_DATE_KEY, {ben_int(n) : n \in opt})
set_comment(b, opt) == SetRoot(b, COMMENT_KEY, {ben_bytes(c) : c \in opt})
set_created_by(b, opt) == SetRoot(b, CREATED_BY_KEY, {ben_bytes(c) : c \in opt})

(* `opt.and_then(insert).or_else(remove)`: insert returns the value that   *)
(* was there before, so a first insert returns None and is undone at once. *)
set_private_flag(b, opt) ==
  LET Put(p) == insert(b.info, PRIVATE_KEY, ben_int(IF p THEN 1 ELSE 0))
      dict == IF opt = {} THEN b.info
              ELSE Put(CHOOSE p \in opt : TRUE).dict
      some == opt # {} /\ Put(CHOOSE p \in opt : TRUE).old # {}
  IN  [b EXCEPT !.info = IF some THEN dict ELSE remove(dict, PRIVATE_KEY).dict]

set_piece_length(b, len) == [b EXCEPT !.piece_length = len]

ALL_OPT_MAX_PIECE_LENGTH == 16 * 1024 * 1024

next_power_of_two(n) == Min({2^k : k \in {j \in 0..30 : 2^j >= n}})

(* The f64 quotient, rounded, as exact integer arithmetic. *)
calculate_piece_length(total, max_pieces_size, min_piece_length) ==
  LET num_pieces == max_pieces_size \div SHA_HASH_LEN
      pot == next_power_of_two((2 * total + num_pieces) \div (2 * num_pieces))
  IN  IF pot <= min_piece_length THEN min_piece_length
      ELSE IF pot < ALL_OPT_MAX_PIECE_LENGTH THEN pot
      ELSE ALL_OPT_MAX_PIECE_LENGTH

determine_piece_length(total, len) ==
  CASE len.opt = "Custom" -> len.len
    [] len.opt = "OptBalanced" ->
         calculate_piece_length(total, 40000, 512 * 1024)
    [] len.opt = "OptFileSize" ->
         calculate_piece_length(total, 20000, 1024 * 1024)
    [] len.opt = "OptTransfer" -> calculate_piece_length(total, 60000, 1024)

---------------------------------------------------------------------------
(* What is built from: an accessor is [directory, files, pieces], pieces   *)
(* being the calls made to the callback of access_pieces.                  *)

Compute(bytes) == [compute |-> bytes]
PreComputed(hash) == [hash |-> hash]
IsCompute(access) == "compute" \in DOMAIN access

TotalLength(a) == FoldLeft(LAMBDA n, f : n + f.len, 0, a.files)

MultiFiles(a) ==
  ben_list([i \in 1..Len(a.files) |->
    ben_dict([k \in {LENGTH_KEY, PATH_KEY} |->
      IF k = LENGTH_KEY THEN ben_int(a.files[i].len)
      ELSE ben_list([j \in 1..Len(a.files[i].path) |->
                       ben_bytes(a.files[i].path[j])])])])

(* The end of build_with_accessor: the info dictionary, then the file.    *)
(* A file on its own has the components of its path run together as name. *)
BuildBytes(b, a, piece_length, hashes) ==
  LET Put(d, k, v) == insert(d, k, v).dict
      common == Put(Put(b.info, PIECE_LENGTH_KEY, ben_int(piece_length)),
                    PIECES_KEY, ben_bytes(FlattenSeq(hashes)))
      multi == a.directory # {} \/ Len(a.files) > 1
      name == IF ~multi THEN FlattenSeq(a.files[1].path)
              ELSE IF a.directory = {} THEN <<>>
              ELSE CHOOSE n \in a.directory : TRUE
      info == Put(Put(common, NAME_KEY, ben_bytes(name)),
                  IF multi THEN FILES_KEY ELSE LENGTH_KEY,
                  IF multi THEN MultiFiles(a) ELSE ben_int(a.files[1].len))
  IN  IF b.root = {} THEN encode(ben_dict(info))
      ELSE encode(ben_dict(Put(CHOOSE d \in b.root : TRUE, INFO_KEY,
                               ben_dict(info))))

---------------------------------------------------------------------------
(* What a torrent file is parsed to.                                       *)

(* Every element of a sequence of options, or an error. *)
AllOf(opts) == IF \E i \in DOMAIN opts : opts[i] = {} THEN {}
               ELSE {[i \in DOMAIN opts |-> CHOOSE x \in opts[i] : TRUE]}

parse_private(d) == {n = 1 : n \in lookup_and_convert_int(d, PRIVATE_KEY)}

allocate_pieces(bytes) ==
  IF Len(bytes) % SHA_HASH_LEN # 0 THEN {}
  ELSE {[i \in 1..(Len(bytes) \div SHA_HASH_LEN) |->
           SubSeq(bytes, (i - 1) * SHA_HASH_LEN + 1, i * SHA_HASH_LEN)]}

as_single_file(d) ==
  {[len |-> n, path |-> <<name>>,
    md5sum |-> lookup_and_convert_bytes(d, MD5SUM_KEY)] :
      n \in lookup_and_convert_int(d, LENGTH_KEY),
      name \in lookup_and_convert_bytes(d, NAME_KEY)}

as_multi_file(d) ==
  {[len |-> n, path |-> path, md5sum |-> lookup_and_convert_bytes(d, MD5SUM_KEY)] :
      n \in lookup_and_convert_int(d, LENGTH_KEY),
      path \in UNION {AllOf([i \in DOMAIN l |->
                               IF IsBytes(l[i]) THEN {l[i].bytes} ELSE {}]) :
                        l \in lookup_and_convert_list(d, PATH_KEY)}}

is_multi_file_torrent(d) == lookup_and_convert_int(d, LENGTH_KEY) = {}

(* The info hash is the hash of the slice the dictionary was decoded from. *)
parse_info_dictionary(v) ==
  LET d == v.dict
      files == IF is_multi_file_torrent(d)
               THEN UNION {AllOf([i \in DOMAIN l |->
                                    IF IsDict(l[i]) THEN as_multi_file(l[i].dict)
                                    ELSE {}]) :
                             l \in lookup_and_convert_list(d, FILES_KEY)}
               ELSE {<<f>> : f \in as_single_file(d)}
      Info(len, hashes, fs, dir) ==
        [info_hash |-> v.buffer, files |-> fs, pieces |-> hashes,
         piece_len |-> len, is_private |-> parse_private(d),
         file_directory |-> dir]
  IN  IF ~IsDict(v) THEN {}
      ELSE {Info(len, hashes, fs,
                 IF is_multi_file_torrent(d) THEN {name} ELSE {}) :
              len \in lookup_and_convert_int(d, PIECE_LENGTH_KEY),
              hashes \in UNION {allocate_pieces(b) :
                           b \in lookup_and_convert_bytes(d, PIECES_KEY)},
              fs \in files,
              name \in lookup_and_convert_bytes(d, NAME_KEY)}

parse_info_bytes(bytes) ==
  UNION {parse_info_dictionary(v) : v \in from_bytes(bytes, DefaultOpt)}

convert_announce_list(l) ==
  [g \in DOMAIN SelectSeq(l, IsList) |->
     LET urls == SelectSeq(SelectSeq(l, IsList)[g].list, IsBytes)
     IN  [i \in DOMAIN urls |-> urls[i].bytes]]

parse_meta_bytes(bytes) ==
  LET Str(d, k) == lookup_and_convert_bytes(d, k)
      Of(d) == {[announce |-> Str(d, ANNOUNCE_URL_KEY),
                 announce_list |-> {convert_announce_list(l) :
                     l \in lookup_and_convert_list(d, ANNOUNCE_LIST_KEY)},
                 comment |-> Str(d, COMMENT_KEY),
                 encoding |-> Str(d, ENCODING_KEY),
                 created_by |-> Str(d, CREATED_BY_KEY),
                 creation_date |->
                     lookup_and_convert_int(d, CREATION_DATE_KEY),
                 info |-> i] :
                    i \in UNION {parse_info_dictionary(v) :
                                   v \in lookup(d, INFO_KEY)}}
  IN  UNION {Of(v.dict) : v \in {x \in from_bytes(bytes, DefaultOpt) : IsDict(x)}}

(* Info as an accessor: its pieces are given, not computed. *)
InfoAccessor(i) ==
  [directory |-> i.file_directory,
   files |-> [f \in DOMAIN i.files |->
                [len |-> i.files[f].len, path |-> i.files[f].path]],
   pieces |-> [p \in DOMAIN i.pieces |-> PreComputed(i.pieces[p])]]

(* The piece length of the torrent is not carried over. *)
InfoToBuilder_Slip(i) == set_private_flag(InfoBuilder, i.is_private)

(* The builders of Info::to_bytes and Metainfo::to_bytes. *)
InfoToBuilder(i) ==
  set_piece_length(set_private_flag(InfoBuilder, i.is_private),
                   Custom(i.piece_len))

MetainfoToBuilder(m) ==
  LET root == set_created_by(set_comment(set_creation_date(
                set_main_tracker(MetainfoBuilder, m.announce),
                m.creation_date), m.comment), m.created_by)
  IN  set_piece_length(set_private_flag(root, m.info.is_private),
                       Custom(m.info.piece_len))
=============================================================================
