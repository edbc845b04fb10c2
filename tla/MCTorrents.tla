----------------------------- MODULE MCTorrents -----------------------------
(* What the instances of MetainfoBuild build torrents from, and set. *)
EXTENDS Metainfo, Integers, Sequences

File(len, path) == [len |-> len, path |-> path]
Given(n) == [i \in 1..SHA_HASH_LEN |-> 300 + n]

(* A directory of two files whose boundary is inside a piece, a file on its *)
(* own, two files without a directory, and hashes that are given.           *)
MCAccessors ==
  {[directory |-> {<<20>>},
    files |-> <<File(3, <<<<21>>>>), File(2, <<<<22>>, <<23>>>>)>>,
    pieces |-> <<Compute(<<1, 2, 3>>), Compute(<<4, 5>>)>>],
   [directory |-> {}, files |-> <<File(4, <<<<21>>>>)>>,
    pieces |-> <<Compute(<<1, 2, 3, 4>>)>>],
   [directory |-> {}, files |-> <<File(1, <<<<21>>>>), File(2, <<<<22>>>>)>>,
    pieces |-> <<PreComputed(Given(1)), PreComputed(Given(2))>>]}

MCCalls ==
  {<<"set_piece_length", {Custom(2)}>>,
   <<"set_piece_length", {Opt("OptTransfer")}>>,
   <<"set_comment", {<<30, 31>>}>>,
   <<"set_comment", {}>>,
   <<"set_trackers", {<<<<<<40>>, <<41>>>>, <<>>>>}>>,
   <<"set_creation_date", {12}>>,
   <<"set_private_flag", {TRUE}>>}

(* A torrent of another program: its keys are not sorted, it has an md5 sum, *)
(* a key this program does not know, and is private.                         *)
ForeignInfo ==
  <<DICT_START>> \o encode_bytes(PIECES_KEY) \o encode_bytes(Given(3))
  \o encode_bytes(LENGTH_KEY) \o encode_int(7)
  \o encode_bytes(<<90>>) \o encode_list(<<>>)
  \o encode_bytes(MD5SUM_KEY) \o encode_bytes(<<50>>)
  \o encode_bytes(PRIVATE_KEY) \o encode_int(1)
  \o encode_bytes(NAME_KEY) \o encode_bytes(<<24>>)
  \o encode_bytes(PIECE_LENGTH_KEY) \o encode_int(16) \o <<BEN_END>>
MCForeign ==
  {ForeignInfo,
   <<DICT_START>> \o encode_bytes(INFO_KEY) \o ForeignInfo
   \o encode_bytes(ENCODING_KEY) \o encode_bytes(<<60>>) \o <<BEN_END>>}
=============================================================================
