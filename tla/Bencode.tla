------------------------------ MODULE Bencode ------------------------------
(***************************************************************************)
(* bip_bencode: the encoder (mutable/encode.rs) and the decoder            *)
(* (reference/decode.rs).  A byte is a natural number and a buffer a       *)
(* sequence of them.  A value is                                           *)
(*   [int |-> n], [bytes |-> b], [list |-> l] or [dict |-> d]              *)
(* with d a function from keys to values (a BTreeMap).  A decoded value    *)
(* also keeps the slice it was decoded from in the field "buffer".         *)
(* Numbers stay far below 2^63, so the overflow of i64 is left out.        *)
(* "Option" results are sets of at most one element; an error is {}.       *)
(***************************************************************************)
LOCAL INSTANCE Integers
LOCAL INSTANCE Sequences
LOCAL INSTANCE SequencesExt
LOCAL INSTANCE FiniteSets
LOCAL INSTANCE FiniteSetsExt

BEN_END == 101
DICT_START == 100
LIST_START == 108
INT_START == 105
BYTE_LEN_LOW == 48
BYTE_LEN_HIGH == 57
BYTE_LEN_END == 58
SIGN_MINUS == 45
SIGN_PLUS == 43

ben_int(n) == [int |-> n]
ben_bytes(b) == [bytes |-> b]
ben_list(l) == [list |-> l]
ben_dict(d) == [dict |-> d]

IsInt(v) == "int" \in DOMAIN v
IsBytes(v) == "bytes" \in DOMAIN v
IsList(v) == "list" \in DOMAIN v
IsDict(v) == "dict" \in DOMAIN v

---------------------------------------------------------------------------
(* Dictionaries (access/dict.rs).  As in BTreeMap, insert and remove also *)
(* return the value that the key had before.                              *)

NewDict == <<>>

lookup(d, k) == IF k \in DOMAIN d THEN {d[k]} ELSE {}

insert(d, k, v) ==
  [dict |-> [x \in DOMAIN d \cup {k} |-> IF x = k THEN v ELSE d[x]],
   old |-> lookup(d, k)]

remove(d, k) ==
  [dict |-> [x \in DOMAIN d \ {k} |-> d[x]], old |-> lookup(d, k)]

(* BConvert's lookup_and_convert_*: a missing key and a value of another *)
(* type are both errors.                                                 *)
lookup_and_convert_int(d, k) == {v.int : v \in {x \in lookup(d, k) : IsInt(x)}}
lookup_and_convert_bytes(d, k) ==
  {v.bytes : v \in {x \in lookup(d, k) : IsBytes(x)}}
lookup_and_convert_list(d, k) ==
  {v.list : v \in {x \in lookup(d, k) : IsList(x)}}

---------------------------------------------------------------------------
(* The encoder.                                                          *)

RECURSIVE to_string(_)
to_string(n) == IF n < 0 THEN <<SIGN_MINUS>> \o to_string(-n)
               ELSE IF n < 10 THEN <<BYTE_LEN_LOW + n>>
               ELSE to_string(n \div 10) \o <<BYTE_LEN_LOW + (n % 10)>>

(* Byte strings are ordered as Rust orders slices. *)
Before(a, b) ==
  \/ IsStrictPrefix(a, b)
  \/ \E i \in 1..Len(a) : /\ i <= Len(b)
                          /\ SubSeq(a, 1, i - 1) = SubSeq(b, 1, i - 1)
                          /\ a[i] < b[i]

encode_int(n) == <<INT_START>> \o to_string(n) \o <<BEN_END>>

encode_bytes(b) == to_string(Len(b)) \o <<BYTE_LEN_END>> \o b

RECURSIVE encode(_)

encode_list(l) ==
  <<LIST_START>> \o FlattenSeq([i \in 1..Len(l) |-> encode(l[i])])
                 \o <<BEN_END>>

encode_dict(d) ==
  LET keys == [i \in 1..Cardinality(DOMAIN d) |->
                 CHOOSE k \in DOMAIN d :
                   Cardinality({x \in DOMAIN d : Before(x, k)}) = i - 1]
  IN  <<DICT_START>>
      \o FlattenSeq([i \in 1..Len(keys) |->
                       encode_bytes(keys[i]) \o encode(d[keys[i]])])
      \o <<BEN_END>>

encode(v) == IF IsInt(v) THEN encode_int(v.int)
             ELSE IF IsBytes(v) THEN encode_bytes(v.bytes)
             ELSE IF IsList(v) THEN encode_list(v.list)
             ELSE encode_dict(v.dict)

---------------------------------------------------------------------------
(* The decoder.  Positions count from 0, as in the code; a result is     *)
(* {[value |-> .., next |-> ..]} or {}.                                  *)

BDecodeOpt(max_recursion, check_key_sort, enforce_full_decode) ==
  [max_recursion |-> max_recursion, check_key_sort |-> check_key_sort,
   enforce_full_decode |-> enforce_full_decode]

DefaultOpt == BDecodeOpt(50, FALSE, TRUE)

peek_byte(bytes, pos) == IF pos < Len(bytes) THEN {bytes[pos + 1]} ELSE {}

Slice(bytes, from, to) == SubSeq(bytes, from + 1, to)

IsDigit(b) == b \in BYTE_LEN_LOW..BYTE_LEN_HIGH

RECURSIVE Number(_)
Number(digits) ==
  IF digits = <<>> THEN 0
  ELSE 10 * Number(Front(digits)) + (Last(digits) - BYTE_LEN_LOW)

(* i64::from_str_radix(.., 10): an optional sign, then at least one digit. *)
from_str_radix(s) ==
  LET signed == Len(s) > 1 /\ s[1] \in {SIGN_MINUS, SIGN_PLUS}
      digits == IF signed THEN Tail(s) ELSE s
      good == digits # <<>> /\ \A i \in 1..Len(digits) : IsDigit(digits[i])
  IN  IF ~good THEN {}
      ELSE {IF signed /\ s[1] = SIGN_MINUS THEN -Number(digits) ELSE Number(digits)}

decode_int(bytes, pos, delim) ==
  LET ends == {i \in pos..(Len(bytes) - 1) : bytes[i + 1] = delim}
      end == Min(ends)
      s == Slice(bytes, pos, end)
      padded == Len(s) > 1 /\ \/ s[1] = SIGN_MINUS /\ s[2] = BYTE_LEN_LOW
                              \/ s[1] = BYTE_LEN_LOW
  IN  IF ends = {} \/ padded THEN {}
      ELSE {[value |-> n, next |-> end + 1] : n \in from_str_radix(s)}

decode_bytes(bytes, pos) ==
  {[value |-> Slice(bytes, r.next, r.next + r.value),
    next |-> r.next + r.value] :
     r \in {x \in decode_int(bytes, pos, BYTE_LEN_END) :
              /\ x.value >= 0
              /\ x.value <= Len(bytes) - x.next}}

RECURSIVE decode(_, _, _, _)

(* The loop of decode_list, from curr_pos on. *)
RECURSIVE decode_list(_, _, _, _, _)
decode_list(bytes, curr_pos, opts, depth, list) ==
  UNION {IF b = BEN_END THEN {[value |-> list, next |-> curr_pos + 1]}
         ELSE UNION {decode_list(bytes, r.next, opts, depth,
                                 Append(list, r.value)) :
                       r \in decode(bytes, curr_pos, opts, depth + 1)} :
           b \in peek_byte(bytes, curr_pos)}

(* The loop of decode_dict: a key below the largest one so far is refused *)
(* under check_key_sort, a key met before always is.                      *)
RECURSIVE decode_dict(_, _, _, _, _)
decode_dict(bytes, curr_pos, opts, depth, dict) ==
  LET Sorted(k) == opts.check_key_sort
                     => \A x \in DOMAIN dict : ~Before(k, x)
      Entry(k) ==
        UNION {decode_dict(bytes, r.next, opts, depth,
                           insert(dict, k.value, r.value).dict) :
                 r \in {x \in decode(bytes, k.next, opts, depth + 1) :
                          k.value \notin DOMAIN dict}}
  IN  UNION {IF b = BEN_END THEN {[value |-> dict, next |-> curr_pos + 1]}
             ELSE UNION {Entry(k) : k \in {x \in decode_bytes(bytes, curr_pos) :
                                             Sorted(x.value)}} :
               b \in peek_byte(bytes, curr_pos)}

decode(bytes, pos, opts, depth) ==
  LET Buffer(r) == Slice(bytes, pos, r.next)
      Kind(b) ==
        IF b = INT_START
        THEN {[value |-> [int |-> r.value, buffer |-> Buffer(r)],
               next |-> r.next] : r \in decode_int(bytes, pos + 1, BEN_END)}
        ELSE IF b = LIST_START
        THEN {[value |-> [list |-> r.value, buffer |-> Buffer(r)],
               next |-> r.next] :
                r \in decode_list(bytes, pos + 1, opts, depth, <<>>)}
        ELSE IF b = DICT_START
        THEN {[value |-> [dict |-> r.value, buffer |-> Buffer(r)],
               next |-> r.next] :
                r \in decode_dict(bytes, pos + 1, opts, depth, NewDict)}
        ELSE IF IsDigit(b)
        THEN {[value |-> [bytes |-> r.value, buffer |-> Buffer(r)],
               next |-> r.next] : r \in decode_bytes(bytes, pos)}
        ELSE {}
  IN  IF depth >= opts.max_recursion THEN {}
      ELSE UNION {Kind(b) : b \in peek_byte(bytes, pos)}

(* BencodeRef::decode. *)
from_bytes(bytes, opts) ==
  {r.value : r \in {x \in decode(bytes, 0, opts, 0) :
                      x.next = Len(bytes) \/ ~opts.enforce_full_decode}}
=============================================================================
