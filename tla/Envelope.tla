------------------------------ MODULE Envelope ------------------------------
(***************************************************************************)
(* proto/codecs/secure_codec.rs: the framing of a sealed message, a fixed  *)
(* header with its field sizes in little-endian bytes, then the nonce, the *)
(* ciphertext and the tag; and the codec that seals and opens.  A byte has *)
(* Base values here, and the cipher is external: its tag is its key.       *)
(***************************************************************************)
EXTENDS Integers, Sequences

CONSTANTS Base,          \* 256 in the code
          Plains,        \* what an inner codec may have encoded
          Ciphers        \* algorithm id, key id and key of each party

VARIABLE frame           \* a message on its way: what was sealed, and the bytes

None == [ok |-> FALSE]
U16MAX == Base ^ 2 - 1
U32MAX == Base ^ 4 - 1

MAGIC == <<3, 1, 2, 0>>
VERSION == 1
OFFSET_VERSION == 4
OFFSET_ALGORITHM_ID == 5
OFFSET_KEY_ID == 7
OFFSET_NONCE_SIZE == 11
OFFSET_TAG_SIZE == 13
OFFSET_CIPHERTEXT_SIZE == 15
FIXED_HEADER_SIZE == 19

append_le(n, value) == [i \in 1 .. n |-> (value \div Base ^ (i - 1)) % Base]

\* Both readers; that the header is long enough is checked before they run.
read_u16_le(data, off) == data[off + 1] + Base * data[off + 2]
read_u32_le(data, off) == read_u16_le(data, off) + Base ^ 2 * read_u16_le(data, off + 2)

\* Seeded fault: the two 16-bit sizes in each other's place.
build_secure_envelope_Swapped(algorithm_id, key_id, nonce, ciphertext, tag) ==
  MAGIC \o <<VERSION>> \o append_le(2, algorithm_id) \o append_le(4, key_id)
        \o append_le(2, Len(tag)) \o append_le(2, Len(nonce)) \o append_le(4, Len(ciphertext))
        \o nonce \o ciphertext \o tag

build_secure_envelope(algorithm_id, key_id, nonce, ciphertext, tag) ==
  IF Len(nonce) > U16MAX \/ Len(tag) > U16MAX \/ Len(ciphertext) > U32MAX THEN <<>>
  ELSE MAGIC \o <<VERSION>> \o append_le(2, algorithm_id) \o append_le(4, key_id)
             \o append_le(2, Len(nonce)) \o append_le(2, Len(tag)) \o append_le(4, Len(ciphertext))
             \o nonce \o ciphertext \o tag

\* Seeded fault: bytes after the tag are ignored.
parse_secure_envelope_Prefix(data) ==
  IF Len(data) < FIXED_HEADER_SIZE \/ SubSeq(data, 1, 4) # MAGIC THEN None
  ELSE LET n == read_u16_le(data, OFFSET_NONCE_SIZE)
           t == read_u16_le(data, OFFSET_TAG_SIZE)
           c == read_u32_le(data, OFFSET_CIPHERTEXT_SIZE)
           payload == SubSeq(data, FIXED_HEADER_SIZE + 1, Len(data))
       IN IF n + c + t > Len(payload) THEN None
          ELSE [ok |-> TRUE, algorithm_id |-> read_u16_le(data, OFFSET_ALGORITHM_ID),
                key_id |-> read_u32_le(data, OFFSET_KEY_ID),
                nonce |-> SubSeq(payload, 1, n),
                ciphertext |-> SubSeq(payload, n + 1, n + c),
                tag |-> SubSeq(payload, n + c + 1, n + c + t)]

parse_secure_envelope(data) ==
  IF \/ Len(data) < FIXED_HEADER_SIZE
     \/ SubSeq(data, 1, Len(MAGIC)) # MAGIC
     \/ data[OFFSET_VERSION + 1] # VERSION
  THEN None
  ELSE LET n == read_u16_le(data, OFFSET_NONCE_SIZE)
           t == read_u16_le(data, OFFSET_TAG_SIZE)
           c == read_u32_le(data, OFFSET_CIPHERTEXT_SIZE)
           payload == SubSeq(data, FIXED_HEADER_SIZE + 1, Len(data))
       IN IF n + c + t # Len(payload) THEN None
          ELSE [ok |-> TRUE, algorithm_id |-> read_u16_le(data, OFFSET_ALGORITHM_ID),
                key_id |-> read_u32_le(data, OFFSET_KEY_ID),
                nonce |-> SubSeq(payload, 1, n),
                ciphertext |-> SubSeq(payload, n + 1, n + c),
                tag |-> SubSeq(payload, n + c + 1, Len(payload))]

\* The cipher behind the C interface: sealing may fail, opening does unless
\* the tag was made with the same key.
seal(cipher, plain, nonce) == [nonce |-> nonce, ciphertext |-> plain, tag |-> cipher.key]
open(cipher, env) == env.tag = cipher.key

\* SecureBuilder::from_inner: no bytes if there is nothing to seal or sealing
\* failed.
from_inner(cipher, plain, nonce, sealed) ==
  LET s == seal(cipher, plain, nonce)
  IN IF plain = <<>> \/ ~sealed THEN <<>>
     ELSE build_secure_envelope(cipher.algorithm_id, cipher.key_id, s.nonce, s.ciphertext, s.tag)

\* SecureCodec::decode: the bytes for the inner codec, none at all where it
\* fails closed.
decode(cipher, data) ==
  LET env == parse_secure_envelope(data)
  IN IF data # <<>> /\ env.ok
        /\ env.algorithm_id = cipher.algorithm_id /\ env.key_id = cipher.key_id
        /\ open(cipher, env)
     THEN env.ciphertext ELSE <<>>

-----------------------------------------------------------------------------
\* A sender seals a message; what the receiver gets may have come from a
\* sender with another framing: a byte different, missing or added.
Init == \E cipher \in Ciphers, plain \in Plains, nonce \in Plains, sealed \in BOOLEAN :
          frame = [cipher |-> cipher, plain |-> IF sealed THEN plain ELSE <<>>,
                   data |-> from_inner(cipher, plain, nonce, sealed), other |-> FALSE]

Other ==
  /\ ~frame.other
  /\ \E data \in {[frame.data EXCEPT ![i] = b] : i \in DOMAIN frame.data, b \in 0 .. Base - 1}
                 \cup {Append(frame.data, 0)}
                 \cup {SubSeq(frame.data, 1, n) : n \in 0 .. Len(frame.data)} :
       frame' = [frame EXCEPT !.data = data, !.other = TRUE]

Next == Other \/ (frame.other /\ UNCHANGED frame)
Spec == Init /\ [][Next]_frame

-----------------------------------------------------------------------------
\* A receiver with the sender's cipher gets back the bytes that were sealed,
\* whatever the lengths; every other receiver gets none.
EnvRoundTrip ==
  ~frame.other => \A c \in Ciphers :
                    decode(c, frame.data) = IF c = frame.cipher THEN frame.plain ELSE <<>>

\* No byte of an envelope is ignored: what parses is exactly what would be
\* built from the fields it parses to.
EnvExact ==
  LET e == parse_secure_envelope(frame.data)
  IN e.ok => build_secure_envelope(e.algorithm_id, e.key_id, e.nonce, e.ciphertext, e.tag)
             = frame.data
=============================================================================
