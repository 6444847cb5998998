---------------------------- MODULE SecretCodec ----------------------------
(* How pg_llm_encrypt_text and pg_llm_decrypt_text                         *)
(* (src/utils/pg_llm_support.cpp) pack a secret: AES-GCM, its parts laid   *)
(* out in one payload, base64 over that.  The cipher itself is abstract:   *)
(* any bytes, which open under the key they were made with and no other.   *)
(* Whether a payload comes back whole is "legible" in ModelRegistry.       *)
EXTENDS Integers, Sequences, FiniteSets
LOCAL INSTANCE FiniteSetsExt

CONSTANTS
  Bytes,           \* a subset of 0..255 with 0 in it
  IvLength, TagLength,  \* 12 and 16
  Plains,          \* texts to seal
  Keys, NoKey,     \* values of pg_llm.master_key, and the empty one
  MaxSecrets       \* bound on secrets

VARIABLES
  key,      \* pg_llm.master_key
  sealed,   \* secrets in the catalog, with what they were made of
  opened    \* history: what each pg_llm_decrypt_text gave

vars == <<key, sealed, opened>>

(* What EVP_DecodeBlock gives for a base64 text: the payload and, for each *)
(* "=" of padding, a byte 0.                                               *)
base64_text(payload) ==
  payload \o [i \in 1..((3 - (Len(payload) % 3)) % 3) |-> 0]

(* base64_decode: nothing tells it the length, so zeros at the end go.     *)
base64_decode(text) ==
  SubSeq(text, 1, Max({i \in DOMAIN text : text[i] # 0} \cup {0}))

Strings(n) == [1..n -> Bytes]
Payload(s) == s.iv \o s.tag \o s.cipher

Init == key \in Keys \cup {NoKey} /\ sealed = {} /\ opened = {}

(* RAND_bytes does not give an iv twice.                                   *)
pg_llm_encrypt_text(plain) ==
  /\ key # NoKey
  /\ Cardinality(sealed) < MaxSecrets
  /\ \E iv \in Strings(IvLength), tag \in Strings(TagLength), cipher \in Strings(Len(plain)) :
       /\ \A s \in sealed : s.iv # iv
       /\ sealed' = sealed \cup
            {[plain |-> plain, key |-> key, iv |-> iv, tag |-> tag, cipher |-> cipher]}
  /\ UNCHANGED <<key, opened>>

(* The payload is cut at fixed places, and GCM opens what it has made.     *)
Opens(s, payload) == s.key = key /\ Payload(s) = payload

pg_llm_decrypt_text(s) ==
  LET payload == base64_decode(base64_text(Payload(s))) IN
  /\ opened' = opened \cup
       {[of |-> s, by |-> key,
         plain |-> IF key # NoKey /\ Len(payload) >= IvLength + TagLength
                     THEN {o.plain : o \in {o \in sealed : Opens(o, payload)}}
                     ELSE {}]}
  /\ UNCHANGED <<key, sealed>>

SetKey(k) == k # key /\ key' = k /\ UNCHANGED <<sealed, opened>>

Next ==
  \/ \E plain \in Plains : pg_llm_encrypt_text(plain)
  \/ \E s \in sealed : pg_llm_decrypt_text(s)
  \/ \E k \in Keys \cup {NoKey} : SetKey(k)

Spec == Init /\ [][Next]_vars

(* A secret sealed under a master key opens under it, to what was sealed.  *)
SealedOpens == \A o \in opened : o.by = o.of.key => o.plain = {o.of.plain}
=============================================================================
