---------------------------- MODULE ProofEnvelope ----------------------------
(***************************************************************************)
(* The proof of a ZisK job: the envelope that the coordinator answers, in  *)
(* bincode's variable-width encoding, and its transcoding to the           *)
(* fixed-width proof that the verifier reads (zisk/proof.go).              *)
(*                                                                         *)
(* A word is its eight little-endian bytes.  A reader is [off, err, got]:  *)
(* the offset, whether a read failed, and what the last read returned.     *)
(***************************************************************************)
EXTENDS Integers, Sequences, SequencesExt

CONSTANTS
    VKWords,       \* words of a program vk
    ValueWords,    \* words of the public values
    HashFamily,    \* the bytes that name the accepted hash family
    MaxBytes       \* the cap on an envelope

ASSUME EnvelopeAssumption ==
    /\ VKWords \in Nat /\ ValueWords \in Nat /\ MaxBytes \in Nat
    /\ HashFamily \in Seq(0..255)

WordBytes == 8
Padded(bytes) == bytes \o [i \in 1..(WordBytes - Len(bytes)) |-> 0]

(* The word of a small number, and the number of a word that is small.     *)
WordOf(n) == Padded(<<n % 256, (n \div 256) % 256, (n \div 256) \div 256>>)
IsSmall(word) == \A i \in 4..WordBytes : word[i] = 0
NumberOf(word) == word[1] + 256 * (word[2] + 256 * word[3])

----------------------------------------------------------------------------
(* The reader.  Its error sticks: a read after a failure returns nothing.  *)

Start == [off |-> 0, err |-> FALSE, got |-> <<>>]
Failed(r) == [r EXCEPT !.err = TRUE, !.got = <<>>]

Take(buf, r, n) ==
    IF r.err \/ r.off + n > Len(buf) THEN Failed(r)
    ELSE [r EXCEPT !.off = @ + n, !.got = SubSeq(buf, r.off + 1, r.off + n)]

Widths == [m \in {251, 252, 253} |-> CASE m = 251 -> 2 [] m = 252 -> 4 [] OTHER -> 8]

(* A value below 251 is its own byte; a marker prefixes a wider one.       *)
VarInt(buf, r) ==
    LET prefix == Take(buf, r, 1)
        byte == prefix.got[1]
        wide == Take(buf, prefix, Widths[byte])
    IN  IF prefix.err \/ byte > 253 THEN Failed(prefix)
        ELSE IF byte < 251 THEN [prefix EXCEPT !.got = Padded(<<byte>>)]
        ELSE IF wide.err THEN wide ELSE [wide EXCEPT !.got = Padded(@)]

(* Every element takes a byte, so a length beyond the rest is malformed.   *)
Length(buf, r) ==
    LET v == VarInt(buf, r)
    IN  IF v.err \/ ~IsSmall(v.got) \/ NumberOf(v.got) > Len(buf) - v.off THEN Failed(v)
        ELSE [v EXCEPT !.got = NumberOf(@)]

(* The words of a vector.                                                  *)
AddWord(buf, s) ==
    LET v == VarInt(buf, s.reader)
    IN  [reader |-> v, words |-> Append(s.words, v.got)]

AddWords(buf, n) ==
    FoldLeft(LAMBDA s, i : AddWord(buf, s), [reader |-> n, words |-> <<>>], [i \in 1..n.got |-> i])

Words(buf, r) ==
    LET n == Length(buf, r)
        all == AddWords(buf, n)
    IN  IF n.err THEN n ELSE [all.reader EXCEPT !.got = all.words]

(* AnswersFaithful: the words are taken for bytes.                         *)
SkipBytes(buf, r) ==
    LET n == Length(buf, r)
    IN  IF n.err THEN n ELSE Take(buf, n, n.got)

SkipWords(buf, r) == Words(buf, r)

Utf8(buf, r) ==
    LET n == Length(buf, r)
    IN  IF n.err THEN n ELSE Take(buf, n, n.got)

----------------------------------------------------------------------------
(* The transcoding: [ok, proof], the proof the bytes of the verifier's.    *)

AppendWords(words) == FlattenSeq(words)

Fixed(proof, publics) ==
    WordOf(Len(proof)) \o AppendWords(proof)
    \o WordOf(1 + Len(publics)) \o WordOf(1) \o AppendWords(publics)
    \o <<0>> \o WordOf(Len(HashFamily)) \o HashFamily

(* The fields of a vadcop body, each read where the one before it ended.   *)
BodyFields == <<"proof", "ziskVK", "kind", "hash", "publics", "vk">>

ReadField(buf, r, field) ==
    CASE field = "ziskVK" -> SkipWords(buf, r)
      [] field = "kind" -> VarInt(buf, r)
      [] field = "hash" -> Utf8(buf, r)
      [] OTHER -> Words(buf, r)

AddField(buf, body, field) ==
    LET f == ReadField(buf, body.reader, field)
    IN  [reader |-> f, fields |-> [body.fields EXCEPT ![field] = f.got]]

ReadBody(buf, r) ==
    FoldLeft(LAMBDA body, field : AddField(buf, body, field),
             [reader |-> r, fields |-> [field \in Range(BodyFields) |-> <<>>]], BodyFields)

Refused == [ok |-> FALSE, proof |-> <<>>]

Accepted(body) ==
    /\ body.kind = WordOf(0) /\ body.hash = HashFamily
    /\ Len(body.vk) = VKWords
    /\ Len(body.publics) = VKWords + ValueWords

TranscodeProof(envelope) ==
    LET variant == VarInt(envelope, Start)
        body == ReadBody(envelope, variant)
    IN  IF \/ Len(envelope) > MaxBytes
           \/ variant.got # WordOf(0)
           \/ body.reader.err
           \/ ~Accepted(body.fields)
        THEN Refused
        ELSE [ok |-> TRUE, proof |-> Fixed(body.fields.proof, body.fields.publics)]

----------------------------------------------------------------------------
(* What a coordinator writes: bincode's shortest form of every integer.    *)

EncodeVarInt(word) ==
    LET zeroFrom(i) == \A j \in i..WordBytes : word[j] = 0
    IN  IF zeroFrom(2) /\ word[1] < 251 THEN <<word[1]>>
        ELSE IF zeroFrom(3) THEN <<251>> \o SubSeq(word, 1, 2)
        ELSE IF zeroFrom(5) THEN <<252>> \o SubSeq(word, 1, 4)
        ELSE <<253>> \o word

EncodeWords(words) ==
    EncodeVarInt(WordOf(Len(words))) \o FlattenSeq([i \in DOMAIN words |-> EncodeVarInt(words[i])])

(* A proof is [proof, ziskVK, kind, hash, publics, vk].                    *)
EncodeProof(p) ==
    EncodeVarInt(WordOf(0)) \o EncodeWords(p.proof) \o EncodeWords(p.ziskVK)
    \o EncodeVarInt(WordOf(p.kind)) \o EncodeVarInt(WordOf(Len(p.hash))) \o p.hash
    \o EncodeWords(p.publics) \o EncodeWords(p.vk)

Acceptable(p) ==
    /\ p.kind = 0 /\ p.hash = HashFamily
    /\ Len(p.vk) = VKWords /\ Len(p.publics) = VKWords + ValueWords

(* EnvelopeFaithful: a whole envelope transcodes to the fixed-width form   *)
(* of exactly the proof and the public values that it holds when its       *)
(* flavour is the accepted one, and to an error otherwise; no prefix of    *)
(* one that ends before the program vk does transcodes, whatever lengths   *)
(* and markers the cut leaves behind, and what follows the program vk is   *)
(* never read (zisk/proof.go:44).                                          *)
EnvelopeFaithful(p, cut, trailing) ==
    LET whole == EncodeProof(p)
        envelope == SubSeq(whole, 1, Len(whole) - cut) \o (IF cut = 0 THEN trailing ELSE <<>>)
    IN  TranscodeProof(envelope) =
            IF cut = 0 /\ Acceptable(p) /\ Len(envelope) <= MaxBytes
            THEN [ok |-> TRUE, proof |-> Fixed(p.proof, p.publics)] ELSE Refused
=============================================================================
