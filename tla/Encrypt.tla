------------------------------ MODULE Encrypt ------------------------------
(***************************************************************************)
(* The encrypting layer, src/src/layers/encrypt.c: its header, its cipher  *)
(* and the block of the base device that a block of it lies in.  Aggregate *)
(* has the device that it is used on.                                      *)
(*                                                                         *)
(* Blowfish in ofb64 mode adds a stream of bytes to a block, which depends *)
(* on the key and on the iv only; to add it again takes it away.  So the   *)
(* contents of a block are a text and the streams that are on it.  The iv  *)
(* of a block is its number xor the base iv: for one base iv, another one  *)
(* for each block.                                                         *)
(***************************************************************************)
EXTENDS Integers

CONSTANTS
    Keys,      \* the keys a script may have
    Key,       \* the one that it creates the device with
    BaseIv,    \* the baseiv that encrypt_create drew
    Closed     \* there is no struct enc_io

ASSUME KeyAssumption == Key \in Keys

Plain(v) == [text |-> v, streams |-> {}]

(* BF_ofb64_encrypt, under the key and the base iv of io, of block which *)
Stream(io, which) == <<io.key, io.baseiv, which>>
Ofb64(x, s) == [x EXCEPT !.streams = (@ \ {s}) \cup ({s} \ @)]

(* The header that encrypt_create writes: MAGIC and mode 0, the verification *)
(* number of the key, and the base iv encrypted with it                      *)
Header(key, baseiv) == Plain([kv |-> key, baseiv |-> baseiv])
TheHeader == Header(Key, BaseIv)

(* Does encrypt_open accept block 0 as the header of a device with this key? *)
AcceptsMutant(block, key) == block = TheHeader
Accepts(block, key) == block = TheHeader /\ block.text.kv = key
Opened(block, key) == [key |-> key, baseiv |-> block.text.baseiv]

(* Where block which is on the base device, which has one more *)
BaseBlock(which) == which + 1
=============================================================================
