------------------------------- MODULE Ciphers -------------------------------
(***************************************************************************)
(* The cipher of the tunnel, kcp/cipher/little: every byte is replaced by  *)
(* what the password, a table of 256 bytes, has for it, and NewCipher      *)
(* makes the table for the way back.                                       *)
(***************************************************************************)
EXTENDS Bytes

password == [Byte -> Byte]

\* NewCipher goes through the table from 0 on: of two bytes with one code the
\* later is decoded, and what is no code is decoded as 0.
Decoded(encodePassword, v) ==
    IF \E i \in Byte : encodePassword[i] = v
    THEN CHOOSE i \in Byte :
           /\ encodePassword[i] = v
           /\ \A j \in Byte : encodePassword[j] = v => j <= i
    ELSE 0

decodePassword(encodePassword) ==
    [v \in Byte |-> Decoded(encodePassword, v)]

Encrypt(encodePassword, bs) == [i \in 1 .. Len(bs) |-> encodePassword[bs[i]]]

Decrypt(encodePassword, bs) ==
    [i \in 1 .. Len(bs) |-> decodePassword(encodePassword)[bs[i]]]

\* What RandPassword returns: every byte once, none in its own place.
RandPassword ==
    {p \in password : /\ \A i, j \in Byte : p[i] = p[j] => i = j
                      /\ \A i \in Byte : p[i] # i}
=============================================================================
