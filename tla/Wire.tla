-------------------------------- MODULE Wire --------------------------------
(***************************************************************************)
(* The payloads of the protocol: serialize and deserialize of              *)
(* src/network/{Inventory,GetBlocks,PeerAddress,Handshake}.cpp and of      *)
(* Block and Transaction in src/core.                                      *)
(*                                                                         *)
(* A payload is a sequence of symbols.  An integer of any width is one     *)
(* symbol and a hash is HashSize symbols; names, keys and signatures are   *)
(* sequences of any length.  The fields, their order, the checks of the    *)
(* remaining size and the final check are those of the code.               *)
(***************************************************************************)
EXTENDS Integers, Sequences, SequencesExt

CONSTANTS
  HashSize,            \* symbols of a hash
  kMaxLocatorHashes    \* the longest locator that is answered

ASSUME WireAssumption == HashSize \in Nat \ {0} /\ kMaxLocatorHashes \in Nat

(* std::nullopt; a value has at least one field.                           *)
Nothing == <<>>

-----------------------------------------------------------------------------
(* Reading with a moving offset: a cursor holds the payload, the offset    *)
(* and the fields read so far; a read past the end makes it fail.          *)

Start(payload) == [payload |-> payload, offset |-> 0, fields |-> <<>>, ok |-> TRUE]

Field(c, n, f) == [c EXCEPT !.offset = @ + n, !.fields = Append(@, f)]

Fail(c) == [c EXCEPT !.ok = FALSE]

Fits(c, n) == c.ok /\ c.offset + n <= Len(c.payload)

Number(c) ==
  IF Fits(c, 1) THEN Field(c, 1, c.payload[c.offset + 1]) ELSE Fail(c)

ShortBytes(c, n) ==   \* faulty: a field that does not fit is cut
  LET last == IF Fits(c, n) THEN c.offset + n ELSE Len(c.payload)
      f == SubSeq(c.payload, c.offset + 1, last)
  IN  IF c.ok THEN Field(c, Len(f), f) ELSE c

Bytes(c, n) ==
  IF Fits(c, n) THEN Field(c, n, SubSeq(c.payload, c.offset + 1, c.offset + n)) ELSE Fail(c)

(* A length, then as many symbols; the length is not a field.              *)
Sized(c) ==
  LET l == Number(c)
  IN  IF l.ok THEN Bytes([l EXCEPT !.fields = c.fields], Last(l.fields)) ELSE l

(* A count, then as many entries, which become one field.                  *)
Counted(c, Read(_)) ==
  LET l == Number(c)
      run[i \in Nat] ==
        IF i = 0 THEN [l EXCEPT !.fields = <<>>]
        ELSE LET d == run[i - 1] IN IF d.ok THEN Read(d) ELSE d
      r == run[Last(l.fields)]
  IN  IF l.ok THEN [r EXCEPT !.fields = Append(c.fields, r.fields)] ELSE l

(* The value, when the payload has been used up.                           *)
AtEnd(c) == IF c.ok /\ c.offset = Len(c.payload) THEN c.fields ELSE Nothing

(* An entry that is itself a payload: it must decode on its own.           *)
Nested(c, Decode(_)) ==
  LET s == Sized(c)
      v == Decode(Last(s.fields))
  IN  IF ~s.ok THEN s
      ELSE IF v = Nothing THEN Fail(s)
      ELSE [s EXCEPT !.fields = Append(c.fields, v)]

-----------------------------------------------------------------------------
(* Writing                                                                 *)

WithSize(s) == <<Len(s)>> \o s

WithCount(s, Encode(_)) == <<Len(s)>> \o FlattenSeq([i \in DOMAIN s |-> Encode(s[i])])

-----------------------------------------------------------------------------
(* The formats.  A value is the sequence of its fields, in order.          *)

serialize_version(info) == info

deserialize_version(payload) == AtEnd(Number(Number(Number(Number(Number(Start(payload)))))))

serialize_inventory(v) ==
  LET Item(item) == <<item[1]>> \o item[2]
  IN  WithCount(v[1], Item)

deserialize_inventory(payload) ==
  LET Item(c) ==
        LET t == Number(c)
            h == Bytes(t, HashSize)
            item == <<Last(t.fields), Last(h.fields)>>
        IN  IF h.ok /\ item[1] \in {0, 1}
            THEN [h EXCEPT !.fields = Append(c.fields, item)]
            ELSE Fail(h)
  IN  AtEnd(Counted(Start(payload), Item))

serialize_getblocks(v) == WithCount(v[1], LAMBDA hash : hash)

deserialize_getblocks(payload) ==
  LET Hash(c) == Bytes(c, HashSize)
  IN  IF payload # <<>> /\ payload[1] > kMaxLocatorHashes THEN Nothing
      ELSE AtEnd(Counted(Start(payload), Hash))

serialize_peer_address(address) == <<address[1]>> \o WithSize(address[2])

deserialize_peer_address(payload) == AtEnd(Sized(Number(Start(payload))))

serialize_peer_list(v) ==
  LET Address(a) == WithSize(serialize_peer_address(a))
  IN  WithCount(v[1], Address)

deserialize_peer_list(payload) ==
  LET Address(c) == Nested(c, deserialize_peer_address)
  IN  AtEnd(Counted(Start(payload), Address))

(* amount, sender, recipient, sender_public_key, fee, nonce, signature     *)
NonceFirst(tx) ==   \* faulty: the nonce is written before the fee
  <<tx[1]>> \o WithSize(tx[2]) \o WithSize(tx[3]) \o WithSize(tx[4]) \o <<tx[6], tx[5]>>

serialize_for_signing(tx) ==
  <<tx[1]>> \o WithSize(tx[2]) \o WithSize(tx[3]) \o WithSize(tx[4]) \o <<tx[5], tx[6]>>

serialize_tx(tx) == serialize_for_signing(tx) \o WithSize(tx[7])

deserialize_tx(payload) ==
  AtEnd(Sized(Number(Number(Sized(Sized(Sized(Number(Start(payload)))))))))

(* version, prev_hash, merkle_root, timestamp, difficulty, nonce, then the *)
(* transactions                                                            *)
serialize_block(block) ==
  LET Tx(tx) == WithSize(serialize_tx(tx))
  IN  <<block[1]>> \o block[2] \o block[3] \o <<block[4], block[5], block[6]>>
        \o WithCount(block[7], Tx)

deserialize_block(payload) ==
  LET header == Bytes(Bytes(Number(Start(payload)), HashSize), HashSize)
      Tx(c) == Nested(c, deserialize_tx)
  IN  AtEnd(Counted(Number(Number(Number(header))), Tx))
=============================================================================
