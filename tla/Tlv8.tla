-------------------------------- MODULE Tlv8 ---------------------------------
(***************************************************************************)
(* The type-length-value encoding of HAP (internal/hap/tlv8.go).  A value  *)
(* longer than Fragment bytes is split over consecutive items of its type. *)
(***************************************************************************)
EXTENDS Integers, SequencesExt

CONSTANT Fragment            \* 255 in the code: the longest value of an item

ASSUME Tlv8Assumption == Fragment \in Nat \ {0}

TLV8Item(type, value) == [type |-> type, value |-> value]

\* One item: full fragments as long as more than Fragment bytes are left, then
\* the rest, which may be a full fragment itself.
EncodeItem(item) ==
  LET n == Len(item.value)
      fragments == IF n = 0 THEN 1 ELSE (n + Fragment - 1) \div Fragment
      Piece(k) == SubSeq(item.value, (k - 1) * Fragment + 1, Min({k * Fragment, n}))
  IN  FlattenSeq([k \in 1 .. fragments |-> <<item.type, Len(Piece(k))>> \o Piece(k)])

TLV8Encode(items) == FlattenSeq([i \in DOMAIN items |-> EncodeItem(items[i])])

\* The items as they stand in data from position i on; ok says that none of them
\* is cut short.
Items(data) ==
  LET from[i \in 1 .. Len(data) + 1] ==
        IF i > Len(data) THEN [ok |-> TRUE, items |-> <<>>]
        ELSE IF i = Len(data) \/ i + 1 + data[i + 1] > Len(data)
          THEN [ok |-> FALSE, items |-> <<>>]
        ELSE LET end == i + 1 + data[i + 1]
                 rest == from[end + 1]
             IN  [ok |-> rest.ok,
                  items |-> <<TLV8Item(data[i], SubSeq(data, i + 2, end))>> \o rest.items]
  IN  from[1]

\* Does an item continue the value before it?  A full one does, and one that
\* follows full ones.
Continues(last, item) ==
  last.type = item.type /\ (Len(item.value) = Fragment \/ Len(last.value) % Fragment = 0)

Merge(items, item) ==
  IF items # <<>> /\ Continues(Last(items), item)
    THEN Front(items) \o <<TLV8Item(item.type, Last(items).value \o item.value)>>
    ELSE Append(items, item)

TLV8Decode(data) ==
  [ok |-> Items(data).ok, items |-> FoldLeft(Merge, <<>>, Items(data).items)]

\* The value of the first item of a type, or nil, which is empty here too.
TLV8GetBytes(items, type) ==
  LET k == SelectInSeq(items, LAMBDA item : item.type = type)
  IN  IF k = 0 THEN <<>> ELSE items[k].value

=============================================================================
