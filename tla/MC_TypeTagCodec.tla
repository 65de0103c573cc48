--------------------------- MODULE MC_TypeTagCodec --------------------------
EXTENDS TypeTagCodec, TLC

CONSTANTS noTag, panic

(* Two spellings of address 0x1 and its full form.                         *)
MCAddressNormal == ("0x1" :> "0x0001") @@ ("0x01" :> "0x0001")
                   @@ ("0x0001" :> "0x0001")

U8 == [kind |-> "u8"]
Struct(a, ps) == [kind |-> "struct", address |-> <<a>>, module |-> <<"m">>,
                  name |-> <<"n">>, params |-> ps]
Vec(t) == [kind |-> "vector", elem |-> t]

(* Tags nested two deep, with up to two parameters at the first level.    *)
Tags0 == {U8} \cup {Struct(a, <<>>) : a \in {"0x1", "0x01"}}
Tags1 == Tags0 \cup {Vec(t) : t \in Tags0}
         \cup {Struct("0x1", <<t>>) : t \in Tags0}
         \cup {Struct("0x01", <<t, u>>) : t, u \in Tags0}
Tags2 == Tags1 \cup {Vec(t) : t \in Tags1} \cup {Struct("0x1", <<t>>) : t \in Tags1}

(* Strings a caller may hand to the parser: the printed and the canonical *)
(* forms of those tags, and malformed ones.                                *)
Malformed ==
    { <<"0x1", ":", ":", "m", ":", ":", "n", "<", "u8">>,
      <<"0x1", ":", ":", "m", ":", ":", "n", ">">>,
      <<"0x1", ":", ":", "m", ":", ":", "n", "<", "u8", ">", "u8">>,
      <<"0x1", ":", ":", "m", ":", ":", "n", "<", "u8", ">", ">">>,
      <<"0x1", ":", ":", "m", ":", ":", "n", "<", "0x1", ":", ":", "m", ":",
        ":", "n", ">", ",", "u8", "<", ">">>,
      <<"vector", "<", "u8">>,
      <<"0x1", ":", ":", "m">>,
      <<"u8", ",", "u8">> }

MCTags == Tags2

MCInputs == {TagToString(t) : t \in Tags2} \cup {CanonicalString(t) : t \in Tags1}
            \cup Malformed
=============================================================================
