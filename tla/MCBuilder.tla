----------------------------- MODULE MCBuilder -----------------------------
(***************************************************************************)
(* Bounds for Builder.  Two random bytes per identifier, each 0x0f or      *)
(* 0xa0, tell the nibble order and the digit/letter split apart; setter    *)
(* arguments include the zero counter and ttl, an unrecognized profile,   *)
(* one payload of each of three domains and two security blocks.  Seven   *)
(* calls are the four required setters plus three others.                 *)
(***************************************************************************)
EXTENDS Builder

MCRandomBytes == {15, 160}
MCStrings == {<<97>>}
MCProfiles == {Variant("CriticalExec"), Unknown(9)}
MCPayloads ==
    {HeartbeatPayload(0, Variant("Ok")),
     [kind |-> "Command", payload |->
        <<[kind |-> "Ack", status |-> Variant("Received"), detail |-> << >>]>>],
     [kind |-> "Config", payload |-> << >>]}
MCSecurities ==
    {[sig_alg |-> Variant("Ed25519"), key_id |-> <<97>>, auth |-> <<1>>,
      signature |-> JunkSignature(64)],
     [sig_alg |-> Unknown(7), key_id |-> << >>, auth |-> << >>,
      signature |-> JunkSignature(3)]}
MCSignerKey == "device-1"
MCSignerKeyId == <<107>>
=============================================================================
