------------------------------- MODULE MCAuth -------------------------------
(* Two users born with multisig locks, 2-of-2 and 1-of-1, and the signers   *)
(* sections that bring pointers and witnesses for both together.            *)
EXTENDS Auth

BornLocks == [r \in {1, 2} |-> IF r = 1 THEN Multisig(2, <<1, 2>>) ELSE Multisig(1, <<2>>)]

SomeLocks == { Schnorr(1), Multisig(2, <<1, 3>>), Anyone }

Signer(kind, at, pubkey_idx, by) ==
  [kind |-> kind, at |-> at, pubkey_idx |-> pubkey_idx, by |-> by]

Pointer(at, pubkey_idx, by) == Signer("MultisigSchnorrSigPtr", at, pubkey_idx, by)
Witness(at, by) == Signer("MultisigPrevTxV1Witness", at, 0, by)

(* For the config, for the first user, and for the second.                  *)
ForConfig == { <<>>, <<Signer("GenesisSchnorrSigPtr", 0, 0, 9)>>, <<Signer("SchnorrSigPtr", 0, 0, 1)>>,
               <<Witness(0, 1), Pointer(0, 1, 3)>> }

ForFirst ==
  { <<>>, <<Pointer(1, 0, 1)>>, <<Pointer(1, 0, 1), Pointer(1, 1, 2)>>,
    <<Witness(1, 1), Pointer(1, 1, 2)>>, <<Pointer(1, 0, 1), Witness(1, 2)>>,
    <<Witness(1, 1), Witness(1, 3)>>, <<Witness(1, 2), Witness(1, 1)>>,
    <<Signer("SchnorrSigPtr", 1, 0, 1)>>, <<Signer("PrevTxV1Witness", 1, 0, 1)>> }

ForSecond == { <<>>, <<Witness(2, 2)>>, <<Pointer(2, 0, 2)>> }

MCSignerLists == { c \o f \o s : c \in ForConfig, f \in ForFirst, s \in ForSecond }

AllOrOneWritable == { {0, 1, 2}, {0, 1} }

=============================================================================
