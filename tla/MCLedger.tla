------------------------------ MODULE MCLedger ------------------------------
(* Signer sets and access lists for the runs of Ledger.                     *)
EXTENDS Ledger, TLC

Signer(kind, resource, key) == [kind |-> kind, resource |-> resource, key |-> key]

(* Every user signs with its own key, and the genesis key is there: what    *)
(* remains are the money and the games.                                     *)
AllSign ==
  { { Signer("Direct", u, u) : u \in Users } \cup { Signer("Direct", Config, Genesis) } }

AllWritable == { [r \in Resources |-> "Write"] }

(* The genesis key, and for each user of the signers' sets one signature    *)
(* pointer or one witness with some key that is or will be its lock's.      *)
MixedSigners ==
  LET over(u) == { Signer(kind, u, key) : kind \in {"SigPtr", "Direct"}, key \in NewLocks \cup {u} }
      genesis == Signer("Direct", Config, Genesis)
  IN  { {genesis} } \cup UNION { { {genesis, s}, {s} } : s \in UNION { over(u) : u \in Users } }
        \cup UNION { { {s, t} : s \in over(u), t \in over(u) } : u \in Users }

(* Everything writable, or all but one resource, which is only read or not  *)
(* attached at all.                                                         *)
OneLimited ==
  AllWritable \cup { [r \in Resources |-> IF r = only THEN mode ELSE "Write"] :
                       only \in Resources, mode \in {"Read", "Absent"} }

UserSymmetry == Permutations(Users)

=============================================================================
