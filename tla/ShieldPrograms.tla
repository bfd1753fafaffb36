--------------------------- MODULE ShieldPrograms ---------------------------
(***************************************************************************)
(* The shield of the pool program, the program nebula-shield and the       *)
(* program nebula-nft-position.  No instruction of one calls another, so   *)
(* a behaviour is one of the three with the others at rest: focus.         *)
(***************************************************************************)
EXTENDS ShieldHooks, NebulaShield, NftPosition

VARIABLE focus

vars == <<hookVars, shieldVars, nftVars, focus>>

Init ==
  /\ focus \in {"hooks", "shield", "nft"}
  /\ HooksInit /\ ShieldInit /\ NftInit
  /\ focus # "hooks" => observed = <<>>

Next ==
  /\ UNCHANGED focus
  /\ \/ focus = "hooks" /\ HooksNext /\ UNCHANGED <<shieldVars, nftVars>>
     \/ focus = "shield" /\ ShieldNext /\ UNCHANGED <<hookVars, nftVars>>
     \/ focus = "nft" /\ NftNext /\ UNCHANGED <<hookVars, shieldVars>>

Spec == Init /\ [][Next]_vars

(***************************************************************************)
(* What nebula-shield and nebula-nft-position keep over any sequence of    *)
(* instructions: a shield's settings stay acceptable over partial updates, *)
(* the program's totals are those of its shields (update_config.rs,        *)
(* arb_sweep.rs), no guard locks longer than MAX_LOCK_SLOTS (check_jit.rs, *)
(* jit_protection.rs), a position bound to its owner keeps it and a record *)
(* goes only with a token (transfer_position.rs, burn_nft.rs).             *)
(***************************************************************************)
ProgramsSound ==
  /\ SettingsAccepted /\ TotalsOfShields /\ LockBounded
  /\ Soulbound /\ TokenPerRecord
=============================================================================
