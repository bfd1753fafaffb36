---------------------------- MODULE NftPosition ----------------------------
(***************************************************************************)
(* The program nebula-nft-position: a record for each position NFT, with   *)
(* its owner and whether it may be transferred.  The NFT is an ordinary    *)
(* token: its holders move it and burn it, and its minter, who stays the   *)
(* mint authority, mints more of it, without the program.                  *)
(*                                                                         *)
(* minter, minted, burnt and freed are history: who made a mint, how many  *)
(* tokens of it were minted, how many were burnt without the program, and  *)
(* the mints that were ever transferable.                                  *)
(***************************************************************************)
EXTENDS FullMath, FiniteSetsExt, Functions

CONSTANTS
  Wallets, NftMints,
  MaxSupply,       \* model bound: tokens minted of one mint
  MaxNftOps        \* model bound: instructions executed

VARIABLES
  nft_record,      \* NftPositionRecord of each mint, {} without
  nft_tokens,      \* the tokens of a mint that a wallet's associated account holds
  treasury_fees,   \* mint fees the treasury has received
  minter, minted, burnt, freed, nft_ops

nftVars == <<nft_record, nft_tokens, treasury_fees, minter, minted, burnt, freed, nft_ops>>

ASSUME NftAssumption == IsFiniteSet(Wallets) /\ IsFiniteSet(NftMints) /\ MaxSupply \in Nat

mint_position_nft(w, m) ==
  /\ minter[m] = {}
  /\ treasury_fees' = treasury_fees + 1
  /\ nft_tokens' = [nft_tokens EXCEPT ![m][w] = 1]
  /\ nft_record' = [nft_record EXCEPT ![m] = {[owner |-> w, transferable |-> FALSE]}]
  /\ minter' = [minter EXCEPT ![m] = {w}]
  /\ minted' = [minted EXCEPT ![m] = 1]
  /\ UNCHANGED <<burnt, freed>>

\* mutant: whoever holds the token may burn it, and nothing is burnt
mut_burn_position_nft(w, m) ==
  \E r \in nft_record[m] :
    /\ nft_tokens[m][w] > 0
    /\ nft_record' = [nft_record EXCEPT ![m] = {}]
    /\ UNCHANGED <<nft_tokens, treasury_fees, minter, minted, burnt, freed>>

burn_position_nft(w, m) ==
  \E r \in nft_record[m] :
    /\ r.owner = w /\ nft_tokens[m][w] > 0
    /\ nft_tokens' = [nft_tokens EXCEPT ![m][w] = @ - 1]
    /\ nft_record' = [nft_record EXCEPT ![m] = {}]
    /\ UNCHANGED <<treasury_fees, minter, minted, burnt, freed>>

set_transferable(m, transferable) ==
  \E r \in nft_record[m] :
    /\ nft_record' = [nft_record EXCEPT ![m] = {[r EXCEPT !.transferable = transferable]}]
    /\ freed' = IF transferable THEN freed \cup {m} ELSE freed
    /\ UNCHANGED <<nft_tokens, treasury_fees, minter, minted, burnt>>

\* mutant: a position that is bound to its owner is transferred all the same
mut_transferable(r) == TRUE

transferable(r) == r.transferable

transfer_position(w, m, v) ==
  \E r \in nft_record[m] :
    /\ transferable(r) /\ r.owner = w /\ nft_tokens[m][w] > 0
    /\ nft_tokens' = [nft_tokens EXCEPT ![m][w] = @ - 1, ![m][v] = @ + 1]
    /\ nft_record' = [nft_record EXCEPT ![m] = {[r EXCEPT !.owner = v]}]
    /\ UNCHANGED <<treasury_fees, minter, minted, burnt, freed>>

\* The token program: a plain transfer, a plain burn, which leaves the record, and
\* the mint authority mints again.
token_transfer(w, m, v) ==
  /\ nft_tokens[m][w] > 0
  /\ nft_tokens' = [nft_tokens EXCEPT ![m][w] = @ - 1, ![m][v] = @ + 1]
  /\ UNCHANGED <<nft_record, treasury_fees, minter, minted, burnt, freed>>

token_burn(w, m) ==
  /\ nft_tokens[m][w] > 0
  /\ nft_tokens' = [nft_tokens EXCEPT ![m][w] = @ - 1]
  /\ burnt' = [burnt EXCEPT ![m] = @ + 1]
  /\ UNCHANGED <<nft_record, treasury_fees, minter, minted, freed>>

token_mint_to(w, m) ==
  /\ w \in minter[m] /\ minted[m] < MaxSupply
  /\ nft_tokens' = [nft_tokens EXCEPT ![m][w] = @ + 1]
  /\ minted' = [minted EXCEPT ![m] = @ + 1]
  /\ UNCHANGED <<nft_record, treasury_fees, minter, burnt, freed>>

NftStep ==
  \E m \in NftMints :
    \/ \E w \in Wallets : \/ mint_position_nft(w, m) \/ burn_position_nft(w, m)
                          \/ token_mint_to(w, m) \/ token_burn(w, m)
    \/ \E b \in BOOLEAN : set_transferable(m, b)
    \/ \E w \in Wallets : \E v \in Wallets \ {w} :
         transfer_position(w, m, v) \/ token_transfer(w, m, v)

NftNext == nft_ops < MaxNftOps /\ nft_ops' = nft_ops + 1 /\ NftStep

NftInit ==
  /\ nft_record = [m \in NftMints |-> {}]
  /\ nft_tokens = [m \in NftMints |-> [w \in Wallets |-> 0]]
  /\ treasury_fees = 0 /\ nft_ops = 0
  /\ minter = [m \in NftMints |-> {}] /\ minted = [m \in NftMints |-> 0]
  /\ burnt = [m \in NftMints |-> 0] /\ freed = {}

(***************************************************************************)
(* Properties.                                                             *)
(***************************************************************************)
\* A position that was never made transferable has the owner who minted it,
\* wherever its token has gone.
Soulbound ==
  \A m \in NftMints \ freed : \A r \in nft_record[m] : minter[m] = {r.owner}

\* Every token of a mint is with a wallet, was burnt by a holder without the program,
\* which leaves the record, or went with the record: a record is gone only with a token
\* of its owner's.  Every record ever made has paid its fee.
TokenPerRecord ==
  /\ \A m \in NftMints :
       minted[m] - SumFunctionOnSet(nft_tokens[m], Wallets)
         = burnt[m] + (IF minter[m] # {} /\ nft_record[m] = {} THEN 1 ELSE 0)
  /\ treasury_fees = Cardinality({m \in NftMints : minter[m] # {}})
=============================================================================
