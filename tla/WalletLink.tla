------------------------------ MODULE WalletLink ------------------------------
(***************************************************************************)
(* Wallets attached to an account: a challenge is issued for an address,   *)
(* the wallet signs it, linkWallet spends the challenge and stores a       *)
(* verified row; an address may also be watched without proof, renamed and *)
(* disconnected.  Requests overlap, stop anywhere and are repeated.        *)
(*                                                                         *)
(* linkWallet hands the driver an EvmAddress where the other paths hand it *)
(* a string; the driver stores the object's JSON.  The two are different   *)
(* texts for one address: <<"object", a>> and <<"plain", a>>.              *)
(*                                                                         *)
(* The opt-in each call checks first may be switched at any time, its own  *)
(* refusal being commented out; every account is taken to have it on.      *)
(***************************************************************************)
EXTENDS Integers

CONSTANTS Owners, Addresses,
          Claimed,     \* bound: the addresses the accounts ask for, among Addresses
          MaxNonces,   \* bound: challenges ever issued; nonces are 1..MaxNonces
          Links,       \* bound: linkWallet calls under way at once
          NoRow

ASSUME WalletAssumption ==
  /\ MaxNonces \in Nat /\ Claimed \subseteq Addresses /\ Claimed # Addresses
  /\ NoRow \notin [status : {"verified", "watch-only"}, revoked : BOOLEAN]
  /\ NoRow \notin [user : Owners, address : Addresses]

VARIABLES
  challenge,   \* link_challenges: the state of each nonce
  wallet,      \* linked_wallets, by (user_id, address)
  link,        \* per slot, the linkWallet call under way
  edit,        \* a rename or a disconnection between its read and its save
  issued,      \* history: what each nonce was issued for
  signed,      \* history: the messages claimed wallets signed, as <<nonce, key>>
  proved       \* history: how many rows each nonce was accepted for

walletVars == <<challenge, wallet, link, edit, issued, signed, proved>>

Nonces == 1..MaxNonces
Spellings == {"plain", "object"} \X Addresses
Row == [status : {"verified", "watch-only"}, revoked : BOOLEAN]
Claim == [user : Owners, address : Addresses]
Attempt == [user : Owners, nonce : Nonces, signer : Addresses]
RowKeys == Owners \X Spellings

WalletInit ==
  /\ challenge = [n \in Nonces |-> "none"]
  /\ wallet = [k \in RowKeys |-> NoRow]
  /\ link = [l \in Links |-> [at |-> "idle"]] /\ edit = [at |-> "idle"]
  /\ issued = [n \in Nonces |-> NoRow] /\ signed = {} /\ proved = [n \in Nonces |-> 0]

----------------------------------------------------------------------------
(* Challenges *)
\* issueChallenge; the sweep it starts drops what is expired or spent, or fails.
IssueChallenge(u, a) ==
  /\ \E n \in Nonces :
       /\ issued[n] = NoRow /\ \A m \in 1..(n - 1) : issued[m] # NoRow
       /\ issued' = [issued EXCEPT ![n] = [user |-> u, address |-> a]]
       /\ \E stale \in {{}, {m \in Nonces : challenge[m] \in {"expired", "spent"}}} :
            challenge' = [m \in Nonces |-> CASE m = n -> "live"
                                             [] m \in stale -> "none"
                                             [] OTHER -> challenge[m]]
  /\ UNCHANGED <<wallet, link, edit, signed, proved>>

\* Five minutes pass.
Expire(n) ==
  /\ challenge[n] = "live" /\ challenge' = [challenge EXCEPT ![n] = "expired"]
  /\ UNCHANGED <<wallet, link, edit, issued, signed, proved>>

----------------------------------------------------------------------------
(* linkWallet *)
To(l, state) == link' = [link EXCEPT ![l] = state]

\* A wallet signs a message that was issued, or did before; the key it has selected, the
\* message and the account that submits it need not be those of the nonce. The message is
\* rebuilt from the row of the nonce: over another text the signature recovers to an
\* address that is nobody's.
SubmitSignature(l, u, n, over, key) ==
  /\ link[l].at = "idle" /\ issued[n] # NoRow /\ issued[over] # NoRow
  /\ signed' = signed \cup ({<<over, key>>} \cap (Nonces \X Claimed))
  /\ \E signer \in IF over = n THEN {key} ELSE Addresses \ Claimed :
       To(l, [at |-> "consume", try |-> [user |-> u, nonce |-> n, signer |-> signer]])
  /\ UNCHANGED <<challenge, wallet, edit, issued, proved>>

\* Mutant: the update does not ask whether the challenge was spent already.
UnspentOrSpent(n) == challenge[n] # "none"
Unspent(n) == challenge[n] \in {"live", "expired"}

\* Mutant: a signature that recovers to anything is taken.
RecoversAtAll(try) == TRUE
Recovers(try) == try.signer = issued[try.nonce].address

\* consume, and every check of what it returned. An expired challenge and one of
\* somebody else's is spent all the same.
ConsumeChallenge(l) ==
  /\ link[l].at = "consume"
  /\ LET try == link[l].try
         n == try.nonce
     IN  IF ~Unspent(n) THEN To(l, [at |-> "idle"]) /\ UNCHANGED challenge
         ELSE /\ challenge' = [challenge EXCEPT ![n] = "spent"]
              /\ To(l, IF challenge[n] # "expired" /\ issued[n].user = try.user /\ Recovers(try)
                       THEN [at |-> "find", try |-> try] ELSE [at |-> "idle"])
  /\ UNCHANGED <<wallet, edit, issued, signed, proved>>

\* findByAddress looks for the string. Which row the new one takes its id from:
FindWallet(l) ==
  /\ link[l].at = "find"
  /\ LET try == link[l].try
         found == wallet[<<try.user, <<"plain", try.signer>>>>]
     IN  To(l, [at |-> "save", try |-> try, id |-> IF found = NoRow THEN "object" ELSE "plain"])
  /\ UNCHANGED <<challenge, wallet, edit, issued, signed, proved>>

\* save: an upsert on (user_id, address). A new row under the id of the one it found
\* meets the primary key instead and the request fails.
SaveVerified(l) ==
  /\ link[l].at = "save"
  /\ LET try == link[l].try
         k == <<try.user, <<"object", try.signer>>>>
     IN  IF wallet[k] = NoRow /\ link[l].id = "plain"
         THEN UNCHANGED <<wallet, proved>>
         ELSE /\ wallet' = [wallet EXCEPT ![k] = [status |-> "verified", revoked |-> FALSE]]
              /\ proved' = [proved EXCEPT ![try.nonce] = @ + 1]
  /\ To(l, [at |-> "idle"])
  /\ UNCHANGED <<challenge, edit, issued, signed>>

StopLink(l) ==
  /\ link[l].at # "idle" /\ To(l, [at |-> "idle"])
  /\ UNCHANGED <<challenge, wallet, edit, issued, signed, proved>>

----------------------------------------------------------------------------
(* manage-wallets: watch, rename, disconnect *)
\* watchAddress: the check for a wallet already linked is commented out.
WatchAddress(u, a) ==
  /\ wallet' = [wallet EXCEPT ![<<u, <<"plain", a>>>>] = [status |-> "watch-only", revoked |-> FALSE]]
  /\ UNCHANGED <<challenge, link, edit, issued, signed, proved>>

\* find, of one's own active wallet: renamed (the name is left out), or revoked.
OpenWallet(k, revoke) ==
  /\ edit.at = "idle" /\ wallet[k] # NoRow /\ ~wallet[k].revoked
  /\ edit' = [at |-> "save", key |-> k, copy |-> [wallet[k] EXCEPT !.revoked = revoke]]
  /\ UNCHANGED <<challenge, wallet, link, issued, signed, proved>>

SaveWallet ==
  /\ edit.at = "save" /\ wallet' = [wallet EXCEPT ![edit.key] = edit.copy]
  /\ edit' = [at |-> "idle"]
  /\ UNCHANGED <<challenge, link, issued, signed, proved>>

StopEdit ==
  /\ edit.at = "save" /\ edit' = [at |-> "idle"]
  /\ UNCHANGED <<challenge, wallet, link, issued, signed, proved>>

WalletNext ==
  \/ \E u \in Owners, a \in Claimed : IssueChallenge(u, a) \/ WatchAddress(u, a)
  \/ \E n \in Nonces : Expire(n)
  \/ \E l \in Links :
       \/ \E u \in Owners, n, over \in Nonces, key \in Addresses : SubmitSignature(l, u, n, over, key)
       \/ ConsumeChallenge(l) \/ FindWallet(l) \/ SaveVerified(l) \/ StopLink(l)
  \/ \E k \in RowKeys, revoke \in BOOLEAN : OpenWallet(k, revoke)
  \/ SaveWallet \/ StopEdit

WalletSpec == WalletInit /\ [][WalletNext]_walletVars

----------------------------------------------------------------------------
WalletTypeOK ==
  /\ challenge \in [Nonces -> {"none", "live", "expired", "spent"}]
  /\ wallet \in [RowKeys -> Row \cup {NoRow}]
  /\ link \in [Links -> [at : {"idle"}] \cup [at : {"consume", "find"}, try : Attempt]
                        \cup [at : {"save"}, try : Attempt, id : {"plain", "object"}]]
  /\ edit \in [at : {"idle"}] \cup [at : {"save"}, key : RowKeys, copy : Row]
  /\ issued \in [Nonces -> Claim \cup {NoRow}] /\ signed \subseteq Nonces \X Claimed
  /\ proved \in [Nonces -> Nat]

\* "of two requests submitting the same signature, exactly one matches a row"
\* (repository.ts:184-188): whatever is resubmitted, overlaps, expires or is swept, a
\* nonce is accepted for a wallet at most once.
NonceProvesOnce == \A n \in Nonces : proved[n] <= 1

\* A row that says verified belongs to an account that was issued a challenge for the
\* address and got that message signed by the address's key; watching, renaming,
\* disconnecting and signatures over other nonces never make one.
VerifiedWasSigned ==
  \A u \in Owners, a \in Addresses : \A text \in {"plain", "object"} :
    LET row == wallet[<<u, <<text, a>>>>]
    IN  row # NoRow /\ row.status = "verified" =>
          \E n \in Nonces : issued[n] = [user |-> u, address |-> a] /\ <<n, a>> \in signed
=============================================================================
