------------------------------- MODULE Session -------------------------------
(***************************************************************************)
(* The key a page holds in memory (packages/client/src/keys/keyCache.ts),  *)
(* the sign-in and sign-out around it (apps/wallet-web/src/ui/App.tsx) and *)
(* the scans that read with it (packages/client/src/scan/session.ts).      *)
(*                                                                         *)
(* A signature popup stays open for as long as the user likes; meanwhile   *)
(* the account may change, the user may sign out, the page may reload, and *)
(* a scan goes on that was started before.  An account and the identity    *)
(* its signature derives are one value.  The watcher of the wallet is told *)
(* of a change of account in the step that makes it.                       *)
(***************************************************************************)
EXTENDS Naturals, FiniteSets

CONSTANTS Account,   \* the wallet's accounts
          NoAccount, \* no account, no owner
          Idle,      \* the age at which an unused key is expired
          MaxAsks    \* bound on what the user asks for

ASSUME SessionAssumption == NoAccount \notin Account /\ Idle \in Nat \ {0} /\ MaxAsks \in Nat

VARIABLES signer,    \* whether a popup is answered by the account "asked" or "selected"
          selected,  \* the wallet's account, as the page sees it
          last,      \* the account the watcher saw connected last
          session,   \* whose session the page is in
          address,   \* the account it was opened with
          known,     \* the key each account derived when it last logged in
          held,      \* the key in memory
          op,        \* the action that asked for the key
          login,     \* the account a login was opened with
          stamp,     \* whose scan is in memory
          scanning,  \* whose scans are under way
          rows,      \* whose scans are stored on the device
          asks       \* how often the user asked for something

wallet == <<signer, selected, last>>
signIn == <<session, address, known, login>>
scans == <<stamp, scanning, rows>>
sessionVars == <<wallet, signIn, held, op, scans, asks>>

Owner == Account \cup {NoAccount}

NoKey == [identity |-> NoAccount, account |-> NoAccount, session |-> NoAccount,
          stealth |-> NoAccount, age |-> 0, under |-> NoAccount]

NoOp == [pc |-> "none", session |-> NoAccount, address |-> NoAccount, stealth |-> FALSE,
         account |-> NoAccount, same |-> FALSE, key |-> NoAccount, stealthKey |-> NoAccount]

Expired == held /= NoKey /\ held.age >= Idle

\* A new key takes the place of the one held, which an action may be looking at.
Hold(key, action) == held' = key /\ op' = [action EXCEPT !.same = FALSE]

lock(action) == Hold(NoKey, action)

\* Whose key a signature yields: the wallet's account, or the one it was asked for.
Signed(asked) == IF signer = "asked" THEN asked ELSE selected

Popup(pc) == op.pc = pc /\ selected /= NoAccount

\* The account "under" which a key was made is the wallet's; the code does not keep it.
Key(identity, account, owner) ==
    [identity |-> identity, account |-> account, session |-> owner,
     stealth |-> NoAccount, age |-> 0, under |-> selected]

Asked == asks < MaxAsks /\ asks' = asks + 1

-----------------------------------------------------------------------------
(* The wallet and its watcher.                                             *)

\* Mutant: only a change from one account to another, with no gap, is one.
SwitchedWithoutGap(to) == selected /= NoAccount /\ selected /= to

Switched(to) == last /= NoAccount /\ last /= to

\* The wallet shows an account; if it is not the last one, the key is dropped
\* and the scan in memory with it.
accountWatchHandler(to) ==
    /\ selected /= to
    /\ selected' = to /\ last' = to
    /\ IF Switched(to) THEN lock(op) /\ UNCHANGED stamp ELSE UNCHANGED <<held, op, stamp>>
    /\ UNCHANGED <<signer, signIn, scanning, rows, asks>>

\* The extension locks, or the provider hiccups: no account, and no event for the key.
WalletGap ==
    /\ selected /= NoAccount
    /\ selected' = NoAccount
    /\ UNCHANGED <<signer, last, signIn, held, op, scans, asks>>

-----------------------------------------------------------------------------
(* The clock.                                                              *)

Tick ==
    /\ held /= NoKey /\ held.age < Idle
    /\ held' = [held EXCEPT !.age = @ + 1]
    /\ UNCHANGED <<wallet, signIn, op, scans, asks>>

\* The armed timer fires, at its time or late.
IdleWipe ==
    /\ Expired
    /\ lock(op)
    /\ UNCHANGED <<wallet, signIn, scans, asks>>

-----------------------------------------------------------------------------
(* An action of the user's takes the key; one runs at a time (OpGate).     *)

Start(stealth) ==
    /\ session /= NoAccount /\ op = NoOp
    /\ Asked
    /\ op' = [NoOp EXCEPT !.pc = "unlock", !.session = session, !.address = address,
                          !.stealth = stealth]
    /\ UNCHANGED <<wallet, signIn, held, scans>>

\* With the key there, a stealth action goes on to the stealth keys, the others are served.
Served(key, stealthKey) ==
    [op EXCEPT !.pc = IF op.stealth /\ stealthKey = NoAccount THEN "stealth" ELSE "served",
               !.same = TRUE, !.key = key, !.stealthKey = stealthKey]

Reused(key) == held' = [key EXCEPT !.age = 0] /\ op' = Served(key.identity, key.stealth)

Usable(account) ==
    held /= NoKey /\ account = held.account /\ held.session = op.session /\ ~Expired

\* The account is read, and the key reused, refused, or asked for in a popup.
unlock ==
    /\ op.pc = "unlock"
    /\ \E account \in {selected, NoAccount} :
          \/ Usable(account) /\ Reused(held)
          \/ /\ held /= NoKey /\ account \notin {NoAccount, held.account}
             /\ held' = NoKey /\ op' = NoOp
          \/ /\ ~Usable(account) /\ (held = NoKey \/ account \in {NoAccount, held.account})
             /\ lock([op EXCEPT !.pc = "derive", !.account = account])
    /\ UNCHANGED <<wallet, signIn, scans, asks>>

FiledUnder == IF op.account = NoAccount THEN op.address ELSE op.account

\* The popup is answered: the key must be the session's.
derive ==
    /\ Popup("derive")
    /\ LET identity == Signed(op.address)
       IN  IF identity = op.session
           THEN /\ held' = Key(identity, FiledUnder, op.session)
                /\ op' = Served(identity, NoAccount)
           ELSE op' = NoOp /\ UNCHANGED held
    /\ UNCHANGED <<wallet, signIn, scans, asks>>

\* The stealth popup is answered ...
deriveStealth ==
    /\ Popup("stealth")
    /\ op' = [op EXCEPT !.pc = "reread", !.stealthKey = Signed(op.address)]
    /\ UNCHANGED <<wallet, signIn, held, scans, asks>>

\* Mutant: what the popup gave is handed out as it is.
StillHeldUnchecked(account) == TRUE

StillHeld(account) == op.same /\ account /= NoAccount /\ account = held.account

\* ... and the account is read again: the hold must be the one the popup was for.
unlockStealth ==
    /\ op.pc = "reread"
    /\ \E account \in {selected, NoAccount} :
          IF StillHeld(account)
          THEN /\ held' = IF held = NoKey THEN held
                          ELSE [held EXCEPT !.stealth = op.stealthKey, !.age = 0]
               /\ op' = [op EXCEPT !.pc = "served"]
          ELSE held' = NoKey /\ op' = NoOp
    /\ UNCHANGED <<wallet, signIn, scans, asks>>

\* A popup is rejected, or the action is over.
OpEnds ==
    /\ op.pc \in {"derive", "stealth", "served"}
    /\ op' = NoOp
    /\ UNCHANGED <<wallet, signIn, held, scans, asks>>

-----------------------------------------------------------------------------
(* Signing in and out.                                                     *)

\* A login opens the wallet and asks it for the key.
connectWallet ==
    /\ session = NoAccount /\ login = NoAccount /\ selected /= NoAccount
    /\ Asked
    /\ login' = selected
    /\ UNCHANGED <<wallet, session, address, known, held, op, scans>>

\* The popup is answered: a key that is not the one this account derived before is
\* refused; the session is the key's, and the lock is seeded with it.
runLogin ==
    /\ login /= NoAccount /\ selected /= NoAccount
    /\ login' = NoAccount
    /\ LET identity == Signed(login)
       IN  IF known[login] \in {NoAccount, identity}
           THEN /\ known' = [known EXCEPT ![login] = identity]
                /\ session' = identity /\ address' = login /\ last' = selected
                /\ Hold(Key(identity, login, identity), op)
           ELSE UNCHANGED <<session, address, known, last, held, op>>
    /\ UNCHANGED <<signer, selected, scans, asks>>

LoginFails ==
    /\ login /= NoAccount
    /\ login' = NoAccount
    /\ UNCHANGED <<wallet, session, address, known, held, op, scans, asks>>

\* Signing out drops the key; an explicit Disconnect also clears the stamped owner's
\* row and forgets which key an account derived.
endSession(forget) ==
    /\ session /= NoAccount
    /\ session' = NoAccount /\ address' = NoAccount /\ last' = selected
    /\ lock(op)
    /\ rows' = IF forget THEN rows \ {stamp} ELSE rows
    /\ known' = IF forget THEN [a \in Account |-> NoAccount] ELSE known
    /\ stamp' = NoAccount
    /\ UNCHANGED <<signer, selected, login, scanning, asks>>

\* A reload loses what is in memory; the session comes back if its account is selected.
Reload ==
    /\ session' = IF selected = address THEN session ELSE NoAccount
    /\ address' = IF selected = address THEN address ELSE NoAccount
    /\ last' = selected
    /\ held' = NoKey /\ op' = NoOp /\ login' = NoAccount /\ stamp' = NoAccount /\ scanning' = {}
    /\ UNCHANGED <<signer, selected, known, rows, asks>>

-----------------------------------------------------------------------------
(* Scans, in the background and after actions.                             *)

\* Mutant: a read counts as a use.
peekAsUse == IF held = NoKey THEN held ELSE [held EXCEPT !.age = 0]

peek == held

\* A scan reads with the key if it is there; without it, it serves what it has.
Scan ==
    /\ session /= NoAccount
    /\ IF held.session = session /\ ~Expired
       THEN /\ scanning' = scanning \cup {session}
            /\ held' = peek
            /\ UNCHANGED <<stamp, rows>>
       ELSE /\ stamp' = session /\ rows' = rows \cup {session}
            /\ UNCHANGED <<scanning, held>>
    /\ UNCHANGED <<wallet, signIn, op, asks>>

\* It ends: what it found is kept and stored, whoever is signed in by now.
ScanEnds(owner) ==
    /\ scanning' = scanning \ {owner}
    /\ stamp' = owner /\ rows' = rows \cup {owner}
    /\ UNCHANGED <<wallet, signIn, held, op, asks>>

ScanFails(owner) ==
    /\ scanning' = scanning \ {owner}
    /\ UNCHANGED <<wallet, signIn, held, op, stamp, rows, asks>>

-----------------------------------------------------------------------------
SessionInit ==
    /\ signer \in {"asked", "selected"}
    /\ selected \in Account /\ last = selected
    /\ session = NoAccount /\ address = NoAccount /\ login = NoAccount
    /\ known = [a \in Account |-> NoAccount]
    /\ held = NoKey /\ op = NoOp
    /\ stamp = NoAccount /\ scanning = {} /\ rows = {}
    /\ asks = 0

SessionNext ==
    \/ \E a \in Account : accountWatchHandler(a)
    \/ WalletGap
    \/ Tick \/ IdleWipe
    \/ \E stealth \in BOOLEAN : Start(stealth)
    \/ unlock \/ derive \/ deriveStealth \/ unlockStealth \/ OpEnds
    \/ connectWallet \/ runLogin \/ LoginFails
    \/ \E forget \in BOOLEAN : endSession(forget)
    \/ Reload
    \/ Scan
    \/ \E owner \in scanning : ScanEnds(owner) \/ ScanFails(owner)

SessionSpec == SessionInit /\ [][SessionNext]_sessionVars

\* Time passes and the timer fires in the end; the user owes the page nothing.
SessionFairness == WF_sessionVars(Tick) /\ WF_sessionVars(IdleWipe)

FairSession == SessionSpec /\ SessionFairness

-----------------------------------------------------------------------------
(* What must hold.                                                         *)

\* What an action is handed, the spending key and the stealth keys, is its session's,
\* whatever account was selected while the popups were open (keyCache.ts:253), and so
\* are the stealth keys that stay in the hold.
ServedTheSessionsKeys ==
    /\ op.pc = "served" => /\ op.key = op.session
                           /\ op.stealth => op.stealthKey = op.session
    /\ held.stealth \in {NoAccount, held.session}
    /\ held.identity = held.session

\* A hold does not outlive a change of account, not even one that a gap in the
\* connection hides (edge.ts:68): what a background read peeks at was made under the
\* account that is selected.
HoldsEndWithTheSwitch ==
    held /= NoKey /\ selected /= NoAccount => selected = held.under

\* A page that is left alone locks itself, although it goes on reading in the
\* background (keyCache.ts:18).
UnattendedLocks == <>[](held = NoKey)
==============================================================================
