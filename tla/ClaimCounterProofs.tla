-------------------------- MODULE ClaimCounterProofs ------------------------
(***************************************************************************)
(* SeatSoldOnce and RevokedNotSold for any codes, machines and bounds.     *)
(***************************************************************************)
EXTENDS ClaimCounter, TLAPS

Entries ==
    [status : {"absent", "unclaimed", "claimed", "revoked"}, machine : Machines \cup {Nobody},
     claimed : Nat]
Vaults == [Codes -> Entries]
Requests == [code : Codes, machine : Machines, at : Nat, barred : BOOLEAN]
Tokens == [code : Codes, machine : Machines, claimed : Nat, arm : Nat, barred : BOOLEAN]
InDaemon == {"load", "stamp", "claim", "stamp_saved", "sign"}

TypeInv ==
    /\ endpoint \in {"daemon", "php"} /\ proc \in {"up", "down"}
    /\ pc \in InDaemon \cup {"idle", "php_write"}
    /\ proc = "up" => endpoint = "daemon"
    /\ proc = "down" => seen = Unread
    /\ pc \in InDaemon => proc = "up"
    /\ pc = "php_write" => proc = "down" /\ endpoint = "php"
    /\ pc # "idle" => req \in Requests
    /\ mem \in Vaults /\ file \in Vaults \cup {Gone, Torn}
    /\ onDisk \subseteq Vaults \cup {Gone, Torn}
    /\ copy \in Vaults \cup {Unread}
    /\ now \in Nat /\ faults \in Nat /\ arms \in [Codes -> Nat]
    /\ tokens \subseteq Tokens /\ revoked \subseteq Codes /\ born \subseteq Codes

\* What a vault knows of the seats that were sold, revoked and handed out.
Held(v, t) ==
    \/ v[t.code].status = "absent"
    \/ /\ v[t.code].status # "unclaimed"
       /\ v[t.code].machine = t.machine /\ v[t.code].claimed = t.claimed
Keeps(v) ==
    /\ \A t \in tokens : t.arm = arms[t.code] => Held(v, t)
    /\ \A c \in revoked : v[c].status \in {"absent", "revoked"}
    /\ \A c \in Codes : v[c].status # "absent" => c \in born

TokensInv ==
    /\ \A t, u \in tokens :
          t.code = u.code /\ t.arm = u.arm => t.machine = u.machine /\ t.claimed = u.claimed
    /\ \A t \in tokens : ~t.barred /\ t.arm <= arms[t.code] /\ t.code \in born
    /\ revoked \subseteq born

LedgerInv ==
    /\ Loads(file) => Keeps(file)
    /\ file = Gone /\ proc = "up" => Keeps(mem)
    /\ late \/ removed \/ endpoint = "php" \/ onDisk = {file}

\* Where the copy in memory stands to the file.
Sold(v) == v[req.code].status = "claimed" /\ v[req.code].machine = req.machine
ClaimInv ==
    /\ pc \notin {"stamp", "stamp_saved", "php_write"} => seen \in {Unread, mem}
    /\ pc = "claim" => file \in {mem, Gone}
    /\ pc = "stamp" => file = mem
    /\ pc \in {"stamp_saved", "sign"} => file = mem /\ Sold(mem)
    /\ pc = "php_write" =>
          /\ Loads(file) /\ Serves(file, req.code, req.machine)
          /\ mem = Claimed(file, req.code, req.machine, req.at)
    /\ pc # "idle" /\ req.barred => req.code \in revoked

Inv == TokensInv /\ LedgerInv /\ ClaimInv
IInv == TypeInv /\ (Excused \/ Inv)

-----------------------------------------------------------------------------
(* Vaults *)

\* With a code to tell them apart, the marks are no vaults (Vault::load).
LEMMA Marks ==
    ASSUME Codes # {}
    PROVE  /\ Gone \notin Vaults /\ Torn \notin Vaults /\ Unread \notin Vaults
           /\ Gone # Torn /\ Gone # Unread /\ Torn # Unread
           /\ Empty \in Vaults
<1> PICK c \in Codes : TRUE OBVIOUS
<1>1. /\ Gone[c].status = "gone" /\ Torn[c].status = "torn" /\ Unread[c].status = "unread"
  BY ZenonT(30) DEF Gone, Torn, Unread, All, Entry
<1>2. \A v \in Vaults : v[c].status \in {"absent", "unclaimed", "claimed", "revoked"}
  BY ZenonT(30) DEF Vaults, Entries
<1>3. Empty \in Vaults BY ZenonT(30) DEF Empty, All, Entry, Vaults, Entries, Nobody
<1> QED BY ZenonT(30), <1>1, <1>2, <1>3

\* The marks are constants.
LEMMA MarksStay == Gone' = Gone /\ Torn' = Torn /\ Unread' = Unread
BY ZenonT(30) DEF Gone, Torn, Unread, All, Entry, Nobody

\* A claim leaves a vault (Vault::claim).
LEMMA ClaimedVault ==
    ASSUME NEW v \in Vaults, NEW c \in Codes, NEW m \in Machines, NEW t \in Nat
    PROVE  Claimed(v, c, m, t) \in Vaults
<1>1. [status |-> "claimed", machine |-> m, claimed |-> t] \in Entries BY ZenonT(30) DEF Entries
<1> QED BY ZenonT(30), <1>1 DEF Claimed, Vaults

\* The vault a claim that is served leaves keeps what is known of the seats, and
\* holds the claimant's (Vault::claim: the single seat, the re-issue).
LEMMA ClaimedKeeps ==
    ASSUME TypeInv, NEW v \in Vaults, Keeps(v), NEW c \in Codes, NEW m \in Machines,
           NEW t \in Nat, Serves(v, c, m), NEW w, w = Claimed(v, c, m, t)
    PROVE  Keeps(w) /\ w[c].status = "claimed" /\ w[c].machine = m
<1>1. CASE v[c].status # "unclaimed"
  <2>1. w = v BY ZenonT(30), <1>1 DEF Claimed
  <2> QED BY ZenonT(30), <1>1, <2>1 DEF Serves
<1>2. CASE v[c].status = "unclaimed"
  <2>1. w[c] = [status |-> "claimed", machine |-> m, claimed |-> t]
    BY ZenonT(30), <1>2 DEF Claimed, Vaults
  <2>2. \A k \in Codes : k # c => w[k] = v[k] BY ZenonT(30) DEF Claimed, Vaults
  <2>3. \A u \in tokens : u.arm = arms[u.code] => u.code # c
    BY ZenonT(30), <1>2 DEF Keeps, Held
  <2>4. c \notin revoked BY ZenonT(30), <1>2 DEF Keeps
  <2>5. \A u \in tokens : u.code \in Codes BY ZenonT(30) DEF TypeInv, Tokens
  <2>6. \A u \in tokens : u.arm = arms[u.code] => Held(w, u)
    BY ZenonT(30), <2>2, <2>3, <2>5 DEF Keeps, Held
  <2>7. \A k \in revoked : w[k].status \in {"absent", "revoked"}
    BY ZenonT(30), <2>2, <2>4 DEF Keeps, TypeInv
  <2>8. \A k \in Codes : w[k].status # "absent" => k \in born
    BY ZenonT(30), <1>2, <2>2 DEF Keeps
  <2> QED BY <2>1, <2>6, <2>7, <2>8 DEF Keeps
<1> QED BY ZenonT(30), <1>1, <1>2

-----------------------------------------------------------------------------
(* Types *)

\* The initial states are well typed.
LEMMA TypeInit == ASSUME Codes # {} PROVE Init => TypeInv
<1> SUFFICES ASSUME Init PROVE TypeInv OBVIOUS
<1> DEFINE k == CHOOSE k \in Codes : TRUE
<1>1. k \in Codes OBVIOUS
<1>2. [Empty EXCEPT ![k] = Entry("unclaimed")] \in Vaults
  BY ZenonT(30), <1>1, Marks DEF Vaults, Entries, Entry, Nobody
<1>3. file \in Vaults /\ onDisk = {file} /\ born = {k} BY ZenonT(30), <1>2 DEF Init
<1>4. mem \in Vaults BY ZenonT(30), <1>3, Marks DEF Init
<1> HIDE DEF k
<1> QED BY ZenonT(30), <1>1, <1>3, <1>4 DEF Init, TypeInv, InDaemon

\* What an edit of the admin tool may save (cmd_new, cmd_flip).
LEMMA EditVault ==
    ASSUME NEW v \in Vaults, NEW c \in Codes
    PROVE  /\ [v EXCEPT ![c] = Entry("unclaimed")] \in Vaults
           /\ [v EXCEPT ![c].status = "revoked"] \in Vaults
BY ZenonT(30) DEF Vaults, Entries, Entry, Nobody

\* Every step keeps the types.
LEMMA TypeNext == ASSUME Codes # {}, TypeInv, [Next]_vars PROVE TypeInv'
<1> USE DEF InDaemon
<1>m. Unread \notin Vaults /\ Empty \in Vaults BY ZenonT(30), Marks
<1>1. ASSUME NEW c \in Codes, NEW m \in Machines, handle_claim(c, m) PROVE TypeInv'
  <2>1. req' \in Requests BY <1>1 DEF handle_claim, Request, Requests, TypeInv
  <2> QED BY ZenonT(30), <1>1, <2>1 DEF handle_claim, TypeInv, daemon, ledger, history
<1>2. ASSUME NEW c \in Codes, NEW m \in Machines, php_read(c, m) PROVE TypeInv'
  <2>1. req' \in Requests BY <1>2 DEF php_read, Request, Requests, TypeInv
  <2>2. mem' \in Vaults BY ZenonT(30), <1>2, ClaimedVault DEF php_read, TypeInv, Loads
  <2> QED BY ZenonT(30), <1>2, <2>1, <2>2 DEF php_read, TypeInv, ledger, history
<1>3. CASE refresh_vault
  BY ZenonT(30), <1>3 DEF refresh_vault, TypeInv, Loads, Ends, ledger, history
<1>4. CASE Stamp
  BY ZenonT(30), <1>4 DEF Stamp, TypeInv, ledger, history
<1>5. CASE ClaimRefused
  BY ZenonT(30), <1>5 DEF ClaimRefused, TypeInv, Ends, daemon, ledger, history
<1>6. CASE ClaimReissued
  BY ZenonT(30), <1>6 DEF ClaimReissued, TypeInv, daemon, ledger, history
<1>7. CASE ClaimSaves
  <2>1. req \in Requests BY ZenonT(30), <1>7 DEF ClaimSaves, TypeInv
  <2>2. Result \in Vaults BY ZenonT(30), <2>1, ClaimedVault DEF Result, Requests, TypeInv
  <2>3. file' \in {file, Result} /\ onDisk' \in {{Result}, onDisk, onDisk \cup {Result}}
        /\ faults' \in Nat
    BY <1>7 DEF ClaimSaves, Saved, SaveFails, TypeInv
  <2>4. /\ mem' \in {mem, Result}
        /\ \/ pc' = "stamp_saved" /\ req' = req
           \/ pc' = "idle"
    BY ZenonT(30), <1>7 DEF ClaimSaves, Ends
  <2> HIDE DEF Result
  <2> QED BY ZenonT(30), <1>7, <2>1, <2>2, <2>3, <2>4 DEF ClaimSaves, TypeInv
<1>8. ASSUME Sign \/ php_write PROVE TypeInv'
  <2>1. req \in Requests BY ZenonT(30), <1>8 DEF Sign, php_write, TypeInv
  <2>2. [code |-> req.code, machine |-> req.machine, claimed |-> mem[req.code].claimed,
         arm |-> arms[req.code], barred |-> req.barred] \in Tokens
    BY ZenonT(30), <2>1 DEF TypeInv, Requests, Tokens, Vaults, Entries
  <2>3. tokens' \subseteq Tokens
    BY ZenonT(30), <1>8, <2>2 DEF Sign, php_write, Disclosed, TypeInv, ledger
  <2>4. CASE Sign BY ZenonT(30), <2>3, <2>4 DEF Sign, Ends, TypeInv, daemon, ledger, history
  <2>5. CASE php_write BY <2>3, <2>5, <1>m DEF php_write, Ends, TypeInv, ledger, history
  <2> QED BY ZenonT(30), <1>8, <2>4, <2>5
<1>9. CASE Start
  BY ZenonT(30), <1>9 DEF Start, TypeInv, Loads, ledger, history
<1>10. CASE Die
  BY ZenonT(30), <1>10, <1>m DEF Die, Down, Ends, TypeInv, ledger, history
<1>11. CASE PowerLoss
  BY ZenonT(30), <1>11, <1>m DEF PowerLoss, Down, Ends, TypeInv
<1>12. CASE AdminLoads
  BY ZenonT(30), <1>12, <1>m DEF AdminLoads, TypeInv, daemon, ledger, history
<1>13. ASSUME NEW c \in Codes, NEW v \in Vaults, AdminSaves(c, v),
              arms' \in [Codes -> Nat], revoked' \subseteq Codes, born' \subseteq Codes
       PROVE  TypeInv'
  <2>1. file' \in {file, v} /\ onDisk' \subseteq onDisk \cup {v} /\ faults' \in Nat
    BY <1>13 DEF AdminSaves, Saved, SaveFails, TypeInv
  <2> QED BY ZenonT(30), <1>13, <2>1 DEF AdminSaves, TypeInv, daemon
<1>14. ASSUME NEW c \in Codes, cmd_new(c) \/ rearm(c) \/ revoke(c) PROVE TypeInv'
  <2>1. copy \in Vaults BY ZenonT(30), <1>14 DEF cmd_new, rearm, revoke, TypeInv
  <2>2. CASE cmd_new(c)
    BY ZenonT(30), <1>13, <2>1, <2>2, EditVault DEF cmd_new, TypeInv
  <2>3. CASE rearm(c)
    <3>1. arms' \in [Codes -> Nat] BY <2>3 DEF rearm, TypeInv
    <3> QED BY ZenonT(30), <1>13, <2>1, <2>3, <3>1, EditVault DEF rearm, TypeInv
  <2>4. CASE revoke(c)
    BY ZenonT(30), <1>13, <2>1, <2>4, EditVault DEF revoke, TypeInv
  <2> QED BY ZenonT(30), <1>14, <2>2, <2>3, <2>4
<1>15. CASE RemoveFile
  BY ZenonT(30), <1>15 DEF RemoveFile, TypeInv, daemon
<1>16. CASE Tick
  BY <1>16 DEF Tick, TypeInv, daemon, ledger, history
<1>17. CASE UNCHANGED vars
  BY ZenonT(30), <1>17 DEF vars, TypeInv, daemon, ledger, history
<1> QED BY ZenonT(30), <1>1, <1>2, <1>3, <1>4, <1>5, <1>6, <1>7, <1>8, <1>9, <1>10, <1>11, <1>12, <1>14,
           <1>15, <1>16, <1>17 DEF Next

-----------------------------------------------------------------------------
(* The seats *)

\* Nothing is sold at first.
LEMMA InvInit == ASSUME Codes # {} PROVE Init => Inv
<1> SUFFICES ASSUME Init PROVE Inv OBVIOUS
<1> DEFINE k == CHOOSE k \in Codes : TRUE
<1>1. k \in Codes OBVIOUS
<1>2. file = [Empty EXCEPT ![k] = Entry("unclaimed")] /\ born = {k} BY ZenonT(30) DEF Init
<1>3. file \in Vaults BY ZenonT(30), <1>1, <1>2, EditVault, Marks
<1>4. Keeps(file) BY <1>1, <1>2 DEF Keeps, Init, Empty, All, Entry
<1>5. file # Gone BY ZenonT(30), <1>3, Marks
<1> HIDE DEF k
<1>6. tokens = {} /\ revoked = {} /\ pc = "idle" /\ seen = Unread /\ onDisk = {file}
  BY ZenonT(30) DEF Init
<1> QED BY ZenonT(30), <1>4, <1>5, <1>6 DEF Inv, TokensInv, LedgerInv, ClaimInv

\* Nothing but the program counter, the request and what is remembered of the
\* file moves: the seats stay as they are (refresh_vault, Vault::claim refusing).
LEMMA LedgerStays ==
    ASSUME Inv, UNCHANGED <<endpoint, ledger, tokens, history>>, proc' = proc,
           file = Gone /\ proc = "up" => mem' = mem
    PROVE  TokensInv' /\ LedgerInv'
BY MarksStay DEF Inv, TokensInv, LedgerInv, Keeps, Held, Loads, ledger, history

\* A token for the holder of a seat in the file (Counter::handle_claim's end,
\* claim.php's).
LEMMA SealedToken ==
    ASSUME TypeInv, TokensInv, req \in Requests, NEW v \in Vaults, Keeps(v), Sold(v),
           req.barred => req.code \in revoked,
           NEW t, t = [code |-> req.code, machine |-> req.machine,
                       claimed |-> v[req.code].claimed, arm |-> arms[req.code],
                       barred |-> req.barred],
           tokens' = tokens \cup {t}, UNCHANGED <<arms, revoked, born>>
    PROVE  TokensInv' /\ Keeps(v)'
<1>1. req.code \in Codes BY ZenonT(30) DEF Requests
<1>2. ~req.barred BY ZenonT(30) DEF Keeps, Sold
<1>3. req.code \in born BY ZenonT(30), <1>1 DEF Keeps, Sold
<1>4. \A u \in tokens : u.code = t.code /\ u.arm = t.arm =>
          u.machine = t.machine /\ u.claimed = t.claimed
  BY ZenonT(30) DEF Keeps, Held, Sold
<1>5. Held(v, t) BY ZenonT(30) DEF Held, Sold
<1>6. t.arm <= arms[t.code] BY SMTT(30), <1>1 DEF TypeInv
<1>7. Keeps(v)' BY ZenonT(30), <1>5 DEF Keeps, Held
<1>8. \A a, b \in tokens' : a.code = b.code /\ a.arm = b.arm =>
          a.machine = b.machine /\ a.claimed = b.claimed
  BY <1>4 DEF TokensInv
<1>9. \A a \in tokens' : ~a.barred /\ a.arm <= arms[a.code] /\ a.code \in born
  BY SMTT(30), <1>2, <1>3, <1>6 DEF TokensInv
<1>10. arms' = arms /\ revoked' = revoked /\ born' = born OBVIOUS
<1>11. TokensInv' BY ZenonT(30), <1>8, <1>9, <1>10 DEF TokensInv
<1> QED BY ZenonT(30), <1>7, <1>11

\* A save the admin tool makes alone (save_or_die): the file is the old one or
\* the edited one, and whichever it is keeps what is known of the seats.
LEMMA EditInv ==
    ASSUME Codes # {}, TypeInv, Inv, NEW c \in Codes, NEW v \in Vaults, AdminSaves(c, v), Alone,
           NEW f, f = file, Loads(f) => Keeps(f)',
           NEW g, g = mem, f = Gone /\ proc = "up" => Keeps(g)',
           Keeps(v)', TokensInv'
    PROVE  Inv'
<1>1. /\ pc = "idle" /\ pc' = "idle" /\ mem' = mem /\ seen' = seen /\ proc' = proc
      /\ endpoint' = endpoint /\ removed' = removed
  BY ZenonT(30) DEF AdminSaves, Alone, daemon
<1>2. \/ file' = v /\ onDisk' = {v}
      \/ file' = file /\ onDisk' = onDisk /\ late' = late
      \/ file' = v /\ late' = TRUE
  BY ZenonT(30) DEF AdminSaves, Saved, SaveFails
<1>3. ClaimInv' BY ZenonT(30), <1>1 DEF Inv, ClaimInv
<1>4. v # Gone BY ZenonT(30), Marks
<1>5. (Loads(file) => Keeps(file))'
  BY SMTT(30), <1>2, MarksStay DEF Loads, Keeps, Held
<1>6. (file = Gone /\ proc = "up" => Keeps(mem))'
  BY ZenonT(30), <1>1, <1>2, <1>4, MarksStay DEF Keeps, Held
<1>7. late' \/ removed' \/ endpoint' = "php" \/ onDisk' = {file'}
  BY <1>1, <1>2 DEF Inv, LedgerInv, AdminSaves, Saved
<1>8. LedgerInv' BY ZenonT(30), <1>5, <1>6, <1>7 DEF LedgerInv
<1> QED BY ZenonT(30), <1>3, <1>8 DEF Inv

\* The daemon's steps up to its save (Counter::refresh_vault, handle_claim).
LEMMA DaemonReads ==
    ASSUME Codes # {}, TypeInv, Inv,
           \/ \E c \in Codes, m \in Machines : handle_claim(c, m)
           \/ refresh_vault \/ Stamp \/ ClaimRefused \/ ClaimReissued
    PROVE  Inv'
<1>1. ASSUME NEW c \in Codes, NEW m \in Machines, handle_claim(c, m) PROVE Inv'
  <2>1. TokensInv' /\ LedgerInv'
    BY ZenonT(30), <1>1, LedgerStays DEF handle_claim, daemon
  <2>2. file # Gone /\ file = seen => file = mem
    BY ZenonT(30), <1>1, Marks DEF handle_claim, TypeInv, Inv, ClaimInv
  <2>3. pc' = "claim" => file = Gone \/ file = seen
    BY ZenonT(30), <1>1, Marks DEF handle_claim, fingerprint, TypeInv
  <2>4. pc' \in {"claim", "load"} /\ req' = [code |-> c, machine |-> m, at |-> now,
        barred |-> c \in revoked]
    BY ZenonT(30), <1>1 DEF handle_claim, Request
  <2>5. ClaimInv'
    BY ZenonT(30), <1>1, <2>2, <2>3, <2>4, MarksStay
    DEF handle_claim, Inv, ClaimInv, daemon, ledger, history
  <2> QED BY ZenonT(30), <2>1, <2>5 DEF Inv
<1>2. CASE refresh_vault
  <2>1. file = Gone /\ proc = "up" => mem' = mem BY ZenonT(30), <1>2 DEF refresh_vault, Loads
  <2>2. TokensInv' /\ LedgerInv' BY ZenonT(30), <1>2, <2>1, LedgerStays DEF refresh_vault
  <2>3. ClaimInv'
    BY ZenonT(30), <1>2, MarksStay DEF refresh_vault, Ends, Inv, ClaimInv, ledger, history
  <2> QED BY ZenonT(30), <2>2, <2>3 DEF Inv
<1>3. CASE Stamp
  <2>1. TokensInv' /\ LedgerInv' BY ZenonT(30), <1>3, LedgerStays DEF Stamp
  <2>2. file = mem /\ file # Gone BY ZenonT(30), <1>3, Marks DEF Stamp, Inv, ClaimInv, TypeInv
  <2>3. seen' = mem /\ mem' = mem /\ file' = file
    BY ZenonT(30), <1>3, <2>2 DEF Stamp, fingerprint, ledger
  <2>4. ClaimInv'
    BY ZenonT(30), <1>3, <2>2, <2>3 DEF Stamp, Inv, ClaimInv, Sold, ledger, history
  <2> QED BY ZenonT(30), <2>1, <2>4 DEF Inv
<1>4. CASE ClaimRefused
  <2>1. TokensInv' /\ LedgerInv' BY ZenonT(30), <1>4, LedgerStays DEF ClaimRefused, daemon
  <2>2. ClaimInv'
    BY ZenonT(30), <1>4, MarksStay DEF ClaimRefused, Ends, Inv, ClaimInv, daemon
  <2> QED BY ZenonT(30), <2>1, <2>2 DEF Inv
<1>5. CASE ClaimReissued
  <2>1. TokensInv' /\ LedgerInv' BY ZenonT(30), <1>5, LedgerStays DEF ClaimReissued, daemon
  <2>2. file = mem BY ZenonT(30), <1>5 DEF ClaimReissued, Inv, ClaimInv
  <2>3. req \in Requests /\ mem \in Vaults BY ZenonT(30), <1>5 DEF ClaimReissued, TypeInv
  <2>4. mem[req.code].status # "unclaimed"
    BY <1>5, <2>3 DEF ClaimReissued, Result, Claimed, Vaults, Requests
  <2>5. Sold(mem) BY ZenonT(30), <1>5, <2>4 DEF ClaimReissued, Serves, Sold
  <2>6. ClaimInv'
    BY ZenonT(30), <1>5, <2>2, <2>5, MarksStay
       DEF ClaimReissued, Inv, ClaimInv, Sold, daemon, ledger, history
  <2> QED BY ZenonT(30), <2>1, <2>6 DEF Inv
<1> QED BY ZenonT(30), <1>1, <1>2, <1>3, <1>4, <1>5

\* The save of a claim (Counter::save_vault), and its failure before and after
\* the rename.
LEMMA DaemonSaves ==
    ASSUME Codes # {}, TypeInv, Inv, ClaimSaves PROVE Inv'
<1>1. req \in Requests /\ mem \in Vaults BY ZenonT(30) DEF ClaimSaves, TypeInv
<1>2. /\ Serves(mem, req.code, req.machine) /\ file \in {mem, Gone} /\ proc = "up"
      /\ seen \in {Unread, mem} /\ pc = "claim"
  BY ZenonT(30) DEF ClaimSaves, Inv, ClaimInv, TypeInv, InDaemon
<1>3. Keeps(mem) BY ZenonT(30), <1>1, <1>2, Marks DEF Inv, LedgerInv, Loads
<1>4. PICK w : w = Result OBVIOUS
<1>5. w \in Vaults BY ZenonT(30), <1>1, <1>4, ClaimedVault DEF Result, Requests
<1>6. Keeps(w) /\ w[req.code].status = "claimed" /\ w[req.code].machine = req.machine
  BY <1>1, <1>2, <1>3, <1>4, ClaimedKeeps DEF Result, Requests
<1>7. /\ UNCHANGED <<tokens, arms, revoked, born, endpoint, proc, seen, removed>>
      /\ \/ file' = w /\ onDisk' = {w} /\ mem' = w /\ pc' = "stamp_saved" /\ req' = req
         \/ /\ mem' = mem /\ pc' = "idle"
            /\ \/ file' = file /\ onDisk' = onDisk /\ late' = late
               \/ file' = w /\ late' = TRUE
  BY ZenonT(30), <1>4 DEF ClaimSaves, Saved, SaveFails, Ends
<1>8. TokensInv' BY ZenonT(30), <1>7 DEF Inv, TokensInv
<1>9. (Loads(file) => Keeps(file))'
  BY SMTT(30), <1>6, <1>7, MarksStay DEF Inv, LedgerInv, Loads, Keeps, Held
<1>10. (file = Gone /\ proc = "up" => Keeps(mem))'
  BY <1>3, <1>6, <1>7 DEF Keeps, Held
<1>11. (late \/ removed \/ endpoint = "php" \/ onDisk = {file})'
  BY SMTT(30), <1>7 DEF ClaimSaves, Saved, Inv, LedgerInv
<1>12. ClaimInv'
  BY ZenonT(30), <1>2, <1>6, <1>7, MarksStay DEF Inv, ClaimInv, Sold
<1> QED BY ZenonT(30), <1>8, <1>9, <1>10, <1>11, <1>12 DEF Inv, LedgerInv

\* A token is disclosed (Counter::handle_claim, claim.php's handle_claim).
LEMMA TokenDisclosed ==
    ASSUME Codes # {}, TypeInv, Inv, Sign \/ php_write PROVE Inv'
<1>1. req \in Requests /\ mem \in Vaults BY ZenonT(30) DEF Sign, php_write, TypeInv
<1>2. req.barred => req.code \in revoked BY ZenonT(30) DEF Sign, php_write, Inv, ClaimInv
<1>3. PICK v : v = mem BY Zenon
<1>4. PICK t : t = [code |-> req.code, machine |-> req.machine,
                    claimed |-> v[req.code].claimed, arm |-> arms[req.code],
                    barred |-> req.barred] BY Zenon
<1>5. CASE Sign
  <2>1. file = mem /\ Sold(mem) BY ZenonT(30), <1>5 DEF Sign, Inv, ClaimInv
  <2>2. Keeps(v) BY ZenonT(30), <1>1, <1>3, <2>1, Marks DEF Inv, LedgerInv, Loads
  <2>3. tokens' = tokens \cup {t} /\ UNCHANGED <<arms, revoked, born>>
    BY ZenonT(30), <1>3, <1>4, <1>5 DEF Sign, Disclosed, history
  <2>4. TokensInv' /\ Keeps(v)'
    BY ZenonT(30), <1>1, <1>2, <1>3, <1>4, <2>1, <2>2, <2>3, SealedToken DEF Inv
  <2>5. /\ UNCHANGED <<endpoint, proc, mem, seen, file, onDisk, late, removed>>
        /\ pc' = "idle" /\ seen \in {Unread, mem}
    BY ZenonT(30), <1>5 DEF Sign, Ends, Inv, ClaimInv, daemon, ledger, history
  <2>6. LedgerInv' BY ZenonT(30), <1>3, <2>1, <2>4, <2>5 DEF Inv, LedgerInv, Keeps, Held
  <2>7. ClaimInv' BY ZenonT(30), <2>5, MarksStay DEF ClaimInv
  <2> QED BY ZenonT(30), <2>4, <2>6, <2>7 DEF Inv
<1>6. CASE php_write
  <2>1. /\ Loads(file) /\ Serves(file, req.code, req.machine)
        /\ mem = Claimed(file, req.code, req.machine, req.at)
    BY ZenonT(30), <1>6 DEF php_write, Inv, ClaimInv
  <2>2. file \in Vaults /\ Keeps(file) BY ZenonT(30), <2>1 DEF Loads, TypeInv, Inv, LedgerInv
  <2>3. Keeps(v) /\ Sold(v)
    BY SMTT(30), <1>1, <1>3, <2>1, <2>2, ClaimedKeeps DEF Requests, Sold
  <2>4. /\ pc' = "idle" /\ endpoint = "php" /\ proc = "down" /\ seen = Unread
        /\ UNCHANGED <<endpoint, proc, seen, arms, revoked, born>>
    BY ZenonT(30), <1>6 DEF php_write, Ends, TypeInv, history
  <2>5. ClaimInv' BY ZenonT(30), <2>4, MarksStay DEF ClaimInv
  <2>6. CASE file' = mem /\ Disclosed(mem)
    <3>1. tokens' = tokens \cup {t} BY ZenonT(30), <1>3, <1>4, <2>6 DEF Disclosed
    <3>2. TokensInv' /\ Keeps(v)'
      BY ZenonT(30), <1>1, <1>2, <1>3, <1>4, <2>3, <2>4, <3>1, SealedToken DEF Inv
    <3>3. LedgerInv' BY ZenonT(30), <1>3, <2>4, <2>6, <3>2 DEF LedgerInv, Keeps, Held
    <3> QED BY ZenonT(30), <2>5, <3>2, <3>3 DEF Inv
  <2>7. CASE UNCHANGED <<ledger, tokens>>
    <3>1. TokensInv' BY ZenonT(30), <2>4, <2>7 DEF Inv, TokensInv
    <3>2. LedgerInv'
      BY ZenonT(30), <2>1, <2>2, <2>4, <2>7 DEF LedgerInv, ledger, Keeps, Held
    <3> QED BY ZenonT(30), <2>5, <3>1, <3>2 DEF Inv
  <2> QED BY ZenonT(30), <1>6, <2>6, <2>7 DEF php_write
<1> QED BY ZenonT(30), <1>5, <1>6

\* Starts, deaths, power losses, the clock, the reads of claim.php and of the
\* admin tool.
LEMMA OtherSteps ==
    ASSUME Codes # {}, TypeInv, Inv, ~Excused',
           \/ Start \/ Die \/ PowerLoss \/ AdminLoads \/ Tick \/ UNCHANGED vars
           \/ \E c \in Codes, m \in Machines : php_read(c, m)
    PROVE  Inv'
<1>1. CASE Start
  <2>1. TokensInv' BY ZenonT(30), <1>1 DEF Start, Inv, TokensInv, history
  <2>2. LedgerInv'
    BY ZenonT(30), <1>1, MarksStay DEF Start, Inv, LedgerInv, Loads, Keeps, Held, ledger, history
  <2>3. pc = "idle" BY ZenonT(30), <1>1 DEF Start, TypeInv, InDaemon
  <2>4. ClaimInv' BY ZenonT(30), <1>1, <2>3, MarksStay DEF Start, ClaimInv
  <2> QED BY ZenonT(30), <2>1, <2>2, <2>4 DEF Inv
<1>2. CASE Die
  <2>1. TokensInv' BY ZenonT(30), <1>2 DEF Die, Inv, TokensInv, history
  <2>2. LedgerInv'
    BY ZenonT(30), <1>2, MarksStay
    DEF Die, Down, Inv, LedgerInv, Loads, Keeps, Held, ledger, history
  <2>3. ClaimInv' BY ZenonT(30), <1>2, MarksStay DEF Die, Down, Ends, ClaimInv
  <2> QED BY ZenonT(30), <2>1, <2>2, <2>3 DEF Inv
<1>3. CASE PowerLoss
  <2>1. TokensInv' BY ZenonT(30), <1>3 DEF PowerLoss, Inv, TokensInv
  <2>2. PICK f \in onDisk :
          /\ file' = f /\ onDisk' = {f}
          /\ undone' = (undone \/ (f # file /\ (late \/ endpoint = "php" \/ removed)))
    BY ZenonT(30), <1>3 DEF PowerLoss
  <2>3. f = file BY ZenonT(30), <2>2 DEF Excused, Inv, LedgerInv
  <2>4. LedgerInv'
    BY ZenonT(30), <1>3, <2>2, <2>3, MarksStay
    DEF PowerLoss, Down, Inv, LedgerInv, Loads, Keeps, Held
  <2>5. ClaimInv' BY ZenonT(30), <1>3, MarksStay DEF PowerLoss, Down, Ends, ClaimInv
  <2> QED BY ZenonT(30), <2>1, <2>4, <2>5 DEF Inv
<1>4. CASE AdminLoads \/ Tick \/ UNCHANGED vars
  <2>1. UNCHANGED <<endpoint, daemon, pc, req, ledger, tokens, history>>
    BY ZenonT(30), <1>4 DEF AdminLoads, Tick, vars
  <2>2. TokensInv' /\ LedgerInv' BY ZenonT(30), <2>1, LedgerStays DEF daemon
  <2>3. ClaimInv'
    BY ZenonT(30), <2>1, MarksStay
    DEF Inv, ClaimInv, Sold, Serves, Claimed, Loads, daemon, ledger, history
  <2> QED BY ZenonT(30), <2>2, <2>3 DEF Inv
<1>5. ASSUME NEW c \in Codes, NEW m \in Machines, php_read(c, m) PROVE Inv'
  <2>1. proc = "down" BY ZenonT(30), <1>5 DEF php_read, TypeInv
  <2>2. TokensInv' /\ LedgerInv' BY ZenonT(30), <1>5, <2>1, LedgerStays DEF php_read
  <2>3. /\ pc' = "php_write" /\ Loads(file) /\ Serves(file, c, m) /\ file' = file
        /\ mem' = Claimed(file, c, m, now) /\ revoked' = revoked
        /\ req' = [code |-> c, machine |-> m, at |-> now, barred |-> c \in revoked]
    BY ZenonT(30), <1>5 DEF php_read, Request, ledger, history
  <2>4. ClaimInv'
    BY ZenonT(30), <2>3, MarksStay DEF ClaimInv, Loads, Serves, Claimed
  <2> QED BY ZenonT(30), <2>2, <2>4 DEF Inv
<1> QED BY ZenonT(30), <1>1, <1>2, <1>3, <1>4, <1>5

\* The operator's writes (cmd_new, cmd_flip, a deletion).
LEMMA OperatorWrites ==
    ASSUME Codes # {}, TypeInv, Inv, ~Excused',
           RemoveFile \/ \E c \in Codes : cmd_new(c) \/ rearm(c) \/ revoke(c)
    PROVE  Inv'
<1>1. CASE RemoveFile
  <2>1. pc = "idle" /\ (proc = "up" => file = mem) BY ZenonT(30), <1>1 DEF RemoveFile, Excused
  <2>2. TokensInv' BY ZenonT(30), <1>1 DEF RemoveFile, Inv, TokensInv
  <2>3. proc = "up" => Keeps(mem) BY ZenonT(30), <2>1, Marks DEF Inv, LedgerInv, Loads, TypeInv
  <2>4. LedgerInv'
    BY ZenonT(30), <1>1, <2>3, MarksStay DEF RemoveFile, LedgerInv, Loads, Keeps, Held, daemon
  <2>5. ClaimInv' BY ZenonT(30), <1>1, <2>1, MarksStay DEF RemoveFile, Inv, ClaimInv, daemon
  <2> QED BY ZenonT(30), <2>2, <2>4, <2>5 DEF Inv
<1>2. ASSUME NEW c \in Codes, cmd_new(c) \/ rearm(c) \/ revoke(c) PROVE Inv'
  <2>1. Alone BY ZenonT(30), <1>2 DEF cmd_new, rearm, revoke, AdminSaves, Excused
  <2>2. copy \in Vaults BY ZenonT(30), <1>2 DEF cmd_new, rearm, revoke, TypeInv
  <2>3. PICK v0 : v0 = copy OBVIOUS
  <2>4. PICK f : f = file OBVIOUS
  <2>5. PICK g : g = mem OBVIOUS
  <2>6. Keeps(v0)
    <3>1. CASE file = copy BY ZenonT(30), <2>2, <2>3, <3>1, Marks DEF Inv, LedgerInv, Loads
    <3>2. CASE copy = Empty BY ZenonT(30), <2>3, <3>2 DEF Keeps, Held, Empty, All, Entry, TypeInv, Tokens
    <3> QED BY ZenonT(30), <2>1, <3>1, <3>2 DEF Alone
  <2>7. (Loads(f) => Keeps(f)) /\ (f = Gone /\ proc = "up" => Keeps(g))
    BY ZenonT(30), <2>4, <2>5 DEF Inv, LedgerInv
  <2>8. \A t \in tokens : t.code \in Codes /\ t.code \in born /\ t.arm \in Nat
        /\ t.arm <= arms[t.code]
    BY ZenonT(30) DEF TypeInv, Tokens, Inv, TokensInv
  <2>9. tokens' = tokens BY ZenonT(30), <1>2 DEF cmd_new, rearm, revoke, AdminSaves
  <2>a. arms \in [Codes -> Nat] /\ revoked \subseteq Codes BY ZenonT(30) DEF TypeInv
  <2>10. CASE cmd_new(c)
    <3>1. PICK v : v = [v0 EXCEPT ![c] = Entry("unclaimed")] BY Zenon
    <3>2. /\ AdminSaves(c, v) /\ c \notin born /\ born' = born \cup {c} /\ v \in Vaults
          /\ UNCHANGED <<arms, revoked>>
      BY ZenonT(30), <2>2, <2>3, <2>10, <3>1, EditVault DEF cmd_new
    <3>3. Keeps(v)'
      <4>1. \A k \in Codes : k # c => v[k] = v0[k] BY ZenonT(30), <2>2, <2>3, <3>1 DEF Vaults
      <4>2. \A t \in tokens : t.code # c BY ZenonT(30), <2>8, <3>2
      <4>3. c \notin revoked BY ZenonT(30), <3>2 DEF Inv, TokensInv
      <4>4. \A t \in tokens : t.arm = arms[t.code] => Held(v, t)
        BY ZenonT(30), <2>6, <2>8, <4>1, <4>2 DEF Keeps, Held
      <4>5. \A k \in revoked : v[k].status \in {"absent", "revoked"}
        BY ZenonT(30), <2>6, <2>a, <4>1, <4>3 DEF Keeps
      <4>6. \A k \in Codes : v[k].status # "absent" => k \in born'
        BY ZenonT(30), <2>6, <3>2, <4>1 DEF Keeps
      <4> QED BY ZenonT(30), <2>9, <3>2, <4>4, <4>5, <4>6 DEF Keeps, Held
    <3>4. (Loads(f) => Keeps(f)') /\ (f = Gone /\ proc = "up" => Keeps(g)')
      BY ZenonT(30), <2>7, <2>9, <3>2 DEF Keeps, Held
    <3>5. TokensInv' BY ZenonT(30), <2>9, <3>2 DEF Inv, TokensInv
    <3> QED BY ZenonT(30), <2>1, <2>4, <2>5, <3>2, <3>3, <3>4, <3>5, EditInv
  <2>11. CASE rearm(c)
    <3>1. PICK v : v = [v0 EXCEPT ![c] = Entry("unclaimed")] BY Zenon
    <3>a. arms' = [arms EXCEPT ![c] = @ + 1] BY ZenonT(30), <2>11 DEF rearm
    <3>2. /\ AdminSaves(c, v) /\ v \in Vaults
          /\ revoked' = revoked \ {c} /\ born' = born /\ v0[c].status # "absent"
      BY ZenonT(30), <2>2, <2>3, <2>11, <3>1, EditVault DEF rearm
    <3>3. \A t \in tokens : t.arm = arms'[t.code] => t.code # c /\ t.arm = arms[t.code]
      <4> SUFFICES ASSUME NEW t \in tokens, t.arm = arms'[t.code]
                   PROVE  t.code # c /\ t.arm = arms[t.code]
        OBVIOUS
      <4>1. t.code \in Codes /\ t.arm \in Nat /\ t.arm <= arms[t.code] BY ZenonT(30), <2>8
      <4>2. t.code = c => arms'[t.code] = arms[t.code] + 1 /\ arms[t.code] \in Nat
        BY ZenonT(30), <2>a, <3>a, <4>1
      <4>3. t.code # c => arms'[t.code] = arms[t.code] BY ZenonT(30), <2>a, <3>a, <4>1
      <4> QED BY <4>1, <4>2, <4>3
    <3>4. Keeps(v)'
      BY ZenonT(30), <2>2, <2>3, <2>6, <2>8, <2>9, <3>1, <3>2, <3>3 DEF Keeps, Held, Vaults, TypeInv
    <3>5. (Loads(f) => Keeps(f)') /\ (f = Gone /\ proc = "up" => Keeps(g)')
      BY ZenonT(30), <2>7, <2>9, <3>2, <3>3 DEF Keeps, Held
    <3>6. \A k \in Codes : arms'[k] \in Nat /\ arms[k] \in Nat /\ arms[k] <= arms'[k]
      <4> SUFFICES ASSUME NEW k \in Codes
                   PROVE  arms'[k] \in Nat /\ arms[k] \in Nat /\ arms[k] <= arms'[k]
        OBVIOUS
      <4>1. arms[k] \in Nat /\ arms'[k] = IF k = c THEN arms[k] + 1 ELSE arms[k]
        BY ZenonT(30), <2>a, <3>a
      <4> QED BY <4>1
    <3>7. TokensInv'
      <4>1. \A t \in tokens : t.arm <= arms'[t.code]
        <5> SUFFICES ASSUME NEW t \in tokens PROVE t.arm <= arms'[t.code] BY ZenonT(30)
        <5>1. t.code \in Codes /\ t.arm \in Nat /\ t.arm <= arms[t.code] BY ZenonT(30), <2>8
        <5>2. arms'[t.code] \in Nat /\ arms[t.code] \in Nat /\ arms[t.code] <= arms'[t.code]
          BY ZenonT(30), <3>6, <5>1
        <5> QED BY <5>1, <5>2
      <4> QED BY ZenonT(30), <2>9, <3>2, <4>1 DEF Inv, TokensInv
    <3> QED BY ZenonT(30), <2>1, <2>4, <2>5, <3>2, <3>4, <3>5, <3>7, EditInv
  <2>12. CASE revoke(c)
    <3>1. PICK v : v = [v0 EXCEPT ![c].status = "revoked"] BY Zenon
    <3>2. /\ AdminSaves(c, v) /\ v \in Vaults /\ UNCHANGED <<arms, born>>
          /\ v0[c].status # "absent"
          /\ revoked' = (IF faults' = faults THEN revoked \cup {c} ELSE revoked)
      BY ZenonT(30), <2>2, <2>3, <2>12, <3>1, EditVault DEF revoke
    <3>3. c \in born BY ZenonT(30), <2>6, <3>2 DEF Keeps
    <3>4. /\ v[c].status = "revoked" /\ v[c].machine = v0[c].machine
          /\ v[c].claimed = v0[c].claimed
          /\ \A k \in Codes : k # c => v[k] = v0[k]
      BY ZenonT(30), <2>2, <2>3, <3>1 DEF Vaults, Entries
    <3>5. Keeps(v)'
      <4>1. \A t \in tokens : t.arm = arms[t.code] => Held(v, t)
        <5> SUFFICES ASSUME NEW t \in tokens, t.arm = arms[t.code] PROVE Held(v, t) BY ZenonT(30)
        <5>1. t.code \in Codes /\ Held(v0, t) BY ZenonT(30), <2>6, <2>8 DEF Keeps
        <5>2. CASE t.code = c BY ZenonT(30), <3>2, <3>4, <5>1, <5>2 DEF Held
        <5>3. CASE t.code # c BY ZenonT(30), <3>4, <5>1, <5>3 DEF Held
        <5> QED BY ZenonT(30), <5>2, <5>3
      <4>2. \A k \in revoked \cup {c} : v[k].status \in {"absent", "revoked"}
        BY ZenonT(30), <2>6, <2>a, <3>4 DEF Keeps
      <4>3. \A k \in Codes : v[k].status # "absent" => k \in born
        BY ZenonT(30), <2>6, <3>3, <3>4 DEF Keeps
      <4> QED BY ZenonT(30), <2>9, <3>2, <4>1, <4>2, <4>3 DEF Keeps, Held
    <3>6. TokensInv' BY ZenonT(30), <2>9, <3>2, <3>3 DEF Inv, TokensInv
    <3>7. CASE faults' = faults
      <4>1. file' = v /\ onDisk' = {v} /\ late' = late
        BY SMTT(30), <3>2, <3>7 DEF AdminSaves, Saved, SaveFails, TypeInv
      <4>2. /\ pc = "idle" /\ pc' = "idle" /\ mem' = mem /\ seen' = seen /\ v # Gone
        BY ZenonT(30), <2>1, <3>2, Marks DEF AdminSaves, Alone, daemon
      <4>3. LedgerInv' BY ZenonT(30), <3>5, <4>1, <4>2, MarksStay DEF LedgerInv, Keeps, Held
      <4>4. ClaimInv' BY ZenonT(30), <4>2, MarksStay DEF Inv, ClaimInv
      <4> QED BY ZenonT(30), <3>6, <4>3, <4>4 DEF Inv
    <3>8. CASE faults' # faults
      <4>0. tokens' = tokens /\ arms' = arms /\ born' = born /\ revoked' = revoked
        BY ZenonT(30), <2>9, <3>2, <3>8
      <4>1. (Loads(f) => Keeps(f)') /\ (f = Gone /\ proc = "up" => Keeps(g)')
        <5>1. Keeps(f)' <=> Keeps(f) BY ZenonT(30), <4>0 DEF Keeps, Held
        <5>2. Keeps(g)' <=> Keeps(g) BY ZenonT(30), <4>0 DEF Keeps, Held
        <5> QED BY ZenonT(30), <2>7, <5>1, <5>2
      <4> QED BY ZenonT(30), <2>1, <2>4, <2>5, <3>2, <3>5, <3>6, <4>1, EditInv
    <3> QED BY ZenonT(30), <3>7, <3>8
  <2> QED BY ZenonT(30), <1>2, <2>10, <2>11, <2>12
<1> QED BY ZenonT(30), <1>1, <1>2

\* The conjunction is inductive.
LEMMA Preserved == ASSUME Codes # {}, IInv, [Next]_vars PROVE IInv'
<1>1. TypeInv' BY ZenonT(30), TypeNext DEF IInv
<1>2. Excused => Excused'
  BY ZenonT(30)
  DEF Excused, Next, vars, handle_claim, php_read, refresh_vault, Stamp, ClaimRefused,
      ClaimReissued, ClaimSaves, Sign, php_write, Start, Die, PowerLoss, AdminLoads, cmd_new,
      rearm, revoke, AdminSaves, RemoveFile, Tick, history
<1>3. ASSUME ~Excused' PROVE Inv'
  <2>1. TypeInv /\ Inv BY ZenonT(30), <1>2, <1>3 DEF IInv
  <2> QED BY ZenonT(30), <1>3, <2>1, DaemonReads, DaemonSaves, TokenDisclosed, OtherSteps, OperatorWrites
          DEF Next
<1> QED BY ZenonT(30), <1>1, <1>3 DEF IInv

\* Each code is sold to one machine, with one expiry, until it is re-armed, for
\* any number of codes, machines, edits, failed saves and restarts
\* (Counter::handle_claim, claim.php, ccos-license-admin).
THEOREM SeatIsSoldOnce == ASSUME Codes # {} PROVE Spec => []SeatSoldOnce
<1>1. Init => IInv BY ZenonT(30), TypeInit, InvInit DEF IInv
<1>2. IInv /\ [Next]_vars => IInv' BY ZenonT(30), Preserved
<1>3. IInv => SeatSoldOnce BY ZenonT(30) DEF IInv, Inv, TokensInv, SeatSoldOnce
<1> QED BY <1>1, <1>2, <1>3, PTL DEF Spec

\* No claim that comes in after the revocation of its code was saved gets a
\* token, for any number of codes, machines, edits, failed saves and restarts
\* (Counter::refresh_vault, Vault::claim).
THEOREM RevokedIsNotSold == ASSUME Codes # {} PROVE Spec => []RevokedNotSold
<1>1. Init => IInv BY ZenonT(30), TypeInit, InvInit DEF IInv
<1>2. IInv /\ [Next]_vars => IInv' BY ZenonT(30), Preserved
<1>3. IInv => RevokedNotSold BY ZenonT(30) DEF IInv, Inv, TokensInv, RevokedNotSold
<1> QED BY <1>1, <1>2, <1>3, PTL DEF Spec
=============================================================================
