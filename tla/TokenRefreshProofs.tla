-------------------------- MODULE TokenRefreshProofs --------------------------
(* Proofs about TokenRefresh, for any processes and bounds.                    *)
EXTENDS TokenRefresh, TLAPS

\* No token names one that was never issued.
Issued ==
    /\ store.refresh <= issued
    /\ \A p \in Procs : mem[p].refresh <= issued /\ reply[p].refresh <= issued

\* A process about to spend its tokens spends the live ones it found in the file.
SpendsFound == \A p \in Procs : at[p] = "asks" /\ "file" \in found[p] => Live(mem[p])

\* What a process is about to save is live.
SavesLive == Disturbed \/ \A p \in Procs : at[p] \in {"saves", "stores"} => Live(reply[p])

\* A session a person just opened is known to that process only.
OwnSession ==
    Disturbed \/ \A p \in Procs : at[p] = "stores" =>
        /\ store.refresh # reply[p].refresh
        /\ \A q \in Procs : /\ mem[q].refresh # reply[p].refresh
                            /\ q # p => reply[q].refresh # reply[p].refresh

\* The inductive invariant of a login whose refreshes are locked.
Inv == TokenTypeOK /\ Issued /\ Serial /\ SpendsFound /\ SavesLive /\ OwnSession /\ StoreLive

\* What the provider issues is new, and what it gives is tokens.
LEMMA Issuing ==
    ASSUME TokenTypeOK, NEW p \in Procs, NEW rotates \in BOOLEAN, Issues(p, rotates)
    PROVE  /\ issued' = issued + 1 /\ issued' \in Nat
           /\ honoured' \subseteq 1..issued' /\ valid' \subseteq 1..issued'
           /\ Given(p, rotates) \in Tokens
           /\ Given(p, rotates).refresh = IF rotates THEN issued + 1 ELSE mem[p].refresh
           /\ \A n \in honoured : (rotates /\ n = mem[p].refresh) \/ n \in honoured'
           /\ Given(p, rotates).refresh <= issued' \/ mem[p].refresh > issued
           /\ mem[p].refresh \in honoured => Given(p, rotates).refresh \in honoured'
<1>1. mem[p].refresh \in Nat /\ issued \in Nat
  BY DEF TokenTypeOK, Tokens
<1>2. issued' = issued + 1 /\ issued' \in Nat
  BY <1>1 DEF Issues
<1>3. Given(p, rotates) \in Tokens
  BY <1>1 DEF Given, Tokens
<1>4. Given(p, rotates).refresh = IF rotates THEN issued + 1 ELSE mem[p].refresh
  BY DEF Given
<1>5. honoured' \subseteq 1..issued'
  <2>1. honoured \subseteq 1..(issued + 1)
    BY DEF TokenTypeOK
  <2>2. honoured' \subseteq honoured \cup {issued + 1}
    BY DEF Issues
  <2>3. QED
    BY <1>1, <1>2, <2>1, <2>2
<1>6. valid' \subseteq 1..issued'
  BY DEF Issues, TokenTypeOK
<1>7. \A n \in honoured : (rotates /\ n = mem[p].refresh) \/ n \in honoured'
  BY DEF Issues
<1>8. Given(p, rotates).refresh <= issued' \/ mem[p].refresh > issued
  BY <1>1, <1>2, <1>4
<1>9. mem[p].refresh \in honoured => Given(p, rotates).refresh \in honoured'
  BY <1>4 DEF Issues
<1>10. QED
  BY <1>2, <1>3, <1>4, <1>5, <1>6, <1>7, <1>8, <1>9

\* Types: every step of a process, and of its surroundings, keeps them.
LEMMA Types == ASSUME TokenTypeOK, [TokenNext]_tokenVars PROVE TokenTypeOK'
<1> USE LockAssumption, TroubleAssumption DEF TokenTypeOK, Tokens, Places, tokenVars, provider, process
<1>1. CASE UNCHANGED tokenVars
  BY <1>1
<1>2. ASSUME NEW a \in valid, Expire(a) PROVE TokenTypeOK'
  BY <1>2 DEF Expire
<1>3. CASE Logout
  BY <1>3 DEF Logout, Trouble, NoTokens
<1>4. ASSUME NEW p \in Procs, Ask(p) PROVE TokenTypeOK'
  BY <1>4 DEF Ask, Answers, Goes, Release
<1>5. ASSUME NEW p \in Procs, TakeLock(p) PROVE TokenTypeOK'
  BY <1>5 DEF TakeLock
<1>6. ASSUME NEW p \in Procs, Reread(p) PROVE TokenTypeOK'
  BY <1>6 DEF Reread, LiveAt, Answers, Goes, Release
<1>7. ASSUME NEW p \in Procs, Refresh(p) PROVE TokenTypeOK'
  <2>1. PICK rotates \in BOOLEAN :
          Issues(p, rotates) /\ reply' = [reply EXCEPT ![p] = Given(p, rotates)]
    BY <1>7 DEF Refresh
  <2>2. reply' \in [Procs -> Tokens]
    BY <2>1, Issuing
  <2>3. QED
    BY <1>7, <2>2, Issuing DEF Refresh, Issues, Goes
<1>8. ASSUME NEW p \in Procs, Rejected(p) PROVE TokenTypeOK'
  BY <1>8 DEF Rejected, Answers, Release
<1>9. ASSUME NEW p \in Procs, Save(p) PROVE TokenTypeOK'
  BY <1>9 DEF Save, Answers, Release
<1>10. ASSUME NEW p \in Procs, StoreLogin(p) PROVE TokenTypeOK'
  BY <1>10 DEF StoreLogin, Answers, Release
<1>11. ASSUME NEW p \in Procs, Login(p) PROVE TokenTypeOK'
  BY <1>11 DEF Login, Trouble, Goes
<1>12. ASSUME NEW p \in Procs, GivesUp(p) PROVE TokenTypeOK'
  BY <1>12 DEF GivesUp, Trouble, Answers, Release
<1>13. ASSUME NEW p \in Procs, Unanswered(p) PROVE TokenTypeOK'
  <2>1. troubled' \subseteq Troubles
    BY <1>13 DEF Unanswered, Trouble
  <2>2. /\ issued' \in Nat /\ expired' = expired
        /\ honoured' \subseteq 1..issued' /\ valid' \subseteq 1..issued'
    <3>1. CASE UNCHANGED provider
      BY <3>1
    <3>2. ASSUME NEW rotates \in BOOLEAN, Issues(p, rotates)
          PROVE  /\ issued' \in Nat /\ expired' = expired
                 /\ honoured' \subseteq 1..issued' /\ valid' \subseteq 1..issued'
      BY <3>2, Issuing DEF Issues
    <3>3. QED
      BY <1>13, <3>2 DEF Unanswered
  <2>3. QED
    BY <1>13, <2>1, <2>2 DEF Unanswered, Answers, Release
<1>14. ASSUME NEW p \in Procs, SaveFails(p) PROVE TokenTypeOK'
  BY <1>14 DEF SaveFails, Trouble, Answers, Release
<1>15. ASSUME NEW p \in Procs, Unreadable(p) PROVE TokenTypeOK'
  <2>1. LiveAt(p) \ {"file"} \in SUBSET {"file", "memory"}
    BY DEF LiveAt
  <2>2. found' \in [Procs -> SUBSET {"file", "memory"}]
    BY <1>15, <2>1 DEF Unreadable
  <2>3. QED
    BY <1>15, <2>2 DEF Unreadable, Trouble, Answers, Goes, Release
<1>16. ASSUME NEW p \in Procs, Killed(p) PROVE TokenTypeOK'
  BY <1>16 DEF Killed, Trouble, NoTokens, Answers, Release
<1>17. QED
  BY <1>2, <1>3, <1>4, <1>5, <1>6, <1>7, <1>8, <1>9, <1>10, <1>11, <1>12, <1>13, <1>14, <1>15, <1>16 DEF TokenNext, Step, Environment

\* Every step keeps the invariant of a login whose refreshes are locked.
LEMMA Steps == ASSUME Locks, Inv, [TokenNext]_tokenVars PROVE Inv'
<1> USE LockAssumption DEF Live
<1>1. TokenTypeOK /\ TokenTypeOK'
  BY Types DEF Inv
<1>2. Disturbed => Disturbed'
  BY DEF TokenNext, Step, Environment, Disturbed, Trouble, tokenVars, Ask, TakeLock, Reread, Refresh, Rejected, Save, StoreLogin, Expire, Logout, Login, GivesUp, Unanswered, SaveFails, Unreadable, Killed
<1>3. CASE UNCHANGED tokenVars
  <2>1. Issued'
    BY <1>3 DEF Inv, Issued, tokenVars, provider, process
  <2>2. Serial'
    BY <1>3 DEF Inv, Serial, Refreshing, tokenVars, process
  <2>3. SpendsFound'
    BY <1>3 DEF Inv, SpendsFound, tokenVars, provider, process
  <2>4. SavesLive'
    BY <1>2, <1>3 DEF Inv, SavesLive, tokenVars, provider, process
  <2>5. OwnSession'
    BY <1>2, <1>3 DEF Inv, OwnSession, tokenVars, process
  <2>6. StoreLive'
    BY <1>2, <1>3 DEF Inv, StoreLive, tokenVars, provider, process
  <2>7. QED
    BY <1>1, <2>1, <2>2, <2>3, <2>4, <2>5, <2>6 DEF Inv
<1>4. ASSUME NEW a \in valid, Expire(a) PROVE Inv'
  <2>1. Issued'
    BY <1>4 DEF Inv, Issued, Expire, process
  <2>2. Serial'
    BY <1>4 DEF Inv, Serial, Refreshing, Expire, process
  <2>3. SpendsFound'
    BY <1>4 DEF Inv, SpendsFound, Expire, process
  <2>4. SavesLive'
    BY <1>2, <1>4 DEF Inv, SavesLive, Expire, process
  <2>5. OwnSession'
    BY <1>2, <1>4 DEF Inv, OwnSession, Expire, process
  <2>6. StoreLive'
    BY <1>2, <1>4 DEF Inv, StoreLive, Expire, process
  <2>7. QED
    BY <1>1, <2>1, <2>2, <2>3, <2>4, <2>5, <2>6 DEF Inv
<1>5. CASE Logout
  <2>1. Issued'
    BY <1>5 DEF Inv, TokenTypeOK, Issued, Logout, NoTokens, process, provider
  <2>2. Serial'
    BY <1>5 DEF Inv, Serial, Refreshing, Logout, process
  <2>3. SpendsFound'
    BY <1>5 DEF Inv, SpendsFound, Logout, process, provider
  <2>4. SavesLive'
    BY <1>5 DEF SavesLive, Logout, Trouble, Disturbed
  <2>5. OwnSession'
    BY <1>5 DEF OwnSession, Logout, Trouble, Disturbed
  <2>6. StoreLive'
    BY <1>5 DEF StoreLive, Logout, Trouble, Disturbed
  <2>7. QED
    BY <1>1, <2>1, <2>2, <2>3, <2>4, <2>5, <2>6 DEF Inv
<1>6. ASSUME NEW p \in Procs, Ask(p) PROVE Inv'
  <2>1. Issued'
    BY <1>6 DEF Inv, Issued, Ask, provider
  <2>2. Serial'
    BY <1>6 DEF Inv, TokenTypeOK, Serial, Refreshing, Ask, Answers, Goes, Release
  <2>3. SpendsFound'
    BY <1>6 DEF Inv, TokenTypeOK, SpendsFound, Ask, Answers, Goes, provider
  <2>4. SavesLive'
    BY <1>2, <1>6 DEF Inv, TokenTypeOK, SavesLive, Ask, Answers, Goes, provider
  <2>5. OwnSession'
    BY <1>2, <1>6 DEF Inv, TokenTypeOK, OwnSession, Ask, Answers, Goes
  <2>6. StoreLive'
    BY <1>2, <1>6 DEF Inv, TokenTypeOK, StoreLive, Ask, Answers, Goes, provider
  <2>7. QED
    BY <1>1, <2>1, <2>2, <2>3, <2>4, <2>5, <2>6 DEF Inv
<1>7. ASSUME NEW p \in Procs, TakeLock(p) PROVE Inv'
  <2>1. Issued'
    BY <1>7 DEF Inv, Issued, TakeLock, provider
  <2>2. Serial'
    BY <1>7 DEF Inv, Serial, Refreshing, TakeLock
  <2>3. SpendsFound'
    BY <1>7 DEF Inv, SpendsFound, TakeLock, provider
  <2>4. SavesLive'
    BY <1>2, <1>7 DEF Inv, SavesLive, TakeLock, provider
  <2>5. OwnSession'
    BY <1>2, <1>7 DEF Inv, OwnSession, TakeLock
  <2>6. StoreLive'
    BY <1>2, <1>7 DEF Inv, StoreLive, TakeLock, provider
  <2>7. QED
    BY <1>1, <2>1, <2>2, <2>3, <2>4, <2>5, <2>6 DEF Inv
<1>8. ASSUME NEW p \in Procs, Reread(p) PROVE Inv'
  <2>1. Issued'
    BY <1>8 DEF Inv, Issued, Reread, provider
  <2>2. Serial'
    BY <1>8 DEF Inv, TokenTypeOK, Serial, Refreshing, Reread, Answers, Goes
  <2>3. SpendsFound'
    BY <1>8 DEF Inv, TokenTypeOK, SpendsFound, Reread, Newer, LiveAt, Answers, Goes, provider
  <2>4. SavesLive'
    BY <1>2, <1>8 DEF Inv, TokenTypeOK, SavesLive, Reread, Answers, Goes, provider
  <2>5. OwnSession'
    BY <1>2, <1>8 DEF Inv, TokenTypeOK, OwnSession, Reread, Answers, Goes
  <2>6. StoreLive'
    BY <1>2, <1>8 DEF Inv, TokenTypeOK, StoreLive, Reread, Answers, Goes, provider
  <2>7. QED
    BY <1>1, <2>1, <2>2, <2>3, <2>4, <2>5, <2>6 DEF Inv
<1>9. ASSUME NEW p \in Procs, Refresh(p) PROVE Inv'
  <2>a. PICK rotates \in BOOLEAN :
          Issues(p, rotates) /\ reply' = [reply EXCEPT ![p] = Given(p, rotates)]
    BY <1>9 DEF Refresh
  <2>b. /\ issued' = issued + 1 /\ issued \in Nat
        /\ \A n \in honoured : (rotates /\ n = mem[p].refresh) \/ n \in honoured'
        /\ reply'[p].refresh = IF rotates THEN issued + 1 ELSE mem[p].refresh
        /\ reply'[p].refresh \in honoured'
        /\ \A q \in Procs : q # p => reply'[q] = reply[q]
    <3>1. mem[p].refresh \in honoured
      BY <1>9 DEF Refresh
    <3>2. QED
      BY <1>1, <2>a, <3>1, Issuing DEF TokenTypeOK
  <2>c. /\ at[p] = "asks" /\ at' = [at EXCEPT ![p] = "saves"]
        /\ mem' = mem /\ store' = store /\ found' = found /\ holder' = holder
    BY <1>9 DEF Refresh, Goes
  <2>d. \A q \in Procs : Refreshing(q) => q = p
    BY <2>c DEF Inv, Serial, Refreshing
  <2>1. Issued'
    BY <2>b, <2>c DEF Inv, Issued, TokenTypeOK, Tokens
  <2>2. Serial'
    BY <1>9 DEF Inv, Serial, Refreshing, Refresh, Goes
  <2>3. SpendsFound'
    BY <1>1, <2>c, <2>d DEF SpendsFound, Refreshing, TokenTypeOK
  <2>4. SavesLive'
    <3>1. ASSUME ~Disturbed', NEW q \in Procs, q # p, at[q] = "stores"
          PROVE  Live(reply[q])'
      BY <1>2, <2>b, <3>1 DEF Inv, SavesLive, OwnSession
    <3>2. QED
      BY <2>b, <2>c, <2>d, <3>1 DEF SavesLive, Refreshing
  <2>5. OwnSession'
    <3>1. ASSUME ~Disturbed', NEW q \in Procs, q # p, at[q] = "stores"
          PROVE  /\ store.refresh # reply[q].refresh
                 /\ \A r \in Procs : /\ mem[r].refresh # reply[q].refresh
                                     /\ r # q => reply'[r].refresh # reply[q].refresh
      <4>1. reply[q].refresh # issued + 1
        BY <1>1, <2>b DEF Inv, Issued, TokenTypeOK, Tokens
      <4>2. QED
        BY <1>2, <2>b, <3>1, <4>1 DEF Inv, OwnSession
    <3>2. QED
      BY <2>b, <2>c, <3>1 DEF OwnSession
  <2>6. StoreLive'
    BY <1>1, <2>b, <2>c DEF StoreLive, TokenTypeOK
  <2>7. QED
    BY <1>1, <2>1, <2>2, <2>3, <2>4, <2>5, <2>6 DEF Inv
<1>10. ASSUME NEW p \in Procs, Rejected(p) PROVE Inv'
  <2>1. Issued'
    BY <1>10 DEF Inv, Issued, Rejected, provider
  <2>2. Serial'
    BY <1>10 DEF Inv, TokenTypeOK, Serial, Refreshing, Rejected, Answers
  <2>3. SpendsFound'
    BY <1>10 DEF Inv, SpendsFound, Rejected, Answers, provider
  <2>4. SavesLive'
    BY <1>2, <1>10 DEF Inv, SavesLive, Rejected, Answers, provider
  <2>5. OwnSession'
    BY <1>2, <1>10 DEF Inv, OwnSession, Rejected, Answers
  <2>6. StoreLive'
    BY <1>2, <1>10 DEF Inv, StoreLive, Rejected, Answers, provider
  <2>7. QED
    BY <1>1, <2>1, <2>2, <2>3, <2>4, <2>5, <2>6 DEF Inv
<1>11. ASSUME NEW p \in Procs, Save(p) PROVE Inv'
  <2>1. Issued'
    BY <1>11 DEF Inv, Issued, Save, provider
  <2>2. Serial'
    BY <1>11 DEF Inv, TokenTypeOK, Serial, Refreshing, Save, Answers
  <2>3. SpendsFound'
    BY <1>11 DEF Inv, SpendsFound, Save, Answers, provider
  <2>4. SavesLive'
    BY <1>2, <1>11 DEF Inv, SavesLive, Save, Answers, provider
  <2>5. OwnSession'
    BY <1>2, <1>11 DEF Inv, OwnSession, Save, Answers
  <2>6. StoreLive'
    <3>1. Disturbed' \/ (Live(reply[p]) /\ store' = reply[p])
      BY <1>2, <1>11 DEF Inv, SavesLive, Save
    <3>2. honoured' = honoured
      BY <1>11 DEF Save, provider
    <3>3. QED
      BY <3>1, <3>2 DEF StoreLive
  <2>7. QED
    BY <1>1, <2>1, <2>2, <2>3, <2>4, <2>5, <2>6 DEF Inv
<1>12. ASSUME NEW p \in Procs, StoreLogin(p) PROVE Inv'
  <2>1. Issued'
    BY <1>12 DEF Inv, Issued, StoreLogin, provider
  <2>2. Serial'
    BY <1>12 DEF Inv, Serial, Refreshing, StoreLogin, Answers, Release
  <2>3. SpendsFound'
    BY <1>12 DEF Inv, SpendsFound, StoreLogin, Answers, provider
  <2>4. SavesLive'
    BY <1>2, <1>12 DEF Inv, SavesLive, StoreLogin, Answers, provider
  <2>5. OwnSession'
    BY <1>2, <1>12 DEF Inv, TokenTypeOK, OwnSession, StoreLogin, Answers
  <2>6. StoreLive'
    <3>1. Disturbed' \/ (Live(reply[p]) /\ store' = reply[p])
      BY <1>2, <1>12 DEF Inv, SavesLive, StoreLogin
    <3>2. honoured' = honoured
      BY <1>12 DEF StoreLogin, provider
    <3>3. QED
      BY <3>1, <3>2 DEF StoreLive
  <2>7. QED
    BY <1>1, <2>1, <2>2, <2>3, <2>4, <2>5, <2>6 DEF Inv
<1>13. ASSUME NEW p \in Procs, Login(p) PROVE Inv'
  <2>a. /\ issued' = issued + 1 /\ issued \in Nat
        /\ honoured \subseteq honoured'
        /\ \A q \in Procs : q # p => reply'[q] = reply[q]
        /\ at' = [at EXCEPT ![p] = "stores"]
        /\ mem' = mem /\ store' = store
    BY <1>1, <1>13 DEF Login, Goes, TokenTypeOK
  <2>b. \/ Disturbed'
        \/ reply'[p].refresh = issued + 1 /\ issued + 1 \in honoured'
    BY <1>1, <1>13 DEF Login, Trouble, Disturbed, TokenTypeOK
  <2>1. Issued'
    BY <1>13 DEF Inv, TokenTypeOK, Tokens, Issued, Login
  <2>2. Serial'
    BY <1>13 DEF Inv, Serial, Refreshing, Login, Goes
  <2>3. SpendsFound'
    BY <1>1, <1>2, <1>13 DEF Inv, TokenTypeOK, Tokens, SpendsFound, Login, Trouble, Goes, provider
  <2>4. SavesLive'
    BY <1>2, <2>a, <2>b DEF Inv, SavesLive
  <2>5. OwnSession'
    <3>1. Disturbed' \/ OwnSession
      BY DEF Inv
    <3>2. /\ store.refresh # issued + 1
          /\ \A q \in Procs : mem[q].refresh # issued + 1 /\ reply[q].refresh # issued + 1
      BY <2>a DEF Inv, Issued
    <3>3. QED
      BY <1>2, <2>a, <2>b, <3>1, <3>2 DEF OwnSession
  <2>6. StoreLive'
    <3>1. at[p] = "idle"
      BY <1>13 DEF Login
    <3>2. ASSUME Live(store) PROVE Live(store)'
      BY <2>a, <3>2 DEF Live
    <3>3. ASSUME NEW q \in Procs, at[q] = "saves", Live(reply[q])
          PROVE at'[q] = "saves" /\ Live(reply[q])'
      BY <1>1, <2>a, <3>1, <3>3 DEF Live, TokenTypeOK
    <3>4. QED
      BY <1>2, <3>2, <3>3 DEF Inv, StoreLive
  <2>7. QED
    BY <1>1, <2>1, <2>2, <2>3, <2>4, <2>5, <2>6 DEF Inv
<1>14. ASSUME NEW p \in Procs, GivesUp(p) PROVE Inv'
  <2>1. Issued'
    BY <1>14 DEF Inv, Issued, GivesUp, provider
  <2>2. Serial'
    BY <1>14 DEF Inv, Serial, Refreshing, GivesUp, Answers, Release
  <2>3. SpendsFound'
    BY <1>14 DEF Inv, SpendsFound, GivesUp, Answers, provider
  <2>4. SavesLive'
    BY <1>2, <1>14 DEF Inv, SavesLive, GivesUp, Answers, provider
  <2>5. OwnSession'
    BY <1>2, <1>14 DEF Inv, OwnSession, GivesUp, Answers
  <2>6. StoreLive'
    BY <1>2, <1>14 DEF Inv, StoreLive, GivesUp, Answers, provider
  <2>7. QED
    BY <1>1, <2>1, <2>2, <2>3, <2>4, <2>5, <2>6 DEF Inv
<1>15. ASSUME NEW p \in Procs, Unanswered(p) PROVE Inv'
  <2>a. /\ at[p] = "asks" /\ at' = [at EXCEPT ![p] = "idle"]
        /\ mem' = mem /\ store' = store /\ found' = found /\ reply' = reply
    BY <1>15 DEF Unanswered, Answers
  <2>b. \/ UNCHANGED provider
        \/ Disturbed' /\ issued' = issued + 1
    BY <1>15 DEF Unanswered, Trouble, Disturbed, Issues
  <2>c. \A q \in Procs : Refreshing(q) => q = p
    BY <2>a DEF Inv, Serial, Refreshing
  <2>1. Issued'
    BY <2>a, <2>b DEF Inv, Issued, TokenTypeOK, Tokens, provider
  <2>2. Serial'
    BY <1>15 DEF Inv, TokenTypeOK, Serial, Refreshing, Unanswered, Answers
  <2>3. SpendsFound'
    BY <1>1, <2>a, <2>c DEF SpendsFound, Refreshing, TokenTypeOK
  <2>4. SavesLive'
    BY <1>2, <2>a, <2>b DEF Inv, SavesLive, provider
  <2>5. OwnSession'
    BY <1>2, <2>a DEF Inv, OwnSession
  <2>6. StoreLive'
    BY <1>2, <2>a, <2>b DEF Inv, StoreLive, provider
  <2>7. QED
    BY <1>1, <2>1, <2>2, <2>3, <2>4, <2>5, <2>6 DEF Inv
<1>16. ASSUME NEW p \in Procs, SaveFails(p) PROVE Inv'
  <2>a. Disturbed'
    BY <1>16 DEF SaveFails, Trouble, Disturbed
  <2>1. Issued'
    BY <1>16 DEF Inv, Issued, SaveFails, provider
  <2>2. Serial'
    BY <1>16 DEF Inv, TokenTypeOK, Serial, Refreshing, SaveFails, Answers, Release, Refreshing
  <2>3. SpendsFound'
    BY <1>16 DEF Inv, SpendsFound, SaveFails, Answers, provider
  <2>4. SavesLive'
    BY <2>a DEF SavesLive
  <2>5. OwnSession'
    BY <2>a DEF OwnSession
  <2>6. StoreLive'
    BY <2>a DEF StoreLive
  <2>7. QED
    BY <1>1, <2>1, <2>2, <2>3, <2>4, <2>5, <2>6 DEF Inv
<1>17. ASSUME NEW p \in Procs, Unreadable(p) PROVE Inv'
  <2>1. Issued'
    BY <1>17 DEF Inv, Issued, Unreadable, provider
  <2>2. Serial'
    BY <1>17 DEF Inv, TokenTypeOK, Serial, Refreshing, Unreadable, Answers, Goes, Release
  <2>3. SpendsFound'
    BY <1>17 DEF Inv, TokenTypeOK, SpendsFound, Unreadable, Answers, Goes, provider
  <2>4. SavesLive'
    BY <1>2, <1>17 DEF Inv, TokenTypeOK, SavesLive, Unreadable, Answers, Goes, provider
  <2>5. OwnSession'
    BY <1>2, <1>17 DEF Inv, TokenTypeOK, OwnSession, Unreadable, Answers, Goes
  <2>6. StoreLive'
    BY <1>2, <1>17 DEF Inv, TokenTypeOK, StoreLive, Unreadable, Answers, Goes, provider
  <2>7. QED
    BY <1>1, <2>1, <2>2, <2>3, <2>4, <2>5, <2>6 DEF Inv
<1>18. ASSUME NEW p \in Procs, Killed(p) PROVE Inv'
  <2>a. Disturbed'
    BY <1>18 DEF Killed, Trouble, Disturbed
  <2>1. Issued'
    BY <1>18 DEF Inv, TokenTypeOK, Issued, Killed, NoTokens, provider
  <2>2. Serial'
    BY <1>18 DEF Inv, TokenTypeOK, Serial, Refreshing, Killed, Answers, Release, Refreshing
  <2>3. SpendsFound'
    BY <1>18 DEF Inv, TokenTypeOK, SpendsFound, Killed, Answers, provider
  <2>4. SavesLive'
    BY <2>a DEF SavesLive
  <2>5. OwnSession'
    BY <2>a DEF OwnSession
  <2>6. StoreLive'
    BY <2>a DEF StoreLive
  <2>7. QED
    BY <1>1, <2>1, <2>2, <2>3, <2>4, <2>5, <2>6 DEF Inv
<1>19. QED
  BY <1>3, <1>4, <1>5, <1>6, <1>7, <1>8, <1>9, <1>10, <1>11, <1>12, <1>13, <1>14, <1>15, <1>16, <1>17, <1>18 DEF TokenNext, Step, Environment

\* The invariant holds initially.
LEMMA Initially == TokenInit => Inv
<1> SUFFICES ASSUME TokenInit PROVE Inv
  OBVIOUS
<1>1. TokenTypeOK
  BY DEF TokenInit, TokenTypeOK, Tokens, Places, NoTokens
<1>2. Live(store)
  BY DEF TokenInit, Live
<1>3. \A p \in Procs : at[p] = "idle" /\ mem[p] = NoTokens /\ reply[p] = NoTokens
  BY DEF TokenInit
<1>4. Issued /\ Serial /\ SpendsFound /\ SavesLive /\ OwnSession /\ StoreLive
  BY <1>2 DEF TokenInit, NoTokens, Issued, Serial, Refreshing, SpendsFound, SavesLive, OwnSession, StoreLive
<1>5. QED
  BY <1>1, <1>4 DEF Inv

\* Types are correct, locks or none: every field the code keeps of a session
\* stays what device.go declares it to be.
THEOREM TypeCorrect == TokenSpec => []TokenTypeOK
<1>1. TokenInit => TokenTypeOK
  BY Initially DEF Inv
<1>2. TokenTypeOK /\ [TokenNext]_tokenVars => TokenTypeOK'
  BY Types
<1>3. QED
  BY <1>1, <1>2, PTL DEF TokenSpec

\* Where flock exists (store_lock_unix.go), the invariant holds in every
\* reachable state: refreshes exclude each other, and each spends what it found.
THEOREM Invariant == ASSUME Locks PROVE TokenSpec => []Inv
<1>1. Inv /\ [TokenNext]_tokenVars => Inv'
  BY Steps
<1>2. QED
  BY <1>1, Initially, PTL DEF TokenSpec

\* Refreshes happen one at a time (store_lock_unix.go:15-22).
THEOREM OneAtATime == ASSUME Locks PROVE TokenSpec => []Serial
<1>1. Inv => Serial
  BY DEF Inv
<1>2. QED
  BY <1>1, Invariant, PTL

\* The session the file holds stays alive, or is about to be replaced by its
\* successor, as long as no refresh is cut short (device.go:349-353).
THEOREM SessionKept == ASSUME Locks PROVE TokenSpec => []StoreLive
<1>1. Inv => StoreLive
  BY DEF Inv
<1>2. QED
  BY <1>1, Invariant, PTL

\* A process that found a live session in the file is never told to log in
\* (store_lock_unix.go:17-22), whatever else fails.
THEOREM NobodyLoggedOut == ASSUME Locks PROVE TokenSpec => NotLoggedOut
<1>1. ASSUME Inv, NEW p \in Procs, Rejected(p) PROVE "file" \notin found[p]
  BY <1>1 DEF Inv, SpendsFound, Rejected
<1>2. Inv => [\A p \in Procs : Rejected(p) => "file" \notin found[p]]_tokenVars
  BY <1>1
<1>3. QED
  BY <1>2, Invariant, PTL DEF NotLoggedOut
=============================================================================
