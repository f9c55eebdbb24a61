--------------------------- MODULE TxStore_proofs ---------------------------
(***************************************************************************)
(* The transaction list, for every set of users, every call, every state   *)
(* of the contracts and every behaviour of the network: the records, the   *)
(* node's queue and the ledger fit together, a write reported as refused   *)
(* never takes effect, and every step is one that TxLifecycle allows.      *)
(* Then the chain under the app: the engine's invariant holds whatever the *)
(* app sends, the forms show the numbers the contracts compute, the rows   *)
(* those at the page's own price, and the forms offer what is taken.       *)
(***************************************************************************)
EXTENDS TxStore, PerpEngine_proofs, SequenceTheorems, TLAPS

-----------------------------------------------------------------------------
(* The invariant.                                                          *)

IsSequence(s) == \E S : s \in Seq(S)

\* A write alone.  Its call is whatever a form built.
WriteOK(w) ==
    /\ DOMAIN w = {"call", "status", "error", "account", "seq", "prepared", "tx", "retried"}
    /\ w.status \in Statuses \cup {"dropped"} /\ w.error \in Errors
    /\ w.error # "none" <=> w.status = "failed"
    /\ w.account \in Users \cup {NoUser} /\ w.seq \in Nat
    /\ w.account = NoUser => w.status = "failed" /\ w.seq = 0

\* A write among the others, the account numbers and the ledger: a transaction
\* is only built for an account that exists, it has a hash once it was sent, and
\* what a record claims to be sure of is the ledger's word.
Fits(w, ws, seqs, ledger) ==
    /\ w.seq # 0 => seqs[w.account] # 0
    /\ w.tx \in {0} \cup DOMAIN ws
    /\ w.status = "signing" => w.tx = 0
    /\ w.status \in {"pending", "confirmed"} => w.tx # 0
    /\ w.status = "confirmed" => ledger[w.tx] = "success"
    /\ w.error = "refused" => w.tx = 0 \/ ledger[w.tx] = "failed"
    /\ w.retried \in {0} \cup {k \in DOMAIN ws : ws[k].status = "failed"}

WritesFit(ws, seqs, ledger) ==
    /\ IsSequence(ws)
    /\ DOMAIN ws \subseteq Ids
    /\ \A i \in DOMAIN ws : WriteOK(ws[i]) /\ Fits(ws[i], ws, seqs, ledger)

\* The list: runs of this page, newest first.
ListFits(list, ws) ==
    /\ IsSequence(list) /\ Len(list) <= MaxRecords
    /\ \A k \in DOMAIN list : list[k] \in DOMAIN ws
    /\ \A k, l \in DOMAIN list : k < l => list[k] > list[l]

\* The node holds for an account what it accepted: sent, next in number, and not
\* in the ledger.
Held(k, u, ws, seqs, ledger) ==
    /\ k \in DOMAIN ws
    /\ ws[k].account = u /\ ws[k].seq = seqs[u] + 1
    /\ ws[k].status # "signing"
    /\ ledger[k] = "no"

NetworkFits(ws, held, seqs, ledger) ==
    /\ seqs \in [Users -> Nat]
    /\ held \in [Users -> {0} \cup Ids]
    /\ \A u \in Users : held[u] # 0 => Held(held[u], u, ws, seqs, ledger)
    /\ ledger \in [Ids -> {"no", "success", "failed"}]
    /\ \A i \in Ids : ledger[i] # "no" => i \in DOMAIN ws /\ ws[i].status # "signing"

BoundsOK ==
    /\ wallet \in Users \cup {NoUser}
    /\ faults \in 0 .. MaxFaults /\ moves \in 0 .. MaxMoves

TxInv ==
    /\ WritesFit(writes, lastSeq, landed)
    /\ ListFits(txs, writes)
    /\ NetworkFits(writes, queue, lastSeq, landed)
    /\ BoundsOK

-----------------------------------------------------------------------------
(* The list of runs: one more, one changed, all dropped.                   *)

LEMMA StartedIsInterval ==
    ASSUME NEW s, IsSequence(s)
    PROVE  Len(s) \in Nat /\ DOMAIN s = 1 .. Len(s)
BY LenProperties DEF IsSequence

LEMMA AppendFacts ==
    ASSUME NEW s, IsSequence(s), NEW w
    PROVE  /\ IsSequence(Append(s, w))
           /\ DOMAIN Append(s, w) = DOMAIN s \cup {Len(s) + 1}
           /\ Append(s, w)[Len(s) + 1] = w
           /\ \A i \in DOMAIN s : Append(s, w)[i] = s[i]
           /\ Len(s) + 1 \notin DOMAIN s
<1>1. PICK S : s \in Seq(S)
  BY DEF IsSequence
<1> DEFINE T == S \cup {w}
<1>2. s \in Seq(T) /\ w \in T
  BY <1>1, SeqMonotonic
<1>3. /\ Append(s, w) \in Seq(T)
      /\ Len(Append(s, w)) = Len(s) + 1
      /\ \A i \in 1 .. Len(s) : Append(s, w)[i] = s[i]
      /\ Append(s, w)[Len(s) + 1] = w
  <2>1. HIDE DEF T
  <2>2. QED
    BY <1>2, AppendProperties
<1>4. /\ Len(s) \in Nat /\ DOMAIN s = 1 .. Len(s)
      /\ DOMAIN Append(s, w) = 1 .. Len(s) + 1
  BY <1>2, <1>3, LenProperties
<1>5. IsSequence(Append(s, w))
  BY <1>3 DEF IsSequence
<1>6. QED
  BY <1>3, <1>4, <1>5

LEMMA ExceptFacts ==
    ASSUME NEW s, IsSequence(s), NEW i \in DOMAIN s, NEW w
    PROVE  /\ IsSequence([s EXCEPT ![i] = w])
           /\ DOMAIN [s EXCEPT ![i] = w] = DOMAIN s
           /\ [s EXCEPT ![i] = w][i] = w
           /\ \A j \in DOMAIN s \ {i} : [s EXCEPT ![i] = w][j] = s[j]
<1>1. PICK S : s \in Seq(S)
  BY DEF IsSequence
<1> DEFINE T == S \cup {w}
<1>2. s \in Seq(T) /\ w \in T
  BY <1>1, SeqMonotonic
<1>3. DOMAIN s = 1 .. Len(s)
  BY <1>1, LenProperties
<1>4. [s EXCEPT ![i] = w] \in Seq(T)
  <2>1. HIDE DEF T
  <2>2. QED
    BY <1>2, <1>3, ExceptSeq
<1>5. IsSequence([s EXCEPT ![i] = w])
  BY <1>4 DEF IsSequence
<1>6. QED
  BY <1>5

\* A function over the same indices is a sequence.
LEMMA MapFacts ==
    ASSUME NEW s, IsSequence(s), NEW f, DOMAIN f = DOMAIN s, f = [i \in DOMAIN s |-> f[i]]
    PROVE  IsSequence(f)
<1>1. Len(s) \in Nat /\ DOMAIN s = 1 .. Len(s)
  BY StartedIsInterval
<1> DEFINE S == {f[i] : i \in DOMAIN s}
<1>2. f \in [1 .. Len(s) -> S]
  BY <1>1
<1>3. f \in Seq(S)
  <2>1. HIDE DEF S
  <2>2. QED
    BY <1>1, <1>2, SeqDef
<1>4. QED
  BY <1>3 DEF IsSequence

-----------------------------------------------------------------------------
(* What a change of one part leaves of the others.                         *)

\* A run that has not failed takes its next step.
LEMMA PutWrites ==
    ASSUME NEW ws, NEW seqs, NEW ledger, WritesFit(ws, seqs, ledger),
           NEW i \in DOMAIN ws, ws[i].status # "failed",
           NEW w, WriteOK(w), Fits(w, ws, seqs, ledger)
    PROVE  WritesFit([ws EXCEPT ![i] = w], seqs, ledger)
<1> DEFINE new == [ws EXCEPT ![i] = w]
<1>1. /\ IsSequence(new) /\ DOMAIN new = DOMAIN ws /\ new[i] = w
      /\ \A j \in DOMAIN ws \ {i} : new[j] = ws[j]
  BY ExceptFacts DEF WritesFit
<1>2. HIDE DEF new
<1>3. {k \in DOMAIN ws : ws[k].status = "failed"} \subseteq {k \in DOMAIN new : new[k].status = "failed"}
  BY <1>1
<1>4. ASSUME NEW v, Fits(v, ws, seqs, ledger)
      PROVE  Fits(v, new, seqs, ledger)
  BY <1>1, <1>3, <1>4 DEF Fits
<1>5. \A j \in DOMAIN new : WriteOK(new[j]) /\ Fits(new[j], new, seqs, ledger)
  BY <1>1, <1>4 DEF WritesFit
<1>6. QED
  BY <1>1, <1>5 DEF WritesFit, new

\* A run begins.
LEMMA AppendWrites ==
    ASSUME NEW ws, NEW seqs, NEW ledger, WritesFit(ws, seqs, ledger), Len(ws) + 1 \in Ids,
           NEW w, WriteOK(w), Fits(w, ws, seqs, ledger)
    PROVE  WritesFit(Append(ws, w), seqs, ledger)
<1> DEFINE new == Append(ws, w)
           n == Len(ws) + 1
<1>1. /\ IsSequence(new) /\ DOMAIN new = DOMAIN ws \cup {n} /\ new[n] = w
      /\ \A j \in DOMAIN ws : new[j] = ws[j]
  BY AppendFacts DEF WritesFit
<1>2. HIDE DEF new, n
<1>3. {k \in DOMAIN ws : ws[k].status = "failed"} \subseteq {k \in DOMAIN new : new[k].status = "failed"}
  BY <1>1
<1>4. ASSUME NEW v, Fits(v, ws, seqs, ledger)
      PROVE  Fits(v, new, seqs, ledger)
  BY <1>1, <1>3, <1>4 DEF Fits
<1>5. \A j \in DOMAIN new : WriteOK(new[j]) /\ Fits(new[j], new, seqs, ledger)
  BY <1>1, <1>4 DEF WritesFit
<1>6. QED
  BY <1>1, <1>5 DEF WritesFit, new, n

\* The page goes away: what is not settled is dropped.
LEMMA DropWrites ==
    ASSUME NEW ws, NEW seqs, NEW ledger, WritesFit(ws, seqs, ledger),
           NEW new,
           new = [i \in DOMAIN ws |-> IF ws[i].status \in {"signing", "pending"}
                                      THEN [ws[i] EXCEPT !.status = "dropped"] ELSE ws[i]]
    PROVE  WritesFit(new, seqs, ledger)
<1>1. IsSequence(new) /\ DOMAIN new = DOMAIN ws
  BY MapFacts DEF WritesFit
<1>2. {k \in DOMAIN ws : ws[k].status = "failed"} \subseteq {k \in DOMAIN new : new[k].status = "failed"}
  BY <1>1
<1>3. ASSUME NEW i \in DOMAIN ws
      PROVE  WriteOK(new[i]) /\ Fits(new[i], new, seqs, ledger)
  <2>1. WriteOK(ws[i]) /\ Fits(ws[i], ws, seqs, ledger)
    BY DEF WritesFit
  <2>2. CASE ws[i].status \in {"signing", "pending"}
    <3>1. new[i] = [ws[i] EXCEPT !.status = "dropped"]
      BY <2>2
    <3>2. /\ DOMAIN new[i] = DOMAIN ws[i] /\ new[i].status = "dropped"
          /\ \A f \in DOMAIN ws[i] \ {"status"} : new[i][f] = ws[i][f]
      BY <2>1, <3>1 DEF WriteOK
    <3>3. /\ new[i].error = ws[i].error /\ new[i].account = ws[i].account
          /\ new[i].seq = ws[i].seq /\ new[i].tx = ws[i].tx /\ new[i].retried = ws[i].retried
      BY <2>1, <3>1 DEF WriteOK
    <3>4. WriteOK(new[i])
      BY <2>1, <2>2, <3>2, <3>3 DEF WriteOK, Statuses
    <3>5. Fits(new[i], new, seqs, ledger)
      BY <1>1, <1>2, <2>1, <2>2, <3>2, <3>3 DEF Fits, WriteOK
    <3>6. QED
      BY <3>4, <3>5
  <2>3. CASE ws[i].status \notin {"signing", "pending"}
    <3>1. new[i] = ws[i]
      BY <2>3
    <3>2. QED
      BY <1>1, <1>2, <2>1, <3>1 DEF Fits
  <2>4. QED
    BY <2>2, <2>3
<1>4. QED
  BY <1>1, <1>3 DEF WritesFit

\* Accounts are created and numbers used, and the ledger forgets nothing.
LEMMA LedgerWrites ==
    ASSUME NEW ws, NEW seqs, NEW ledger, WritesFit(ws, seqs, ledger), NEW seqs2, NEW ledger2,
           \A u \in Users \cup {NoUser} : seqs[u] # 0 => seqs2[u] # 0,
           \A i \in Ids : ledger[i] # "no" => ledger2[i] = ledger[i]
    PROVE  WritesFit(ws, seqs2, ledger2)
<1>1. ASSUME NEW i \in DOMAIN ws
      PROVE  Fits(ws[i], ws, seqs2, ledger2)
  <2>1. WriteOK(ws[i]) /\ Fits(ws[i], ws, seqs, ledger) /\ DOMAIN ws \subseteq Ids
    BY DEF WritesFit
  <2>2. ws[i].tx = 0 \/ ws[i].tx \in Ids
    BY <2>1 DEF Fits
  <2>3. QED
    BY <2>1, <2>2 DEF Fits, WriteOK, Ids
<1>2. QED
  BY <1>1 DEF WritesFit

\* The node and the ledger do not see what a run does before it sends, nor what
\* it makes of an answer.
LEMMA PutNetwork ==
    ASSUME NEW ws, NEW held, NEW seqs, NEW ledger, NetworkFits(ws, held, seqs, ledger),
           IsSequence(ws), NEW i \in DOMAIN ws, NEW w,
           \/ ws[i].status = "signing"
           \/ w.account = ws[i].account /\ w.seq = ws[i].seq /\ w.status # "signing"
    PROVE  NetworkFits([ws EXCEPT ![i] = w], held, seqs, ledger)
<1> DEFINE new == [ws EXCEPT ![i] = w]
<1>1. /\ DOMAIN new = DOMAIN ws /\ new[i] = w
      /\ \A j \in DOMAIN ws \ {i} : new[j] = ws[j]
  BY ExceptFacts
<1>2. HIDE DEF new
<1>3. ASSUME NEW u \in Users, held[u] # 0
      PROVE  Held(held[u], u, new, seqs, ledger)
  BY <1>1, <1>3 DEF NetworkFits, Held
<1>4. ASSUME NEW j \in Ids, ledger[j] # "no"
      PROVE  j \in DOMAIN new /\ new[j].status # "signing"
  BY <1>1, <1>4 DEF NetworkFits
<1>5. QED
  BY <1>3, <1>4 DEF NetworkFits, new

LEMMA AppendNetwork ==
    ASSUME NEW ws, NEW held, NEW seqs, NEW ledger, NetworkFits(ws, held, seqs, ledger),
           IsSequence(ws), NEW w
    PROVE  NetworkFits(Append(ws, w), held, seqs, ledger)
<1> DEFINE new == Append(ws, w)
<1>1. DOMAIN ws \subseteq DOMAIN new /\ \A j \in DOMAIN ws : new[j] = ws[j]
  BY AppendFacts
<1>2. HIDE DEF new
<1>3. ASSUME NEW u \in Users, held[u] # 0
      PROVE  Held(held[u], u, new, seqs, ledger)
  BY <1>1, <1>3 DEF NetworkFits, Held
<1>4. QED
  BY <1>1, <1>3 DEF NetworkFits, new

LEMMA DropNetwork ==
    ASSUME NEW ws, NEW held, NEW seqs, NEW ledger, NetworkFits(ws, held, seqs, ledger),
           WritesFit(ws, seqs, ledger), NEW new,
           new = [i \in DOMAIN ws |-> IF ws[i].status \in {"signing", "pending"}
                                      THEN [ws[i] EXCEPT !.status = "dropped"] ELSE ws[i]]
    PROVE  NetworkFits(new, held, seqs, ledger)
<1>1. ASSUME NEW i \in DOMAIN ws
      PROVE  /\ new[i].account = ws[i].account /\ new[i].seq = ws[i].seq
             /\ new[i].status # "signing"
  BY DEF WritesFit, WriteOK
<1>2. DOMAIN new = DOMAIN ws
  OBVIOUS
<1>3. ASSUME NEW u \in Users, held[u] # 0
      PROVE  Held(held[u], u, new, seqs, ledger)
  BY <1>1, <1>2, <1>3 DEF NetworkFits, Held
<1>4. QED
  BY <1>1, <1>2, <1>3 DEF NetworkFits

\* The node takes what was sent with the next number.
LEMMA EnqueueNetwork ==
    ASSUME NEW ws, NEW held, NEW seqs, NEW ledger, NetworkFits(ws, held, seqs, ledger),
           NEW u \in Users, NEW i \in Ids, Held(i, u, ws, seqs, ledger)
    PROVE  NetworkFits(ws, [held EXCEPT ![u] = i], seqs, ledger)
BY DEF NetworkFits

\* It lets go of one.
LEMMA DequeueNetwork ==
    ASSUME NEW ws, NEW held, NEW seqs, NEW ledger, NetworkFits(ws, held, seqs, ledger),
           NEW u \in Users
    PROVE  NetworkFits(ws, [held EXCEPT ![u] = 0], seqs, ledger)
BY DEF NetworkFits

\* The ledger includes one: the number is used up, and no other account's
\* transaction is touched.
LEMMA IncludeNetwork ==
    ASSUME NEW ws, NEW held, NEW seqs, NEW ledger, NetworkFits(ws, held, seqs, ledger),
           NEW u \in Users, held[u] # 0, NEW r \in {"success", "failed"}
    PROVE  NetworkFits(ws, [held EXCEPT ![u] = 0], [seqs EXCEPT ![u] = @ + 1],
                       [ledger EXCEPT ![held[u]] = r])
<1> DEFINE k == held[u]
           seqs2 == [seqs EXCEPT ![u] = @ + 1]
           ledger2 == [ledger EXCEPT ![k] = r]
           held2 == [held EXCEPT ![u] = 0]
<1>1. Held(k, u, ws, seqs, ledger) /\ k \in Ids
  BY DEF NetworkFits
<1>2. seqs2 \in [Users -> Nat] /\ held2 \in [Users -> {0} \cup Ids]
  BY DEF NetworkFits
<1>3. ledger2 \in [Ids -> {"no", "success", "failed"}]
  BY <1>1 DEF NetworkFits
<1>4. ASSUME NEW v \in Users, held2[v] # 0
      PROVE  Held(held2[v], v, ws, seqs2, ledger2)
  <2>1. v # u /\ held2[v] = held[v] /\ seqs2[v] = seqs[v]
    BY <1>4 DEF NetworkFits
  <2>2. Held(held[v], v, ws, seqs, ledger) /\ held[v] \in Ids
    BY <1>4, <2>1 DEF NetworkFits
  <2>3. held[v] # k
    BY <1>1, <2>1, <2>2 DEF Held
  <2>4. ledger2[held[v]] = ledger[held[v]]
    BY <2>2, <2>3 DEF NetworkFits
  <2>5. QED
    BY <2>1, <2>2, <2>4 DEF Held
<1>5. ASSUME NEW i \in Ids, ledger2[i] # "no"
      PROVE  i \in DOMAIN ws /\ ws[i].status # "signing"
  <2>1. CASE i = k
    BY <1>1, <2>1 DEF Held
  <2>2. CASE i # k
    BY <1>5, <2>2 DEF NetworkFits
  <2>3. QED
    BY <2>1, <2>2
<1>6. QED
  BY <1>2, <1>3, <1>4, <1>5 DEF NetworkFits

\* An account that begins to exist had nothing at the node.
LEMMA CreateNetwork ==
    ASSUME NEW ws, NEW held, NEW seqs, NEW ledger, NetworkFits(ws, held, seqs, ledger),
           WritesFit(ws, seqs, ledger), NEW u \in Users, seqs[u] = 0
    PROVE  NetworkFits(ws, held, [seqs EXCEPT ![u] = 1], ledger)
<1> DEFINE seqs2 == [seqs EXCEPT ![u] = 1]
<1>1. seqs2 \in [Users -> Nat]
  BY DEF NetworkFits
<1>2. ASSUME NEW v \in Users, held[v] # 0
      PROVE  Held(held[v], v, ws, seqs2, ledger)
  <2>1. Held(held[v], v, ws, seqs, ledger)
    BY <1>2 DEF NetworkFits
  <2>2. CASE v = u
    <3>1. ws[held[v]].seq = 1 /\ ws[held[v]].account = u
      BY <2>1, <2>2 DEF Held
    <3>2. Fits(ws[held[v]], ws, seqs, ledger)
      BY <2>1 DEF Held, WritesFit
    <3>3. QED
      BY <3>1, <3>2 DEF Fits
  <2>3. CASE v # u
    BY <2>1, <2>3 DEF Held, NetworkFits
  <2>4. QED
    BY <2>2, <2>3
<1>3. QED
  BY <1>1, <1>2 DEF NetworkFits

\* The newest run heads the list, and the oldest fall off its end.
LEMMA PushList ==
    ASSUME NEW list, NEW ws, NEW i \in Nat \ {0}, ListFits(list, ws), DOMAIN ws = 1 .. i - 1,
           NEW new, DOMAIN new = 1 .. i
    PROVE  ListFits(SubSeq(<<i>> \o list, 1, MinOf(Len(list) + 1, MaxRecords)), new)
<1> DEFINE whole == <<i>> \o list
           n == MinOf(Len(list) + 1, MaxRecords)
           cut == SubSeq(whole, 1, n)
<1>1. PICK S : list \in Seq(S)
  BY DEF ListFits, IsSequence
<1>2. Len(list) \in Nat /\ DOMAIN list = 1 .. Len(list)
  BY <1>1, LenProperties
<1> DEFINE T == S \cup {i}
<1>3. list \in Seq(T) /\ <<i>> \in Seq(T)
  BY <1>1, SeqMonotonic
<1>4. Len(<<i>>) = 1 /\ <<i>>[1] = i
  OBVIOUS
<1>5. /\ whole \in Seq(T)
      /\ Len(whole) = Len(list) + 1
      /\ \A k \in 1 .. Len(list) + 1 : whole[k] = IF k <= 1 THEN <<i>>[k] ELSE list[k - 1]
  <2>1. HIDE DEF T
  <2>2. QED
    BY <1>2, <1>3, <1>4, ConcatProperties
<1>6. n \in Nat /\ 1 <= n /\ n <= MaxRecords /\ n <= Len(list) + 1
  BY <1>2, TxAssumption DEF MinOf
<1>7. HIDE DEF whole, n
<1>8. \A k \in 1 .. n : whole[k] \in T
  <2>1. \A k \in 1 .. Len(whole) : whole[k] \in T
    <3>1. HIDE DEF T
    <3>2. QED
      BY <1>5, LenProperties
  <2>2. QED
    BY <1>5, <1>6, <1>2, <2>1
<1>9. cut \in Seq(T) /\ Len(cut) = n /\ \A k \in 1 .. n : cut[k] = whole[k]
  <2>1. /\ cut \in Seq(T)
        /\ Len(cut) = IF 1 <= n THEN n - 1 + 1 ELSE 0
        /\ \A k \in 1 .. n - 1 + 1 : cut[k] = whole[1 + k - 1]
    <3>1. HIDE DEF T
    <3>2. n \in Int /\ 1 \in Int
      BY <1>6
    <3>3. QED
      BY <1>8, <3>2, SubSeqProperties
  <2>2. n - 1 + 1 = n /\ \A k \in 1 .. n : 1 + k - 1 = k
    BY <1>6
  <2>3. QED
    BY <1>6, <2>1, <2>2
<1>10. DOMAIN cut = 1 .. n
  BY <1>9, LenProperties
<1>11. HIDE DEF cut
<1>12. \A k \in 1 .. n : cut[k] = IF k = 1 THEN i ELSE list[k - 1]
  BY <1>2, <1>4, <1>5, <1>6, <1>9
<1>13. \A k \in 1 .. n : k # 1 => k - 1 \in DOMAIN list
  BY <1>2, <1>6
<1>14. \A k \in DOMAIN list : list[k] \in 1 .. i - 1
  BY DEF ListFits
<1>15. \A k \in DOMAIN cut : cut[k] \in DOMAIN new
  <2>1. 1 .. i - 1 \subseteq 1 .. i /\ i \in 1 .. i
    OBVIOUS
  <2>2. QED
    BY <1>10, <1>12, <1>13, <1>14, <2>1
<1>16. ASSUME NEW k \in DOMAIN cut, NEW l \in DOMAIN cut, k < l
       PROVE  cut[k] > cut[l]
  <2>1. l # 1 /\ l - 1 \in DOMAIN list /\ cut[l] = list[l - 1]
    BY <1>6, <1>10, <1>12, <1>13, <1>16
  <2>2. CASE k = 1
    BY <1>10, <1>12, <1>14, <2>1, <2>2
  <2>3. CASE k # 1
    <3>1. k - 1 \in DOMAIN list /\ cut[k] = list[k - 1] /\ k - 1 < l - 1
      BY <1>10, <1>12, <1>13, <1>16, <2>3
    <3>2. QED
      BY <2>1, <3>1 DEF ListFits
  <2>4. QED
    BY <2>2, <2>3
<1>17. IsSequence(cut) /\ Len(cut) <= MaxRecords
  BY <1>6, <1>9 DEF IsSequence
<1>18. QED
  BY <1>15, <1>16, <1>17 DEF ListFits, cut, whole, n

-----------------------------------------------------------------------------
(* The steps of the store.                                                 *)

LEMMA InitInv ==
    WebInit => TxInv
<1> SUFFICES ASSUME WebInit PROVE TxInv
  OBVIOUS
<1>1. IsSequence(<<>>) /\ Len(<<>>) = 0 /\ DOMAIN <<>> = {}
  <2>1. <<>> \in Seq({})
    OBVIOUS
  <2>2. QED
    BY <2>1, LenProperties DEF IsSequence
<1>2. writes = <<>> /\ txs = <<>>
  BY DEF WebInit
<1>3. WritesFit(writes, lastSeq, landed)
  BY <1>1, <1>2 DEF WritesFit
<1>4. ListFits(txs, writes)
  BY <1>1, <1>2, TxAssumption DEF ListFits
<1>5. NetworkFits(writes, queue, lastSeq, landed)
  BY DEF WebInit, NetworkFits
<1>6. BoundsOK
  BY TxAssumption DEF WebInit, BoundsOK
<1>7. QED
  BY <1>3, <1>4, <1>5, <1>6 DEF TxInv

\* A run that begins, from a form or from the record of an earlier one.
LEMMA StartInv ==
    ASSUME TxInv, NEW call, NEW retried, Start(call, retried),
           retried \in {0} \cup {k \in Started : writes[k].status = "failed"}
    PROVE  TxInv'
<1> DEFINE i == Len(writes) + 1
           w == IF wallet = NoUser THEN NewWrite(call, "failed", "refused", retried)
                ELSE NewWrite(call, "signing", "none", retried)
<1>1. IsSequence(writes) /\ Len(writes) \in Nat /\ DOMAIN writes = 1 .. Len(writes)
  BY StartedIsInterval DEF TxInv, WritesFit
<1>2. i \in Ids /\ i \in Nat \ {0}
  BY <1>1, TxAssumption DEF Start, Ids
<1>3. writes' = Append(writes, w)
  BY DEF Start
<1>4. WriteOK(w)
  BY DEF NewWrite, WriteOK, Statuses, Errors, TxInv, BoundsOK
<1>5. Fits(w, writes, lastSeq, landed)
  BY DEF NewWrite, Fits, Started
<1>6. HIDE DEF w
<1>7. UNCHANGED <<wallet, queue, lastSeq, landed, faults, moves>>
  BY DEF Start
<1>8. WritesFit(writes', lastSeq', landed')
  BY <1>2, <1>3, <1>4, <1>5, <1>7, AppendWrites DEF TxInv
<1>9. NetworkFits(writes', queue', lastSeq', landed')
  BY <1>1, <1>3, <1>7, AppendNetwork DEF TxInv
<1>10. ListFits(txs', writes')
  <2>1. DOMAIN writes = 1 .. i - 1 /\ DOMAIN writes' = 1 .. i
    BY <1>1, <1>3, AppendFacts
  <2>2. txs' = SubSeq(<<i>> \o txs, 1, MinOf(Len(txs) + 1, MaxRecords))
    BY DEF Start, Push
  <2>3. HIDE DEF i
  <2>4. QED
    BY <1>2, <2>1, <2>2, PushList DEF TxInv
<1>11. BoundsOK'
  BY <1>7 DEF TxInv, BoundsOK
<1>12. QED
  BY <1>8, <1>9, <1>10, <1>11 DEF TxInv

\* A run's next step, as far as its record goes.
LEMMA PutInv ==
    ASSUME TxInv, NEW i \in Started, writes[i].status # "failed", NEW w, Put(i, w),
           WriteOK(w), Fits(w, writes, lastSeq, landed),
           \/ writes[i].status = "signing"
           \/ w.account = writes[i].account /\ w.seq = writes[i].seq /\ w.status # "signing",
           UNCHANGED <<wallet, txs, lastSeq, landed, moves>>, faults' \in 0 .. MaxFaults
    PROVE  /\ WritesFit(writes', lastSeq', landed')
           /\ ListFits(txs', writes')
           /\ NetworkFits(writes', queue, lastSeq', landed')
           /\ BoundsOK'
<1>1. writes' = [writes EXCEPT ![i] = w] /\ i \in DOMAIN writes
  BY DEF Put, Started
<1>2. IsSequence(writes)
  BY DEF TxInv, WritesFit
<1>3. DOMAIN writes' = DOMAIN writes
  BY <1>1, <1>2, ExceptFacts
<1>4. WritesFit(writes', lastSeq', landed')
  BY <1>1, PutWrites DEF TxInv
<1>5. NetworkFits(writes', queue, lastSeq', landed')
  BY <1>1, <1>2, PutNetwork DEF TxInv
<1>6. ListFits(txs', writes')
  BY <1>3 DEF TxInv, ListFits
<1>7. QED
  BY <1>4, <1>5, <1>6 DEF TxInv, BoundsOK

\* The record of a write in progress, and what the run knows of it.
LEMMA InProgress ==
    ASSUME TxInv, NEW i, Building(i) \/ Simulating(i) \/ Signing(i) \/ Polling(i)
    PROVE  /\ i \in Started /\ i \in Ids
           /\ WriteOK(writes[i]) /\ Fits(writes[i], writes, lastSeq, landed)
           /\ writes[i].status \in {"signing", "pending"}
           /\ writes[i].account \in Users
           /\ writes[i].error = "none"
           /\ ~Polling(i) => writes[i].status = "signing" /\ writes[i].tx = 0 /\ landed[i] = "no"
           /\ Polling(i) => writes[i].status = "pending" /\ writes[i].tx \in Ids
<1>1. i \in Started /\ writes[i].status \in {"signing", "pending"}
  BY DEF Building, Simulating, Signing, Polling, In
<1>2. i \in Ids /\ WriteOK(writes[i]) /\ Fits(writes[i], writes, lastSeq, landed)
  BY <1>1 DEF TxInv, WritesFit, Started
<1>3. writes[i].account \in Users /\ writes[i].error = "none"
  BY <1>1, <1>2 DEF WriteOK
<1>4. ASSUME ~Polling(i)
      PROVE  writes[i].status = "signing" /\ writes[i].tx = 0 /\ landed[i] = "no"
  <2>1. writes[i].status = "signing"
    BY <1>4 DEF Building, Simulating, Signing, In
  <2>2. landed[i] = "no"
    BY <1>2, <2>1 DEF TxInv, NetworkFits
  <2>3. QED
    BY <1>2, <2>1, <2>2 DEF Fits
<1>5. ASSUME Polling(i)
      PROVE  writes[i].status = "pending" /\ writes[i].tx \in Ids
  <2>1. writes[i].status = "pending"
    BY <1>5 DEF Polling, In
  <2>2. writes[i].tx \in DOMAIN writes
    BY <1>2, <2>1 DEF Fits
  <2>3. QED
    BY <2>1, <2>2 DEF TxInv, WritesFit
<1>6. QED
  BY <1>1, <1>2, <1>3, <1>4, <1>5

LEMMA FaultType ==
    ASSUME TxInv, Fault \/ UNCHANGED faults
    PROVE  faults' \in 0 .. MaxFaults
BY TxAssumption DEF Fault, TxInv, BoundsOK

\* A send whose answer was lost: the hash is known, and what became of it is not.
LEMMA LostFits ==
    ASSUME NEW i \in Started, WriteOK(writes[i]), Fits(writes[i], writes, lastSeq, landed)
    PROVE  /\ WriteOK([Failed(i, "lost") EXCEPT !.tx = i])
           /\ Fits([Failed(i, "lost") EXCEPT !.tx = i], writes, lastSeq, landed)
           /\ [Failed(i, "lost") EXCEPT !.tx = i].account = writes[i].account
           /\ [Failed(i, "lost") EXCEPT !.tx = i].seq = writes[i].seq
           /\ [Failed(i, "lost") EXCEPT !.tx = i].status = "failed"
           /\ [Failed(i, "lost") EXCEPT !.tx = i].tx = i
<1> DEFINE w == [Failed(i, "lost") EXCEPT !.tx = i]
<1>1. /\ DOMAIN w = DOMAIN writes[i] /\ w.status = "failed" /\ w.error = "lost" /\ w.tx = i
      /\ w.account = writes[i].account /\ w.seq = writes[i].seq
      /\ w.retried = writes[i].retried
  BY DEF Failed, WriteOK
<1>2. HIDE DEF w
<1>3. WriteOK(w)
  BY <1>1 DEF WriteOK, Statuses, Errors
<1>4. Fits(w, writes, lastSeq, landed)
  BY <1>1 DEF Fits, Started
<1>5. QED
  BY <1>1, <1>3, <1>4 DEF w

\* A run that failed without learning a hash, or after.
LEMMA FailsFit ==
    ASSUME NEW i \in Started, WriteOK(writes[i]),
           Fits(writes[i], writes, lastSeq, landed), NEW error \in {"refused", "lost"},
           error = "refused" => writes[i].tx = 0 \/ landed[writes[i].tx] = "failed"
    PROVE  /\ WriteOK(Failed(i, error))
           /\ Fits(Failed(i, error), writes, lastSeq, landed)
           /\ Failed(i, error).account = writes[i].account
           /\ Failed(i, error).seq = writes[i].seq
           /\ Failed(i, error).status = "failed"
           /\ Failed(i, error).error = error
           /\ Failed(i, error).tx = writes[i].tx
<1> DEFINE w == Failed(i, error)
<1>1. /\ DOMAIN w = DOMAIN writes[i] /\ w.status = "failed" /\ w.error = error
      /\ w.tx = writes[i].tx /\ w.account = writes[i].account /\ w.seq = writes[i].seq
      /\ w.retried = writes[i].retried
  BY DEF Failed, WriteOK
<1>2. HIDE DEF w
<1>3. WriteOK(w)
  BY <1>1 DEF WriteOK, Statuses, Errors
<1>4. Fits(w, writes, lastSeq, landed)
  BY <1>1 DEF Fits, Started
<1>5. QED
  BY <1>1, <1>3, <1>4 DEF w

\* What a run that goes on to its next await changes is its own: a number for
\* the transaction, or that it was simulated.
LEMMA BuildInv ==
    ASSUME TxInv, NEW i, GetAccount(i) \/ Simulate(i)
    PROVE  TxInv'
<1>1. /\ i \in Started /\ WriteOK(writes[i]) /\ Fits(writes[i], writes, lastSeq, landed)
      /\ writes[i].status = "signing" /\ writes[i].account \in Users
      /\ writes[i].tx = 0 /\ writes[i].error = "none"
  <2>1. (Building(i) \/ Simulating(i)) /\ ~Polling(i)
    BY DEF GetAccount, Simulate, Building, Simulating, Polling, In
  <2>2. QED
    BY <2>1, InProgress
<1>2. /\ UNCHANGED <<wallet, txs, queue, lastSeq, landed, moves>>
      /\ faults' \in 0 .. MaxFaults
  BY FaultType DEF GetAccount, Simulate
<1>3. NoUser \notin Users
  BY WebAssumption
<1>4. CASE /\ AccountExists(writes[i].account)
           /\ Put(i, [writes[i] EXCEPT !.seq = lastSeq[writes[i].account] + 1])
  <2> DEFINE w == [writes[i] EXCEPT !.seq = lastSeq[writes[i].account] + 1]
  <2>1. lastSeq[writes[i].account] \in Nat /\ lastSeq[writes[i].account] # 0
    BY <1>1, <1>4 DEF AccountExists, TxInv, NetworkFits
  <2>2. /\ DOMAIN w = DOMAIN writes[i] /\ w.seq = lastSeq[writes[i].account] + 1
        /\ w.status = writes[i].status /\ w.error = writes[i].error /\ w.tx = writes[i].tx
        /\ w.account = writes[i].account /\ w.retried = writes[i].retried
    BY <1>1 DEF WriteOK
  <2>3. HIDE DEF w
  <2>4. WriteOK(w)
    BY <1>1, <1>3, <2>1, <2>2 DEF WriteOK
  <2>5. Fits(w, writes, lastSeq, landed)
    BY <1>1, <2>1, <2>2 DEF Fits
  <2>6. Put(i, w)
    BY <1>4 DEF w
  <2>7. QED
    BY <1>1, <1>2, <2>4, <2>5, <2>6, PutInv DEF TxInv
<1>5. CASE Put(i, [writes[i] EXCEPT !.prepared = TRUE])
  <2> DEFINE w == [writes[i] EXCEPT !.prepared = TRUE]
  <2>1. /\ DOMAIN w = DOMAIN writes[i] /\ w.seq = writes[i].seq
        /\ w.status = writes[i].status /\ w.error = writes[i].error /\ w.tx = writes[i].tx
        /\ w.account = writes[i].account /\ w.retried = writes[i].retried
    BY <1>1 DEF WriteOK
  <2>2. HIDE DEF w
  <2>3. WriteOK(w) /\ Fits(w, writes, lastSeq, landed)
    BY <1>1, <1>3, <2>1 DEF WriteOK, Fits
  <2>4. Put(i, w)
    BY <1>5 DEF w
  <2>5. QED
    BY <1>1, <1>2, <2>1, <2>3, <2>4, PutInv DEF TxInv
<1>6. CASE Put(i, Failed(i, "refused"))
  <2> DEFINE w == Failed(i, "refused")
  <2>1. WriteOK(w) /\ Fits(w, writes, lastSeq, landed)
    BY <1>1, FailsFit
  <2>2. Put(i, w)
    BY <1>6
  <2>3. HIDE DEF w
  <2>4. QED
    BY <1>1, <1>2, <2>1, <2>2, PutInv DEF TxInv
<1>7. QED
  BY <1>4, <1>5, <1>6 DEF GetAccount, Simulate

LEMMA RejectInv ==
    ASSUME TxInv, NEW i, Reject(i)
    PROVE  TxInv'
<1>1. /\ i \in Started /\ WriteOK(writes[i]) /\ Fits(writes[i], writes, lastSeq, landed)
      /\ writes[i].status = "signing" /\ writes[i].account \in Users
      /\ writes[i].tx = 0 /\ writes[i].error = "none"
  <2>1. Signing(i) /\ ~Polling(i)
    BY DEF Reject, Signing, Polling, In
  <2>2. QED
    BY <2>1, InProgress
<1>2. /\ UNCHANGED <<wallet, txs, queue, lastSeq, landed, moves>>
      /\ faults' \in 0 .. MaxFaults
  BY FaultType DEF Reject
<1> DEFINE w == Failed(i, "refused")
<1>3. WriteOK(w) /\ Fits(w, writes, lastSeq, landed)
  BY <1>1, FailsFit
<1>4. Put(i, w)
  BY DEF Reject
<1>5. HIDE DEF w
<1>6. QED
  BY <1>1, <1>2, <1>3, <1>4, PutInv DEF TxInv

\* A write that was announced as sent.
LEMMA SentFits ==
    ASSUME TxInv, NEW i \in Started, WriteOK(writes[i]),
           Fits(writes[i], writes, lastSeq, landed), writes[i].account \in Users,
           writes[i].error = "none", NEW tx \in Started, tx # 0
    PROVE  /\ WriteOK(Sent(i, tx)) /\ Fits(Sent(i, tx), writes, lastSeq, landed)
           /\ Sent(i, tx).account = writes[i].account /\ Sent(i, tx).seq = writes[i].seq
           /\ Sent(i, tx).status = "pending" /\ Sent(i, tx).tx = tx
<1> DEFINE w == Sent(i, tx)
<1>1. /\ DOMAIN w = DOMAIN writes[i] /\ w.status = "pending" /\ w.error = "none" /\ w.tx = tx
      /\ w.account = writes[i].account /\ w.seq = writes[i].seq
      /\ w.retried = writes[i].retried
  BY DEF Sent, WriteOK
<1>2. HIDE DEF w
<1>3. WriteOK(w)
  <2>1. NoUser \notin Users
    BY WebAssumption
  <2>2. QED
    BY <1>1, <2>1 DEF WriteOK, Statuses, Errors
<1>4. Fits(w, writes, lastSeq, landed)
  BY <1>1 DEF Fits, Started
<1>5. QED
  BY <1>1, <1>3, <1>4 DEF w

\* The five ways a send can end, and what each leaves in the record.
LEMMA SendRecord ==
    ASSUME TxInv, NEW i, Send(i)
    PROVE  \E w : /\ Put(i, w)
                  /\ WriteOK(w) /\ Fits(w, writes, lastSeq, landed)
                  /\ w.account = writes[i].account /\ w.seq = writes[i].seq
                  /\ w.status # "signing"
                  /\ w.status \in {"pending", "failed"}
                  /\ w.tx # 0 => landed[w.tx] = "no"
<1> DEFINE u == writes[i].account
<1>1. /\ i \in Started /\ i \in Ids /\ i # 0
      /\ WriteOK(writes[i]) /\ Fits(writes[i], writes, lastSeq, landed)
      /\ writes[i].account \in Users
      /\ writes[i].tx = 0 /\ writes[i].error = "none" /\ landed[i] = "no"
  <2>1. Signing(i) /\ ~Polling(i)
    BY DEF Send, Signing, Polling, In
  <2>2. QED
    BY <2>1, InProgress DEF Ids
<1>2. CASE Put(i, Sent(i, i))
  BY <1>1, <1>2, SentFits
<1>3. CASE Put(i, [Failed(i, "lost") EXCEPT !.tx = i])
  <2> DEFINE w == [Failed(i, "lost") EXCEPT !.tx = i]
  <2>1. /\ WriteOK(w) /\ Fits(w, writes, lastSeq, landed)
        /\ w.account = writes[i].account /\ w.seq = writes[i].seq
        /\ w.status = "failed" /\ w.tx = i
    BY <1>1, LostFits
  <2>2. Put(i, w)
    BY <1>3
  <2>3. HIDE DEF w
  <2>4. QED
    BY <1>1, <2>1, <2>2
<1>4. CASE SameTx(i, queue[u]) /\ Put(i, Sent(i, queue[u]))
  <2>1. queue[u] # 0
    BY <1>4 DEF SameTx
  <2>2. queue[u] \in Started /\ landed[queue[u]] = "no"
    BY <1>1, <2>1 DEF TxInv, NetworkFits, Held, Started
  <2>3. QED
    BY <1>1, <1>4, <2>1, <2>2, SentFits
<1>5. CASE Put(i, Failed(i, "refused"))
  <2> DEFINE w == Failed(i, "refused")
  <2>1. /\ WriteOK(w) /\ Fits(w, writes, lastSeq, landed)
        /\ w.account = writes[i].account /\ w.seq = writes[i].seq
        /\ w.status = "failed" /\ w.error = "refused" /\ w.tx = writes[i].tx
    BY <1>1, FailsFit
  <2>2. Put(i, w)
    BY <1>5
  <2>3. HIDE DEF w
  <2>4. QED
    BY <1>1, <2>1, <2>2
<1>6. CASE Put(i, Failed(i, "lost"))
  <2> DEFINE w == Failed(i, "lost")
  <2>1. /\ WriteOK(w) /\ Fits(w, writes, lastSeq, landed)
        /\ w.account = writes[i].account /\ w.seq = writes[i].seq
        /\ w.status = "failed" /\ w.error = "lost" /\ w.tx = writes[i].tx
    BY <1>1, FailsFit
  <2>2. Put(i, w)
    BY <1>6
  <2>3. HIDE DEF w
  <2>4. QED
    BY <1>1, <2>1, <2>2
<1>7. QED
  BY <1>2, <1>3, <1>4, <1>5, <1>6 DEF Send

LEMMA SendInv ==
    ASSUME TxInv, NEW i, Send(i)
    PROVE  TxInv'
<1> DEFINE u == writes[i].account
<1>1. /\ i \in Started /\ i \in Ids
      /\ writes[i].status = "signing" /\ u \in Users /\ landed[i] = "no"
  <2>1. Signing(i) /\ ~Polling(i)
    BY DEF Send, Signing, Polling, In
  <2>2. QED
    BY <2>1, InProgress
<1>2. PICK w : /\ Put(i, w)
               /\ WriteOK(w) /\ Fits(w, writes, lastSeq, landed)
               /\ w.account = writes[i].account /\ w.seq = writes[i].seq
               /\ w.status # "signing"
  BY SendRecord
<1>3. /\ UNCHANGED <<wallet, txs, lastSeq, landed, moves>>
      /\ faults' \in 0 .. MaxFaults
  BY FaultType DEF Send
<1>4. /\ WritesFit(writes', lastSeq', landed')
      /\ ListFits(txs', writes')
      /\ NetworkFits(writes', queue, lastSeq', landed')
      /\ BoundsOK'
  BY <1>1, <1>2, <1>3, PutInv
<1>5. CASE UNCHANGED queue
  BY <1>4, <1>5 DEF TxInv
<1>6. CASE writes[i].seq = lastSeq[u] + 1 /\ queue' = [queue EXCEPT ![u] = i]
  <2>1. i \in DOMAIN writes' /\ writes'[i] = w
    <3>1. IsSequence(writes)
      BY DEF TxInv, WritesFit
    <3>2. QED
      BY <1>1, <1>2, <3>1, ExceptFacts DEF Put, Started
  <2>2. Held(i, u, writes', lastSeq', landed')
    BY <1>1, <1>2, <1>3, <1>6, <2>1 DEF Held
  <2>3. NetworkFits(writes', [queue EXCEPT ![u] = i], lastSeq', landed')
    BY <1>1, <1>4, <2>2, EnqueueNetwork
  <2>4. QED
    BY <1>4, <1>6, <2>3 DEF TxInv
<1>7. QED
  BY <1>5, <1>6 DEF Send

LEMMA PollRecord ==
    ASSUME TxInv, NEW i, Poll(i)
    PROVE  \E w : /\ Put(i, w)
                  /\ WriteOK(w) /\ Fits(w, writes, lastSeq, landed)
                  /\ w.account = writes[i].account /\ w.seq = writes[i].seq
                  /\ w.tx = writes[i].tx
                  /\ \/ w.status = "confirmed" /\ landed[w.tx] = "success"
                     \/ w.status = "failed" /\ w.error = "refused" /\ landed[w.tx] = "failed"
                     \/ w.status = "failed" /\ w.error = "lost"
<1> DEFINE tx == writes[i].tx
<1>1. /\ i \in Started
      /\ WriteOK(writes[i]) /\ Fits(writes[i], writes, lastSeq, landed)
      /\ writes[i].account \in Users /\ writes[i].status = "pending"
      /\ writes[i].error = "none"
  <2>1. Polling(i)
    BY DEF Poll
  <2>2. QED
    BY <2>1, InProgress
<1>2. CASE landed[tx] = "success" /\ Put(i, Confirmed(i))
  <2> DEFINE w == Confirmed(i)
  <2>1. /\ DOMAIN w = DOMAIN writes[i] /\ w.status = "confirmed" /\ w.error = "none"
        /\ w.tx = tx /\ w.account = writes[i].account /\ w.seq = writes[i].seq
        /\ w.retried = writes[i].retried
    BY <1>1 DEF Confirmed, WriteOK
  <2>2. HIDE DEF w
  <2>3. WriteOK(w)
    <3>1. NoUser \notin Users
      BY WebAssumption
    <3>2. QED
      BY <1>1, <2>1, <3>1 DEF WriteOK, Statuses, Errors
  <2>4. Fits(w, writes, lastSeq, landed)
    BY <1>1, <1>2, <2>1 DEF Fits
  <2>5. Put(i, w)
    BY <1>2 DEF w
  <2>6. QED
    BY <1>2, <2>1, <2>3, <2>4, <2>5
<1>3. CASE landed[tx] = "failed" /\ Put(i, Failed(i, "refused"))
  <2> DEFINE w == Failed(i, "refused")
  <2>1. /\ WriteOK(w) /\ Fits(w, writes, lastSeq, landed)
        /\ w.account = writes[i].account /\ w.seq = writes[i].seq
        /\ w.status = "failed" /\ w.error = "refused" /\ w.tx = writes[i].tx
    BY <1>1, <1>3, FailsFit
  <2>2. Put(i, w)
    BY <1>3
  <2>3. HIDE DEF w
  <2>4. QED
    BY <1>1, <1>3, <2>1, <2>2
<1>4. CASE Put(i, Failed(i, "lost"))
  <2> DEFINE w == Failed(i, "lost")
  <2>1. /\ WriteOK(w) /\ Fits(w, writes, lastSeq, landed)
        /\ w.account = writes[i].account /\ w.seq = writes[i].seq
        /\ w.status = "failed" /\ w.error = "lost" /\ w.tx = writes[i].tx
    BY <1>1, FailsFit
  <2>2. Put(i, w)
    BY <1>4
  <2>3. HIDE DEF w
  <2>4. QED
    BY <1>1, <2>1, <2>2
<1>5. QED
  BY <1>2, <1>3, <1>4 DEF Poll

LEMMA PollInv ==
    ASSUME TxInv, NEW i, Poll(i)
    PROVE  TxInv'
<1>1. i \in Started /\ writes[i].status = "pending"
  <2>1. Polling(i)
    BY DEF Poll
  <2>2. QED
    BY <2>1, InProgress
<1>2. PICK w : /\ Put(i, w)
               /\ WriteOK(w) /\ Fits(w, writes, lastSeq, landed)
               /\ w.account = writes[i].account /\ w.seq = writes[i].seq
               /\ w.status # "signing"
  BY PollRecord
<1>3. /\ UNCHANGED <<wallet, txs, queue, lastSeq, landed, moves>>
      /\ faults' \in 0 .. MaxFaults
  BY FaultType DEF Poll
<1>4. QED
  BY <1>1, <1>2, <1>3, PutInv DEF TxInv

-----------------------------------------------------------------------------
(* The steps of the page, the network and the chain.                       *)

LEMMA RetryInv ==
    ASSUME TxInv, Retry
    PROVE  TxInv'
<1>1. PICK k \in DOMAIN txs : CanRetry(txs[k]) /\ Start(writes[txs[k]].call, txs[k])
  BY DEF Retry
<1>2. txs[k] \in {j \in Started : writes[j].status = "failed"}
  BY <1>1 DEF CanRetry, TxInv, ListFits, Started
<1>3. QED
  BY <1>1, <1>2, StartInv

LEMMA SubmitInv ==
    ASSUME TxInv, Submit
    PROVE  TxInv'
<1>1. PICK call \in FormCalls(wallet) : Start(call, 0)
  BY DEF Submit
<1>2. QED
  BY <1>1, StartInv

LEMMA EmptyList ==
    ASSUME NEW ws
    PROVE  ListFits(<<>>, ws)
<1>1. <<>> \in Seq({}) /\ Len(<<>>) = 0 /\ DOMAIN <<>> = {}
  OBVIOUS
<1>2. QED
  BY <1>1, TxAssumption DEF ListFits, IsSequence

LEMMA ReloadInv ==
    ASSUME TxInv, Reload
    PROVE  TxInv'
<1>1. writes' = [i \in DOMAIN writes |->
          IF writes[i].status \in {"signing", "pending"}
          THEN [writes[i] EXCEPT !.status = "dropped"] ELSE writes[i]]
  BY DEF Reload, Started
<1>2. UNCHANGED <<wallet, queue, lastSeq, landed, faults, moves>> /\ txs' = <<>>
  BY DEF Reload
<1>3. WritesFit(writes', lastSeq, landed)
  BY <1>1, DropWrites DEF TxInv
<1>4. NetworkFits(writes', queue, lastSeq, landed)
  BY <1>1, DropNetwork DEF TxInv
<1>5. ListFits(txs', writes')
  BY <1>2, EmptyList
<1>6. QED
  BY <1>2, <1>3, <1>4, <1>5 DEF TxInv, BoundsOK

LEMMA FriendbotInv ==
    ASSUME TxInv, Friendbot
    PROVE  TxInv'
<1>1. /\ wallet \in Users /\ lastSeq[wallet] = 0
      /\ lastSeq' = [lastSeq EXCEPT ![wallet] = 1]
      /\ UNCHANGED <<wallet, writes, txs, queue, landed, faults, moves>>
  BY DEF Friendbot, AccountExists, TxInv, BoundsOK
<1>2. NetworkFits(writes, queue, lastSeq', landed)
  BY <1>1, CreateNetwork DEF TxInv
<1>3. \A u \in Users \cup {NoUser} : lastSeq[u] # 0 => lastSeq'[u] # 0
  <2>1. lastSeq \in [Users -> Nat] /\ NoUser \notin Users
    BY WebAssumption DEF TxInv, NetworkFits
  <2>2. \A u \in Users : lastSeq[u] # 0 => lastSeq'[u] # 0
    BY <1>1, <2>1
  <2>3. lastSeq'[NoUser] = lastSeq[NoUser]
    BY <1>1, <2>1
  <2>4. QED
    BY <2>2, <2>3
<1>4. WritesFit(writes, lastSeq', landed)
  <2>1. \A i \in Ids : landed[i] # "no" => landed[i] = landed[i]
    OBVIOUS
  <2>2. QED
    BY <1>3, <2>1, LedgerWrites DEF TxInv
<1>5. QED
  BY <1>1, <1>2, <1>4 DEF TxInv, BoundsOK

\* The ledger takes what the node held: it succeeds or fails.
LEMMA IncludeFacts ==
    ASSUME TxInv, NEW u \in Users, Include(u)
    PROVE  /\ queue[u] # 0 /\ queue[u] \in Ids
           /\ landed[queue[u]] = "no"
           /\ \E r \in {"success", "failed"} : landed' = [landed EXCEPT ![queue[u]] = r]
           /\ lastSeq' = [lastSeq EXCEPT ![u] = @ + 1]
           /\ queue' = [queue EXCEPT ![u] = 0]
           /\ UNCHANGED <<wallet, writes, txs, faults, moves>>
<1>1. queue[u] # 0
  BY DEF Include
<1>2. queue[u] \in Ids /\ landed[queue[u]] = "no"
  BY <1>1 DEF TxInv, NetworkFits, Held
<1>3. \/ landed' = [landed EXCEPT ![queue[u]] = "success"]
      \/ landed' = [landed EXCEPT ![queue[u]] = "failed"]
  BY DEF Include
<1>4. QED
  BY <1>1, <1>2, <1>3 DEF Include

LEMMA IncludeInv ==
    ASSUME TxInv, NEW u \in Users, Include(u)
    PROVE  TxInv'
<1>1. PICK r \in {"success", "failed"} : landed' = [landed EXCEPT ![queue[u]] = r]
  BY IncludeFacts
<1>2. /\ queue[u] # 0 /\ queue[u] \in Ids /\ landed[queue[u]] = "no"
      /\ lastSeq' = [lastSeq EXCEPT ![u] = @ + 1]
      /\ queue' = [queue EXCEPT ![u] = 0]
      /\ UNCHANGED <<wallet, writes, txs, faults, moves>>
  BY IncludeFacts
<1>3. NetworkFits(writes, queue', lastSeq', landed')
  BY <1>1, <1>2, IncludeNetwork DEF TxInv
<1>4. \A v \in Users \cup {NoUser} : lastSeq[v] # 0 => lastSeq'[v] # 0
  <2>1. lastSeq \in [Users -> Nat] /\ NoUser \notin Users
    BY WebAssumption DEF TxInv, NetworkFits
  <2>2. \A v \in Users : lastSeq[v] # 0 => lastSeq'[v] # 0
    BY <1>2, <2>1
  <2>3. lastSeq'[NoUser] = lastSeq[NoUser]
    BY <1>2, <2>1
  <2>4. QED
    BY <2>2, <2>3
<1>5. \A i \in Ids : landed[i] # "no" => landed'[i] = landed[i]
  BY <1>1, <1>2 DEF TxInv, NetworkFits
<1>6. WritesFit(writes, lastSeq', landed')
  BY <1>4, <1>5, LedgerWrites DEF TxInv
<1>7. QED
  BY <1>2, <1>3, <1>6 DEF TxInv, BoundsOK

LEMMA ExpireInv ==
    ASSUME TxInv, NEW u \in Users, Expire(u)
    PROVE  TxInv'
<1>1. NetworkFits(writes, [queue EXCEPT ![u] = 0], lastSeq, landed)
  BY DequeueNetwork DEF TxInv
<1>2. QED
  BY <1>1 DEF Expire, TxInv, BoundsOK

\* The rest touches neither the writes, nor the node, nor the ledger.
LEMMA QuietInv ==
    ASSUME TxInv,
           \/ Clear \/ Connect \/ Disconnect \/ Queries \/ Others \/ UNCHANGED webVars
    PROVE  TxInv' /\ UNCHANGED <<writes, landed>>
<1>1. UNCHANGED <<writes, queue, lastSeq, landed>> /\ faults' = faults
  BY DEF Clear, Connect, Disconnect, Queries, Others, webVars, txVars
<1>2. txs' = txs \/ txs' = <<>>
  BY DEF Clear, Connect, Disconnect, Queries, Others, webVars, txVars
<1>3. wallet' \in Users \cup {NoUser}
  <2>1. \/ wallet' = wallet \/ wallet' = NoUser \/ \E u \in Users \ {wallet} : wallet' = u
    BY DEF Clear, Connect, Disconnect, Queries, Refetch, Tick, Others, webVars
  <2>2. QED
    BY <2>1 DEF TxInv, BoundsOK
<1>4. moves' \in 0 .. MaxMoves
  <2>1. moves' = moves \/ (moves < MaxMoves /\ moves' = moves + 1)
    BY DEF Clear, Connect, Disconnect, Queries, Others, webVars, txVars
  <2>2. QED
    BY <2>1, TxAssumption DEF TxInv, BoundsOK
<1>5. ListFits(txs', writes')
  BY <1>1, <1>2, EmptyList DEF TxInv
<1>6. QED
  BY <1>1, <1>3, <1>4, <1>5 DEF TxInv, BoundsOK

LEMMA StepInv ==
    ASSUME TxInv, [WebNext]_webVars
    PROVE  TxInv'
<1>1. CASE Submit
  BY <1>1, SubmitInv
<1>2. CASE Retry
  BY <1>2, RetryInv
<1>3. CASE Clear \/ Connect \/ Disconnect \/ Queries \/ Others \/ UNCHANGED webVars
  BY <1>3, QuietInv
<1>4. CASE Reload
  BY <1>4, ReloadInv
<1>5. CASE Friendbot
  BY <1>5, FriendbotInv
<1>6. CASE \E i \in Ids : GetAccount(i) \/ Simulate(i) \/ Reject(i) \/ Send(i) \/ Poll(i)
  BY <1>6, BuildInv, RejectInv, SendInv, PollInv
<1>7. CASE \E u \in Users : Include(u) \/ Expire(u)
  BY <1>7, IncludeInv, ExpireInv
<1>8. QED
  BY <1>1, <1>2, <1>3, <1>4, <1>5, <1>6, <1>7 DEF WebNext

LEMMA TxInvariant ==
    WebSpec => []TxInv
<1>1. WebInit => TxInv
  BY InitInv
<1>2. TxInv /\ [WebNext]_webVars => TxInv'
  BY StepInv
<1>3. QED
  BY <1>1, <1>2, PTL DEF WebSpec

-----------------------------------------------------------------------------
(* What it is for.                                                         *)

LEMMA InvGivesType ==
    TxInv => TxTypeOK
<1> SUFFICES ASSUME TxInv PROVE TxTypeOK
  OBVIOUS
<1>1. wallet \in Users \cup {NoUser} /\ faults \in 0 .. MaxFaults /\ moves \in 0 .. MaxMoves
  BY DEF TxInv, BoundsOK
<1>2. /\ Len(txs) <= MaxRecords
      /\ \A k, l \in DOMAIN txs : txs[k] \in Started /\ (k < l => txs[k] > txs[l])
  BY DEF TxInv, ListFits, Started
<1>3. ASSUME NEW i \in Started
      PROVE  /\ writes[i].status \in Statuses \cup {"dropped"} /\ writes[i].error \in Errors
             /\ writes[i].error # "none" <=> writes[i].status = "failed"
             /\ writes[i].status \in {"pending", "confirmed"} => writes[i].tx \in Started
  BY DEF TxInv, WritesFit, WriteOK, Fits, Started
<1>4. ASSUME NEW u \in Users, queue[u] # 0
      PROVE  /\ writes[queue[u]].account = u
             /\ writes[queue[u]].seq = lastSeq[u] + 1
             /\ landed[queue[u]] = "no"
  BY <1>4 DEF TxInv, NetworkFits, Held
<1>5. landed \in [Ids -> {"no", "success", "failed"}]
  BY DEF TxInv, NetworkFits
<1>6. QED
  BY <1>1, <1>2, <1>3, <1>4, <1>5 DEF TxTypeOK

\* The records, the list, the node's queue and the ledger fit together as
\* TxTypeOK says, for any number of users, writes, lost answers and reloads.
THEOREM TxTypeCorrect ==
    WebSpec => []TxTypeOK
<1>1. TxInv => TxTypeOK
  BY InvGivesType
<1>2. QED
  BY <1>1, TxInvariant, PTL

LEMMA InvGivesRetry ==
    TxInv => RetryDoublesOnlyLost
<1> SUFFICES ASSUME TxInv, NEW j \in Started, writes[j].retried # 0,
                    Applied(writes[j].retried)
             PROVE  writes[writes[j].retried].error = "lost"
  BY DEF RetryDoublesOnlyLost
<1> DEFINE i == writes[j].retried
<1>1. i \in DOMAIN writes /\ writes[i].status = "failed"
  BY DEF TxInv, WritesFit, Fits, Started
<1>2. WriteOK(writes[i]) /\ Fits(writes[i], writes, lastSeq, landed)
  BY <1>1 DEF TxInv, WritesFit
<1>3. writes[i].tx # 0 /\ landed[writes[i].tx] = "success"
  BY DEF Applied
<1>4. QED
  BY <1>1, <1>2, <1>3 DEF WriteOK, Fits, Errors

\* A retry trades twice only where the record it was made from had said that
\* its outcome was not known, whatever the contracts, the wallet and the network do.
THEOREM RefusedNotRepeated ==
    WebSpec => []RetryDoublesOnlyLost
<1>1. TxInv => RetryDoublesOnlyLost
  BY InvGivesRetry
<1>2. QED
  BY <1>1, TxInvariant, PTL

-----------------------------------------------------------------------------
(* The steps of the app as steps of TxLifecycle.                           *)

Labels == {"none", "signing", "pending", "confirmed", "refused", "lost", "dropped"}
Label(w) == IF w.status = "failed" THEN w.error ELSE w.status
LabelIn(ws, i) == IF i \notin DOMAIN ws THEN "none" ELSE Label(ws[i])
Took(w, ledger) == w.tx # 0 /\ ledger[w.tx] = "success"
TookIn(ws, ledger, i) == i \in DOMAIN ws /\ Took(ws[i], ledger)

\* Report and Apply on the labels.
MayReport(from, to, took) ==
    \/ from = "none" /\ to \in {"signing", "refused"}
    \/ from = "signing" /\ to \in {"pending", "refused", "lost", "dropped"}
    \/ from = "pending" /\ to \in {"lost", "dropped"}
    \/ from = "pending" /\ took /\ to = "confirmed"
    \/ from = "pending" /\ ~took /\ to = "refused"
MayApply(from, took, takes) ==
    ~took /\ takes /\ from \in {"pending", "lost", "dropped"}

\* Where write i goes from ws and ledger to ws2 and ledger2.
Moves(i, ws, ledger, ws2, ledger2) ==
    /\ \/ LabelIn(ws2, i) = LabelIn(ws, i)
       \/ MayReport(LabelIn(ws, i), LabelIn(ws2, i), TookIn(ws, ledger, i))
    /\ \/ TookIn(ws2, ledger2, i) <=> TookIn(ws, ledger, i)
       \/ MayApply(LabelIn(ws, i), TookIn(ws, ledger, i), TookIn(ws2, ledger2, i))

LEMMA LabelType ==
    ASSUME NEW ws, NEW i, i \in DOMAIN ws => WriteOK(ws[i])
    PROVE  LabelIn(ws, i) \in Labels
BY DEF LabelIn, Label, Labels, WriteOK, Statuses, Errors

LEMMA LifecycleStep ==
    ASSUME TxInv, TxInv', \A i \in Ids : Moves(i, writes, landed, writes', landed')
    PROVE  Lifecycle!Next
<1> DEFINE st == [i \in Ids |->
                    IF i \notin Started THEN "none"
                    ELSE IF writes[i].status = "failed" THEN writes[i].error ELSE writes[i].status]
           ap == [i \in Ids |-> Applied(i)]
<1>1. /\ st = [i \in Ids |-> LabelIn(writes, i)]
      /\ st' = [i \in Ids |-> LabelIn(writes', i)]
  BY DEF LabelIn, Label, Started
<1>2. \A i \in Ids : /\ Applied(i) <=> TookIn(writes, landed, i)
                     /\ Applied(i)' <=> TookIn(writes', landed', i)
  BY DEF Applied, TookIn, Took, Started
<1>3. /\ ap = [i \in Ids |-> Applied(i)] /\ ap' = [i \in Ids |-> Applied(i)']
      /\ \A i \in Ids : Applied(i) \in BOOLEAN /\ Applied(i)' \in BOOLEAN
  BY DEF Applied
<1>4. HIDE DEF st, ap
<1>5. \A i \in Ids : LabelIn(writes', i) \in Labels
  BY LabelType DEF TxInv, WritesFit
<1>6. st' \in [Ids -> Labels]
  BY <1>1, <1>5
<1>7. ap' \in [Ids -> BOOLEAN]
  BY <1>3
<1>8. ASSUME NEW i \in Ids
      PROVE  /\ \/ st'[i] = st[i]
                \/ MayReport(st[i], st'[i], ap[i])
             /\ \/ ap'[i] = ap[i]
                \/ MayApply(st[i], ap[i], ap'[i])
  <2>1. st[i] = LabelIn(writes, i) /\ st'[i] = LabelIn(writes', i)
    BY <1>1
  <2>2. /\ ap[i] <=> TookIn(writes, landed, i)
        /\ ap'[i] <=> TookIn(writes', landed', i)
        /\ ap[i] \in BOOLEAN /\ ap'[i] \in BOOLEAN
    BY <1>2, <1>3
  <2>3. Moves(i, writes, landed, writes', landed')
    OBVIOUS
  <2>4. st'[i] = st[i] \/ MayReport(st[i], st'[i], ap[i])
    BY <2>1, <2>2, <2>3 DEF Moves, MayReport
  <2>5. ap'[i] = ap[i] \/ MayApply(st[i], ap[i], ap'[i])
    BY <2>1, <2>2, <2>3 DEF Moves, MayApply
  <2>6. QED
    BY <2>4, <2>5
<1>9. QED
  BY <1>6, <1>7, <1>8
  DEF st, ap, Labels, MayReport, MayApply, Lifecycle!Next, Lifecycle!Report, Lifecycle!Apply

\* A run's own step.
LEMMA PutMoves ==
    ASSUME TxInv, NEW i \in Started, NEW w, Put(i, w), landed' = landed,
           \/ Label(w) = Label(writes[i])
           \/ MayReport(Label(writes[i]), Label(w), Took(writes[i], landed)),
           Took(w, landed) <=> Took(writes[i], landed)
    PROVE  \A j \in Ids : Moves(j, writes, landed, writes', landed')
<1>1. /\ DOMAIN writes' = DOMAIN writes /\ writes'[i] = w
      /\ \A j \in DOMAIN writes \ {i} : writes'[j] = writes[j]
  BY ExceptFacts DEF Put, Started, TxInv, WritesFit
<1>2. ASSUME NEW j \in Ids
      PROVE  Moves(j, writes, landed, writes', landed')
  <2>1. CASE j = i
    <3>1. LabelIn(writes', j) = Label(w) /\ LabelIn(writes, j) = Label(writes[i])
      BY <1>1, <2>1 DEF LabelIn, Started
    <3>2. /\ TookIn(writes', landed', j) <=> Took(w, landed)
          /\ TookIn(writes, landed, j) <=> Took(writes[i], landed)
      BY <1>1, <2>1 DEF TookIn, Started
    <3>3. QED
      BY <3>1, <3>2 DEF Moves, MayReport
  <2>2. CASE j # i
    BY <1>1, <2>2 DEF Moves, LabelIn, TookIn
  <2>3. QED
    BY <2>1, <2>2
<1>3. QED
  BY <1>2

LEMMA StartMoves ==
    ASSUME TxInv, NEW call, NEW retried, Start(call, retried)
    PROVE  \A j \in Ids : Moves(j, writes, landed, writes', landed')
<1> DEFINE n == Len(writes) + 1
           w == IF wallet = NoUser THEN NewWrite(call, "failed", "refused", retried)
                ELSE NewWrite(call, "signing", "none", retried)
<1>1. writes' = Append(writes, w) /\ landed' = landed
  BY DEF Start
<1>2. Label(w) \in {"signing", "refused"} /\ w.tx = 0
  BY DEF Label, NewWrite
<1>3. HIDE DEF w
<1>4. /\ DOMAIN writes' = DOMAIN writes \cup {n} /\ writes'[n] = w /\ n \notin DOMAIN writes
      /\ \A j \in DOMAIN writes : writes'[j] = writes[j]
  BY <1>1, AppendFacts DEF TxInv, WritesFit
<1>5. HIDE DEF n
<1>6. ASSUME NEW j \in Ids
      PROVE  Moves(j, writes, landed, writes', landed')
  <2>1. CASE j = n
    BY <1>1, <1>2, <1>4, <2>1 DEF Moves, LabelIn, TookIn, Took, MayReport
  <2>2. CASE j # n
    BY <1>1, <1>4, <2>2 DEF Moves, LabelIn, TookIn
  <2>3. QED
    BY <2>1, <2>2
<1>7. QED
  BY <1>6

LEMMA BuildMoves ==
    ASSUME TxInv, NEW i, GetAccount(i) \/ Simulate(i) \/ Reject(i)
    PROVE  \A j \in Ids : Moves(j, writes, landed, writes', landed')
<1>1. /\ i \in Started /\ WriteOK(writes[i]) /\ writes[i].status = "signing"
      /\ writes[i].tx = 0
  <2>1. (Building(i) \/ Simulating(i) \/ Signing(i)) /\ ~Polling(i)
    BY DEF GetAccount, Simulate, Reject, Building, Simulating, Signing, Polling, In
  <2>2. QED
    BY <2>1, InProgress
<1>2. landed' = landed
  BY DEF GetAccount, Simulate, Reject
<1>3. CASE Put(i, [writes[i] EXCEPT !.seq = lastSeq[writes[i].account] + 1])
  <2> DEFINE w == [writes[i] EXCEPT !.seq = lastSeq[writes[i].account] + 1]
  <2>1. w.status = writes[i].status /\ w.error = writes[i].error /\ w.tx = writes[i].tx
    BY <1>1 DEF WriteOK
  <2>2. Put(i, w)
    BY <1>3
  <2>3. HIDE DEF w
  <2>4. Label(w) = Label(writes[i]) /\ (Took(w, landed) <=> Took(writes[i], landed))
    BY <2>1 DEF Label, Took
  <2>5. QED
    BY <1>1, <1>2, <2>2, <2>4, PutMoves
<1>4. CASE Put(i, [writes[i] EXCEPT !.prepared = TRUE])
  <2> DEFINE w == [writes[i] EXCEPT !.prepared = TRUE]
  <2>1. w.status = writes[i].status /\ w.error = writes[i].error /\ w.tx = writes[i].tx
    BY <1>1 DEF WriteOK
  <2>2. Put(i, w)
    BY <1>4
  <2>3. HIDE DEF w
  <2>4. Label(w) = Label(writes[i]) /\ (Took(w, landed) <=> Took(writes[i], landed))
    BY <2>1 DEF Label, Took
  <2>5. QED
    BY <1>1, <1>2, <2>2, <2>4, PutMoves
<1>5. CASE Put(i, Failed(i, "refused"))
  <2> DEFINE w == Failed(i, "refused")
  <2>1. w.status = "failed" /\ w.error = "refused" /\ w.tx = writes[i].tx
    BY <1>1 DEF Failed, WriteOK
  <2>2. Put(i, w)
    BY <1>5
  <2>3. HIDE DEF w
  <2>4. MayReport(Label(writes[i]), Label(w), Took(writes[i], landed))
    BY <1>1, <2>1 DEF MayReport, Label
  <2>5. Took(w, landed) <=> Took(writes[i], landed)
    BY <2>1 DEF Took
  <2>6. QED
    BY <1>1, <1>2, <2>2, <2>4, <2>5, PutMoves
<1>6. QED
  BY <1>3, <1>4, <1>5 DEF GetAccount, Simulate, Reject

LEMMA SendMoves ==
    ASSUME TxInv, NEW i, Send(i)
    PROVE  \A j \in Ids : Moves(j, writes, landed, writes', landed')
<1>1. i \in Started /\ writes[i].status = "signing" /\ writes[i].tx = 0
  <2>1. Signing(i) /\ ~Polling(i)
    BY DEF Send, Signing, Polling, In
  <2>2. QED
    BY <2>1, InProgress
<1>2. PICK w : /\ Put(i, w) /\ WriteOK(w)
               /\ w.status \in {"pending", "failed"}
               /\ w.tx # 0 => landed[w.tx] = "no"
  BY SendRecord
<1>3. landed' = landed
  BY DEF Send
<1>4. MayReport(Label(writes[i]), Label(w), Took(writes[i], landed))
  BY <1>1, <1>2 DEF MayReport, Label, WriteOK, Errors
<1>5. Took(w, landed) <=> Took(writes[i], landed)
  BY <1>1, <1>2 DEF Took
<1>6. QED
  BY <1>1, <1>2, <1>3, <1>4, <1>5, PutMoves

LEMMA PollMoves ==
    ASSUME TxInv, NEW i, Poll(i)
    PROVE  \A j \in Ids : Moves(j, writes, landed, writes', landed')
<1>1. /\ i \in Started /\ writes[i].status = "pending"
      /\ Fits(writes[i], writes, lastSeq, landed)
  <2>1. Polling(i)
    BY DEF Poll
  <2>2. QED
    BY <2>1, InProgress
<1>2. PICK w : /\ Put(i, w) /\ w.tx = writes[i].tx
               /\ \/ w.status = "confirmed" /\ landed[w.tx] = "success"
                  \/ w.status = "failed" /\ w.error = "refused" /\ landed[w.tx] = "failed"
                  \/ w.status = "failed" /\ w.error = "lost"
  BY PollRecord
<1>3. landed' = landed
  BY DEF Poll
<1>4. MayReport(Label(writes[i]), Label(w), Took(writes[i], landed))
  BY <1>1, <1>2 DEF MayReport, Label, Took, Fits
<1>5. Took(w, landed) <=> Took(writes[i], landed)
  BY <1>2 DEF Took
<1>6. QED
  BY <1>1, <1>2, <1>3, <1>4, <1>5, PutMoves

LEMMA ReloadMoves ==
    ASSUME TxInv, Reload
    PROVE  \A j \in Ids : Moves(j, writes, landed, writes', landed')
<1>1. /\ writes' = [i \in DOMAIN writes |->
            IF writes[i].status \in {"signing", "pending"}
            THEN [writes[i] EXCEPT !.status = "dropped"] ELSE writes[i]]
      /\ landed' = landed
  BY DEF Reload, Started
<1>2. ASSUME NEW j \in Ids
      PROVE  Moves(j, writes, landed, writes', landed')
  <2>1. DOMAIN writes' = DOMAIN writes
    BY <1>1
  <2>2. CASE j \notin DOMAIN writes
    BY <2>1, <2>2 DEF Moves, LabelIn, TookIn
  <2>3. CASE j \in DOMAIN writes /\ writes[j].status \in {"signing", "pending"}
    <3>1. writes'[j].status = "dropped" /\ writes'[j].tx = writes[j].tx
      BY <1>1, <2>3 DEF TxInv, WritesFit, WriteOK
    <3>2. Label(writes[j]) \in {"signing", "pending"} /\ Label(writes'[j]) = "dropped"
      BY <2>3, <3>1 DEF Label
    <3>3. Took(writes'[j], landed) <=> Took(writes[j], landed)
      BY <3>1 DEF Took
    <3>4. QED
      BY <1>1, <2>1, <2>3, <3>2, <3>3 DEF Moves, LabelIn, TookIn, MayReport
  <2>4. CASE j \in DOMAIN writes /\ writes[j].status \notin {"signing", "pending"}
    <3>1. writes'[j] = writes[j]
      BY <1>1, <2>4
    <3>2. QED
      BY <1>1, <2>1, <2>4, <3>1 DEF Moves, LabelIn, TookIn
  <2>5. QED
    BY <2>2, <2>3, <2>4
<1>3. QED
  BY <1>2

\* The ledger's word on a transaction comes after it was sent, and while no
\* record has claimed to be sure of it.
LEMMA IncludeMoves ==
    ASSUME TxInv, NEW u \in Users, Include(u)
    PROVE  \A j \in Ids : Moves(j, writes, landed, writes', landed')
<1>1. PICK r \in {"success", "failed"} : landed' = [landed EXCEPT ![queue[u]] = r]
  BY IncludeFacts
<1>2. queue[u] # 0 /\ queue[u] \in Ids /\ landed[queue[u]] = "no" /\ writes' = writes
  BY IncludeFacts
<1>3. ASSUME NEW j \in Ids
      PROVE  Moves(j, writes, landed, writes', landed')
  <2>1. CASE j \notin DOMAIN writes
    BY <1>2, <2>1 DEF Moves, LabelIn, TookIn
  <2>2. CASE j \in DOMAIN writes /\ writes[j].tx = queue[u]
    <3>1. WriteOK(writes[j]) /\ Fits(writes[j], writes, lastSeq, landed)
      BY <2>2 DEF TxInv, WritesFit
    <3>2. Label(writes[j]) \in {"pending", "lost", "dropped"}
      BY <1>2, <2>2, <3>1 DEF Label, WriteOK, Fits, Statuses, Errors
    <3>3. ~Took(writes[j], landed)
      BY <1>2, <2>2 DEF Took
    <3>4. QED
      BY <1>2, <2>2, <3>2, <3>3 DEF Moves, LabelIn, TookIn, MayApply
  <2>3. CASE j \in DOMAIN writes /\ writes[j].tx # queue[u]
    <3>1. landed'[writes[j].tx] = landed[writes[j].tx]
      BY <1>1, <2>3 DEF TxInv, NetworkFits
    <3>2. QED
      BY <1>2, <2>3, <3>1 DEF Moves, LabelIn, TookIn, Took
  <2>4. QED
    BY <2>1, <2>2, <2>3
<1>4. QED
  BY <1>3

LEMMA StillMoves ==
    ASSUME UNCHANGED <<writes, landed>>
    PROVE  \A j \in Ids : Moves(j, writes, landed, writes', landed')
BY DEF Moves

LEMMA StepMoves ==
    ASSUME TxInv, [WebNext]_webVars
    PROVE  \A j \in Ids : Moves(j, writes, landed, writes', landed')
<1>1. CASE Submit \/ Retry
  <2>1. PICK call, retried : Start(call, retried)
    BY <1>1 DEF Submit, Retry
  <2>2. QED
    BY <2>1, StartMoves
<1>2. CASE Clear \/ Connect \/ Disconnect \/ Queries \/ Others \/ UNCHANGED webVars
  BY <1>2, QuietInv, StillMoves
<1>3. CASE Reload
  BY <1>3, ReloadMoves
<1>4. CASE Friendbot
  BY <1>4, StillMoves DEF Friendbot
<1>5. CASE \E i \in Ids : GetAccount(i) \/ Simulate(i) \/ Reject(i) \/ Send(i) \/ Poll(i)
  BY <1>5, BuildMoves, SendMoves, PollMoves
<1>6. CASE \E u \in Users : Include(u)
  BY <1>6, IncludeMoves
<1>7. CASE \E u \in Users : Expire(u)
  BY <1>7, StillMoves DEF Expire
<1>8. QED
  BY <1>1, <1>2, <1>3, <1>4, <1>5, <1>6, <1>7 DEF WebNext

\* Every behaviour of the app keeps what TxLifecycle promises of a write, but for
\* its Settles, which is liveness: records only move forward, "confirmed" is said
\* of what took effect only, "refused" of what never does.
THEOREM LifecycleKept ==
    WebSpec => Lifecycle!Init /\ [][Lifecycle!Next]_(Lifecycle!vars)
<1>1. WebInit => Lifecycle!Init
  <2> SUFFICES ASSUME WebInit PROVE Lifecycle!Init
    OBVIOUS
  <2>1. Started = {}
    BY LenProperties DEF WebInit, Started
  <2>2. \A i \in Ids : Applied(i) = FALSE
    BY <2>1 DEF Applied
  <2>3. QED
    BY <2>1, <2>2 DEF Lifecycle!Init
<1>2. TxInv /\ TxInv' /\ [WebNext]_webVars => Lifecycle!Next
  BY StepMoves, LifecycleStep
<1>3. TxInv /\ TxInv' /\ [WebNext]_webVars => [Lifecycle!Next]_(Lifecycle!vars)
  BY <1>2
<1>4. QED
  BY <1>1, <1>3, TxInvariant, PTL DEF WebSpec

-----------------------------------------------------------------------------
(* The chain under the app: every call a form builds is an entry point     *)
(* with arguments of its types, so the engine's invariant holds there too. *)

\* The cache, whatever of it is old.
PositionViews ==
    [id : PositionIds, market : MarketIds, side : Sides, margin : Nat, notional : Nat,
     entry_price : Nat, mark : Nat, funding : Int]
AccountViews ==
    [balance : Nat, shares : Nat, positions : SUBSET PositionViews, orders : SUBSET OrderIds]

\* What is answered for a price, the prices a random walk is tied to, and those it
\* reaches.
AnsweredPrices == Prices \cup {0}
AnchorPrices == {NoPrice} \cup (Prices \ {0})
ShownPrices == {NoPrice} \cup UNION {LiveBand(p) : p \in Prices \ {0}}
Views ==
    [price : [Feeds -> AnsweredPrices], sharePrice : Nat, account : [Users -> AccountViews],
     anchors : [Feeds -> AnchorPrices], live : [Feeds -> ShownPrices]]
ViewOK == view \in Views

\* A call as a form builds it.  A market ticket's reference price is whatever the
\* cache holds.
GoodCall(c) ==
    /\ c.trader \in Users
    /\ \/ c.method = "faucet"
       \/ /\ c.method \in {"open_position", "place_order"}
          /\ c.market \in MarketIds /\ c.side \in Sides /\ c.margin \in Int /\ c.notional \in Int
          /\ c.method = "place_order" => c.trigger \in Int /\ c.dir \in {Above, Below}
       \/ c.method = "close_position" /\ c.id \in PositionIds
       \/ c.method = "cancel_order" /\ c.id \in OrderIds
       \/ c.method \in {"add_margin", "remove_margin"} /\ c.id \in PositionIds /\ c.amount \in Int
       \/ c.method \in {"add_liquidity", "remove_liquidity"} /\ c.amount \in Int

\* A stored call stays what it was when a form built it: a retry sends it as it is.
CallsOK == \A i \in Started : GoodCall(writes[i].call)

WebInv == TxInv /\ EngineInv /\ ViewOK /\ CallsOK

\* What the node executes keeps the engine's invariant.
LEMMA ExecuteInv ==
    ASSUME EngineInv, NEW c, GoodCall(c), Execute(c)
    PROVE  EngineInv'
<1>1. CASE c.method = "faucet"
  <2>1. /\ Faucet(c.trader, FaucetAmount)
        /\ UNCHANGED <<vaultVars, registryVars, engineVars, price>>
    BY <1>1 DEF Execute
  <2>2. c.trader \in Users /\ FaucetAmount \in Int
    BY WebAssumption, TokenAssumption DEF GoodCall
  <2>3. UNCHANGED vaultVars /\ UNCHANGED <<registryVars, engineVars, price>>
    BY <2>1
  <2>4. pools' = pools
    BY <2>3 DEF vaultVars
  <2>5. VaultInv'
    BY <2>1, <2>2, <2>3, FaucetInv DEF EngineInv
  <2>6. QED
    BY <2>3, <2>4, <2>5, PoolAlone
<1>2. CASE c.method = "open_position"
  <2>1. OpenPosition(c.trader, c.market, c.side, c.margin, c.notional, c.ref, Slippage)
    BY <1>2 DEF Execute
  <2>2. /\ c.trader \in Users /\ c.market \in MarketIds /\ c.side \in Sides
        /\ c.margin \in Int /\ c.notional \in Int
    BY <1>2 DEF GoodCall
  <2>3. QED
    BY <2>1, <2>2, OpenPositionInv
<1>3. CASE c.method = "place_order"
  <2>1. PlaceOrder(c.trader, c.market, c.side, c.margin, c.notional, c.trigger, c.dir, Slippage)
    BY <1>3 DEF Execute
  <2>2. /\ c.trader \in Users /\ c.market \in MarketIds /\ c.side \in Sides
        /\ c.margin \in Int /\ c.notional \in Int /\ c.trigger \in Int
        /\ c.dir \in {Above, Below} /\ Slippage \in Nat
    BY <1>3, WebAssumption DEF GoodCall
  <2>3. QED
    BY <2>1, <2>2, PlaceOrderInv
<1>4. CASE c.method = "close_position"
  <2>1. ClosePosition(c.trader, c.id) /\ c.trader \in Users /\ c.id \in PositionIds
    BY <1>4 DEF Execute, GoodCall
  <2>2. QED
    BY <2>1, ClosePositionInv
<1>5. CASE c.method = "cancel_order"
  <2>1. CancelOrder(c.trader, c.id) /\ c.trader \in Users /\ c.id \in OrderIds
    BY <1>5 DEF Execute, GoodCall
  <2>2. QED
    BY <2>1, CancelOrderInv
<1>6. CASE c.method = "add_margin"
  <2>1. /\ AddPositionMargin(c.trader, c.id, c.amount)
        /\ c.trader \in Users /\ c.id \in PositionIds /\ c.amount \in Int
    BY <1>6 DEF Execute, GoodCall
  <2>2. QED
    BY <2>1, AddPositionMarginInv
<1>7. CASE c.method = "remove_margin"
  <2>1. /\ RemovePositionMargin(c.trader, c.id, c.amount)
        /\ c.trader \in Users /\ c.id \in PositionIds /\ c.amount \in Int
    BY <1>7 DEF Execute, GoodCall
  <2>2. QED
    BY <2>1, RemovePositionMarginInv
<1>8. CASE c.method \in {"add_liquidity", "remove_liquidity"}
  <2>1. /\ AddLiquidity(c.trader, c.amount) \/ RemoveLiquidity(c.trader, c.amount)
        /\ UNCHANGED <<registryVars, engineVars, price>>
    BY <1>8 DEF Execute, InVault
  <2>2. c.trader \in Users /\ c.amount \in Int
    BY <1>8 DEF GoodCall
  <2>3. QED
    BY <2>1, <2>2, LiquidityInv
<1>9. QED
  BY <1>1, <1>2, <1>3, <1>4, <1>5, <1>6, <1>7, <1>8 DEF GoodCall

\* The steps of the app that are not the network's leave the chain alone.
LEMMA ChainStep ==
    ASSUME WebInv, [WebNext]_webVars
    PROVE  EngineInv'
<1>1. EngineInv
  BY DEF WebInv
<1>2. CASE UNCHANGED chainVars
  <2>1. UNCHANGED vars
    BY <1>2 DEF chainVars
  <2>2. QED
    BY <1>1, <2>1, EngineStepInv
<1>3. ASSUME NEW u \in Users, Include(u)
      PROVE  EngineInv'
  <2>1. UNCHANGED chainVars \/ Execute(writes[queue[u]].call)
    BY <1>3 DEF Include
  <2>2. queue[u] \in Started
    BY <1>3 DEF Include, WebInv, TxInv, NetworkFits, Held, Started
  <2>3. GoodCall(writes[queue[u]].call)
    BY <2>2 DEF WebInv, CallsOK
  <2>4. QED
    BY <1>1, <1>2, <2>1, <2>3, ExecuteInv
<1>4. CASE Others
  <2>1. CASE PriceMove \/ KeeperNext
    BY <1>1, <2>1, PriceMoveInv, KeeperNextInv
  <2>2. CASE /\ Pause(Admin) \/ Unpause(Admin)
             /\ UNCHANGED <<tokenVars, vaultVars, engineVars, price>>
    <3>1. RegistryNext
      BY <2>2, RegistryAssumption DEF RegistryNext, PauseNext
    <3>2. ControlNext
      BY <2>2, <3>1 DEF ControlNext
    <3>3. QED
      BY <1>1, <3>2, ControlInv
  <2>3. CASE \E u \in Users, a \in Amounts : InVault(AddLiquidity(u, a))
    <3>1. PICK u \in Users, a \in Amounts : InVault(AddLiquidity(u, a))
      BY <2>3
    <3>2. AddLiquidity(u, a) /\ UNCHANGED <<registryVars, engineVars, price>> /\ a \in Int
      BY <3>1, TokenAssumption DEF InVault
    <3>3. QED
      BY <1>1, <3>2, LiquidityInv
  <2>4. QED
    BY <1>4, <2>1, <2>2, <2>3 DEF Others
<1>5. CASE Submit \/ Retry
  <2>1. PICK call, retried : Start(call, retried)
    BY <1>5 DEF Submit, Retry
  <2>2. QED
    BY <1>2, <2>1 DEF Start
<1>6. CASE Clear \/ Connect \/ Disconnect \/ Reload \/ Queries \/ Friendbot \/ UNCHANGED webVars
  BY <1>2, <1>6 DEF Clear, Connect, Disconnect, Reload, Queries, Refetch, Tick, Friendbot, webVars
<1>7. CASE \E i \in Ids : GetAccount(i) \/ Simulate(i) \/ Reject(i) \/ Send(i) \/ Poll(i)
  BY <1>2, <1>7 DEF GetAccount, Simulate, Reject, Send, Poll
<1>8. CASE \E u \in Users : Expire(u)
  BY <1>2, <1>8 DEF Expire
<1>9. QED
  BY <1>3, <1>4, <1>5, <1>6, <1>7, <1>8 DEF WebNext

-----------------------------------------------------------------------------
(* What the queries answer has its types.                                  *)

\* What the queries read.
LEMMA ChainTypes ==
    ASSUME EngineInv
    PROVE  /\ balance \in [Accounts -> Nat] /\ shares \in [Users -> Nat]
           /\ pools.lp_cash \in Nat /\ totalShares \in Nat
           /\ userPositions \in [Users -> SUBSET PositionIds]
           /\ userOrders \in [Users -> SUBSET OrderIds]
           /\ price \in [Feeds -> Prices \cup {NoPrice}]
           /\ \A id \in PositionIds : Open(id) => positions[id] \in Position
BY DEF EngineInv, VaultInv, VaultTypeOK, TokenTypeOK, PositionBook, PositionTypeOK,
       OrderBook, OrderTypeOK, MarketBook, FeedTypeOK, Open

\* A price is within its own band.
LEMMA BandHolds ==
    ASSUME NEW p \in Nat
    PROVE  p \in LiveBand(p) /\ LiveBand(p) \subseteq Int
<1>1. (975 * p + 999) \div 1000 <= p /\ p <= (1025 * p) \div 1000
  OBVIOUS
<1>2. QED
  BY <1>1 DEF LiveBand

\* What they answer: also the last answer, kept when user_positions traps.
LEMMA AnswerTypes ==
    ASSUME EngineInv, ViewOK
    PROVE  /\ SharePrice \in Nat
           /\ PriceAnswer \in [Feeds -> AnsweredPrices]
           /\ EmptyAccount \in AccountViews
           /\ \A u \in Users : AccountAnswer(u) \in AccountViews
<1>1. SharePrice \in Nat
  <2>1. pools.lp_cash \in Nat /\ totalShares \in Nat /\ SCALE \in Nat
    BY ChainTypes, WebAssumption
  <2>2. CASE totalShares = 0
    BY <2>1, <2>2 DEF SharePrice
  <2>3. CASE totalShares # 0
    <3>1. pools.lp_cash * SCALE \in Nat
      BY <2>1
    <3>2. (pools.lp_cash * SCALE) \div totalShares \in Nat
      BY <2>1, <2>3, <3>1, QuotientBounds
    <3>3. QED
      BY <2>3, <3>2 DEF SharePrice
  <2>4. QED
    BY <2>2, <2>3
<1>2. PriceAnswer \in [Feeds -> AnsweredPrices]
  <2>1. \A f \in Feeds : price[f] \in Prices \cup {NoPrice}
    BY ChainTypes
  <2>2. QED
    BY <2>1 DEF PriceAnswer, ReadContract, AnsweredPrices
<1>3. EmptyAccount \in AccountViews
  BY DEF EmptyAccount, AccountViews
<1>4. ASSUME NEW u \in Users
      PROVE  AccountAnswer(u) \in AccountViews
  <2>1. ASSUME AllViewed(u)
        PROVE  {PositionView(id) : id \in userPositions[u]} \in SUBSET PositionViews
    <3>1. userPositions[u] \subseteq PositionIds
      BY ChainTypes
    <3>2. ASSUME NEW id \in userPositions[u]
          PROVE  PositionView(id) \in PositionViews
      <4>1. id \in PositionIds /\ Open(id) /\ Valued(positions[id])
        BY <2>1, <3>1 DEF EngineInv, PositionBook, PositionIndex, AllViewed
      <4>2. positions[id] \in Position /\ MarketBook
        BY <4>1, ChainTypes DEF EngineInv
      <4>3. FundingOwed(positions[id]) \in Int /\ positions[id].market \in MarketIds
        BY <4>2, FundingTypes DEF Position
      <4>4. Mark(positions[id].market) \in Nat
        BY <4>1, <4>2, <4>3, ConfigTypes DEF Valued, Priced
      <4>5. QED
        BY <4>1, <4>2, <4>3, <4>4 DEF PositionView, PositionViews, Position
    <3>3. QED
      BY <3>2
  <2>2. view.account[u].positions \in SUBSET PositionViews
    BY DEF ViewOK, Views, AccountViews
  <2>3. PositionsAnswer(u) \in SUBSET PositionViews
    BY <2>1, <2>2 DEF PositionsAnswer, ReadContract
  <2>4. OrdersAnswer(u) \in SUBSET OrderIds /\ balance[u] \in Nat /\ shares[u] \in Nat
    BY ChainTypes DEF OrdersAnswer, Accounts
  <2>5. QED
    BY <2>3, <2>4 DEF AccountAnswer, AccountViews
<1>5. QED
  BY <1>1, <1>2, <1>3, <1>4

\* A page just loaded.
LEMMA EmptyViewOK == EmptyView \in Views
<1>1. EmptyAccount \in AccountViews
  BY DEF EmptyAccount, AccountViews
<1>2. QED
  BY <1>1 DEF EmptyView, Views, AnsweredPrices, AnchorPrices, ShownPrices

\* A new answer: only a price becomes an anchor.
LEMMA AnchorStep ==
    ASSUME ViewOK, NEW p \in [Feeds -> AnsweredPrices]
    PROVE  Anchored(p) \in Views
<1> DEFINE anchors == [f \in Feeds |-> IF p[f] > 0 THEN p[f] ELSE view.anchors[f]]
           live == [f \in Feeds |->
                      IF p[f] > 0 /\ view.live[f] = NoPrice THEN p[f] ELSE view.live[f]]
<1>1. ASSUME NEW f \in Feeds, p[f] > 0
      PROVE  p[f] \in Prices \ {0}
  <2>1. p[f] \in AnsweredPrices
    OBVIOUS
  <2>2. p[f] # 0
    BY <1>1
  <2>3. QED
    BY <2>1, <2>2 DEF AnsweredPrices
<1>2. \A f \in Feeds : p[f] > 0 => p[f] \in LiveBand(p[f])
  BY <1>1, BandHolds, EngineAssumption
<1>3. view \in Views
  BY DEF ViewOK
<1>4. anchors \in [Feeds -> AnchorPrices]
  BY <1>1, <1>3 DEF Views, AnchorPrices
<1>5. live \in [Feeds -> ShownPrices]
  BY <1>1, <1>2, <1>3 DEF Views, ShownPrices
<1>6. Anchored(p) = [view EXCEPT !.price = p, !.anchors = anchors, !.live = live]
  BY <1>3 DEF Anchored, Views
<1>7. HIDE DEF anchors, live
<1>8. QED
  BY <1>3, <1>4, <1>5, <1>6 DEF Views

\* The ticker stays in the band of its anchor.
LEMMA TickStep ==
    ASSUME ViewOK, Tick
    PROVE  ViewOK'
<1>1. view \in Views
  BY DEF ViewOK
<1>2. ASSUME NEW f \in Feeds
      PROVE  Ticked(f) \subseteq ShownPrices
  <2>1. view.anchors[f] \in AnchorPrices /\ view.live[f] \in ShownPrices
    BY <1>1 DEF Views
  <2>2. QED
    BY <2>1 DEF Ticked, AnchorPrices, ShownPrices
<1>3. PICK live \in [Feeds -> UNION {Ticked(f) : f \in Feeds}] :
          (\A f \in Feeds : live[f] \in Ticked(f)) /\ view' = [view EXCEPT !.live = live]
  BY DEF Tick
<1>4. live \in [Feeds -> ShownPrices]
  BY <1>2, <1>3
<1>5. QED
  BY <1>1, <1>3, <1>4 DEF Views, ViewOK

\* A field of an account's answers is replaced.
LEMMA AccountStep ==
    ASSUME ViewOK, NEW u \in Users, NEW a \in AccountViews,
           \/ view' = [view EXCEPT !.account[u] = a]
           \/ view' = [view EXCEPT !.account[u].balance = a.balance]
           \/ view' = [view EXCEPT !.account[u].shares = a.shares]
           \/ view' = [view EXCEPT !.account[u].positions = a.positions]
           \/ view' = [view EXCEPT !.account[u].orders = a.orders]
    PROVE  ViewOK'
<1>1. view \in Views
  BY DEF ViewOK
<1>2. ASSUME NEW b \in AccountViews, view' = [view EXCEPT !.account[u] = b]
      PROVE  ViewOK'
  <2>1. [view.account EXCEPT ![u] = b] \in [Users -> AccountViews]
    BY <1>1 DEF Views
  <2>2. view' = [view EXCEPT !.account = [view.account EXCEPT ![u] = b]]
    BY <1>2
  <2>3. view' \in Views
    BY <1>1, <2>1, <2>2 DEF Views
  <2>4. QED
    BY <2>3 DEF ViewOK
<1> DEFINE old == view.account[u]
<1>3. old \in AccountViews
  BY <1>1 DEF Views
<1>4. /\ [old EXCEPT !.balance = a.balance] \in AccountViews
      /\ [old EXCEPT !.shares = a.shares] \in AccountViews
      /\ [old EXCEPT !.positions = a.positions] \in AccountViews
      /\ [old EXCEPT !.orders = a.orders] \in AccountViews
  <2>1. HIDE DEF old
  <2>2. QED
    BY <1>3 DEF AccountViews
<1>5. \/ view' = [view EXCEPT !.account[u] = a]
      \/ view' = [view EXCEPT !.account[u] = [old EXCEPT !.balance = a.balance]]
      \/ view' = [view EXCEPT !.account[u] = [old EXCEPT !.shares = a.shares]]
      \/ view' = [view EXCEPT !.account[u] = [old EXCEPT !.positions = a.positions]]
      \/ view' = [view EXCEPT !.account[u] = [old EXCEPT !.orders = a.orders]]
  OBVIOUS
<1>6. HIDE DEF old
<1>7. QED
  BY <1>2, <1>4, <1>5

\* No step puts anything else into the cache.
LEMMA ViewStep ==
    ASSUME WebInv, [WebNext]_webVars
    PROVE  ViewOK'
<1>1. EngineInv /\ ViewOK /\ view \in Views
  BY DEF WebInv, ViewOK
<1>2. CASE UNCHANGED view
  BY <1>1, <1>2 DEF ViewOK
<1>3. /\ SharePrice \in Nat
      /\ PriceAnswer \in [Feeds -> AnsweredPrices]
      /\ EmptyAccount \in AccountViews
      /\ \A u \in Users : AccountAnswer(u) \in AccountViews
  BY <1>1, AnswerTypes
<1>4. CASE Queries
  <2>1. ASSUME NEW failed \in SUBSET Feeds,
               view' = Anchored([f \in Feeds |-> IF f \in failed THEN 0 ELSE PriceAnswer[f]])
        PROVE  ViewOK'
    <3> DEFINE p == [f \in Feeds |-> IF f \in failed THEN 0 ELSE PriceAnswer[f]]
    <3>1. p \in [Feeds -> AnsweredPrices]
      BY <1>3 DEF AnsweredPrices
    <3>2. view' = Anchored(p)
      BY <2>1
    <3>3. HIDE DEF p
    <3>4. QED
      BY <1>1, <3>1, <3>2, AnchorStep DEF ViewOK
  <2>2. CASE view' = [view EXCEPT !.sharePrice = SharePrice]
    BY <1>1, <1>3, <2>2 DEF ViewOK, Views
  <2>3. ASSUME wallet # NoUser, NEW a, a = AccountAnswer(wallet),
               \/ view' = [view EXCEPT !.account[wallet].balance = a.balance]
               \/ view' = [view EXCEPT !.account[wallet].shares = a.shares]
               \/ view' = [view EXCEPT !.account[wallet].positions = a.positions]
               \/ view' = [view EXCEPT !.account[wallet].orders = a.orders]
        PROVE  ViewOK'
    <3>1. wallet \in Users
      BY <2>3 DEF WebInv, TxInv, BoundsOK
    <3>2. a \in AccountViews
      BY <1>3, <2>3, <3>1
    <3>3. QED
      BY <1>1, <2>3, <3>1, <3>2, AccountStep
  <2>4. CASE Tick
    BY <1>1, <2>4, TickStep
  <2>5. QED
    BY <1>4, <2>1, <2>2, <2>3, <2>4 DEF Queries, Refetch
<1>5. CASE Connect
  <2>1. PICK u \in Users : view' = view \/ view' = [view EXCEPT !.account[u] = EmptyAccount]
    BY <1>5 DEF Connect
  <2>2. QED
    BY <1>1, <1>2, <1>3, <2>1, AccountStep
<1>6. CASE Reload
  BY <1>6, EmptyViewOK DEF Reload, ViewOK
<1>7. CASE Submit \/ Retry
  <2>1. PICK call, retried : Start(call, retried)
    BY <1>7 DEF Submit, Retry
  <2>2. QED
    BY <1>2, <2>1 DEF Start
<1>8. CASE Clear \/ Disconnect \/ Friendbot \/ Others \/ UNCHANGED webVars
  BY <1>2, <1>8 DEF Clear, Disconnect, Friendbot, Others, webVars
<1>9. CASE \E i \in Ids : GetAccount(i) \/ Simulate(i) \/ Reject(i) \/ Send(i) \/ Poll(i)
  BY <1>2, <1>9 DEF GetAccount, Simulate, Reject, Send, Poll
<1>10. CASE \E u \in Users : Include(u) \/ Expire(u)
  BY <1>2, <1>10 DEF Include, Expire
<1>11. QED
  BY <1>4, <1>5, <1>6, <1>7, <1>8, <1>9, <1>10 DEF WebNext

-----------------------------------------------------------------------------
(* The calls.                                                              *)

\* Every form's call, from a cache of any age.
LEMMA FormCallTypes ==
    ASSUME WebInv, wallet # NoUser, NEW c \in FormCalls(wallet)
    PROVE  GoodCall(c)
<1>1. wallet \in Users /\ AmountInputs \subseteq Nat /\ TriggerInputs \subseteq Nat
      /\ Leverages \subseteq Nat
  BY WebAssumption DEF WebInv, TxInv, BoundsOK
<1>2. Mine \in AccountViews /\ view.sharePrice \in Nat
  BY <1>1 DEF WebInv, ViewOK, Views, Mine
<1>3. CASE c = FaucetCall(wallet)
  BY <1>1, <1>3 DEF FaucetCall, GoodCall
<1>4. CASE c \in TicketCalls(wallet)
  <2>1. PICK m \in MarketIds, t \in Tickets : c = TicketCall(wallet, m, t)
    BY <1>4 DEF TicketCalls
  <2>2. t.side \in Sides /\ t.margin \in Nat /\ t.leverage \in Nat /\ t.trigger \in Nat
    BY <1>1 DEF Tickets
  <2>3. Notional(t) \in Int
    BY <2>2 DEF Notional, TwiceNotional
  <2>4. QED
    BY <1>1, <2>1, <2>2, <2>3 DEF TicketCall, PlaceCall, OpenCall, GoodCall
<1>5. CASE c \in CloseCalls(wallet) \cup CancelCalls(wallet)
  BY <1>1, <1>2, <1>5 DEF CloseCalls, CancelCalls, CloseCall, CancelCall, GoodCall, AccountViews,
    PositionViews
<1>6. CASE c \in ManageCalls(wallet)
  <2>1. PICK x \in [mode : {"add_margin", "remove_margin"}, id : PositionIds,
                   amount : AmountInputs] :
            c = MarginCall(x.mode, wallet, x.id, x.amount)
    BY <1>6 DEF ManageCalls
  <2>2. /\ x.mode \in {"add_margin", "remove_margin"} /\ x.id \in PositionIds
        /\ x.amount \in AmountInputs
    <3>1. x \in [mode : {"add_margin", "remove_margin"}, id : PositionIds, amount : AmountInputs]
      BY <2>1
    <3>2. QED
      BY <3>1
  <2>3. c.method = x.mode /\ c.trader = wallet /\ c.id = x.id /\ c.amount = x.amount
    BY <2>1 DEF MarginCall
  <2>4. QED
    <3>1. x.amount \in Nat
      BY <2>2, WebAssumption
    <3>2. c.amount = x.amount
      BY <2>3
    <3>3. c.amount \in Int
      BY <3>1, <3>2
    <3>4. QED
      BY <1>1, <2>2, <2>3, <3>3 DEF GoodCall
<1>7. CASE c \in VaultCalls(wallet)
  <2>1. ASSUME NEW a \in AmountInputs
        PROVE  WithdrawShares(a) \in Int
    <3>1. a \in Nat /\ SCALE \in Nat /\ Mine.shares \in Nat
      BY <1>1, <1>2, WebAssumption DEF AccountViews
    <3>2. CASE view.sharePrice = 0
      BY <3>2 DEF WithdrawShares
    <3>3. CASE view.sharePrice # 0
      <4>1. a * SCALE \in Nat
        BY <3>1
      <4>2. (a * SCALE) \div view.sharePrice \in Nat
        BY <1>2, <3>3, <4>1, QuotientBounds
      <4>3. QED
        BY <3>1, <3>3, <4>2 DEF WithdrawShares, MinOf
    <3>4. QED
      BY <3>2, <3>3
  <2>2. \/ \E a \in AmountInputs : c = VaultCall("add_liquidity", wallet, a)
        \/ \E a \in AmountInputs : c = VaultCall("remove_liquidity", wallet, WithdrawShares(a))
    BY <1>7 DEF VaultCalls
  <2>3. c.trader = wallet /\ c.method \in {"add_liquidity", "remove_liquidity"} /\ c.amount \in Int
    BY <1>1, <2>1, <2>2 DEF VaultCall
  <2>4. QED
    BY <1>1, <2>3 DEF GoodCall
<1>8. QED
  BY <1>3, <1>4, <1>5, <1>6, <1>7 DEF FormCalls

\* A run's step does not touch its call, ...
LEMMA PutCalls ==
    ASSUME WebInv, NEW i \in Started, NEW w, Put(i, w), w.call = writes[i].call
    PROVE  CallsOK'
<1>1. /\ DOMAIN writes' = DOMAIN writes /\ writes'[i] = w
      /\ \A j \in DOMAIN writes \ {i} : writes'[j] = writes[j]
  BY ExceptFacts DEF Put, Started, WebInv, TxInv, WritesFit
<1>2. QED
  BY <1>1 DEF WebInv, CallsOK, Started

LEMMA RunCalls ==
    ASSUME WebInv, NEW i, GetAccount(i) \/ Simulate(i) \/ Reject(i) \/ Send(i) \/ Poll(i)
    PROVE  CallsOK'
<1>1. i \in Started /\ WriteOK(writes[i])
  BY InProgress DEF WebInv, GetAccount, Simulate, Reject, Send, Poll
<1>2. "call" \in DOMAIN writes[i]
  BY <1>1 DEF WriteOK
<1>3. /\ \A x : [writes[i] EXCEPT !.seq = x].call = writes[i].call
      /\ [writes[i] EXCEPT !.prepared = TRUE].call = writes[i].call
  BY <1>2
<1>4. \A e : /\ Failed(i, e).call = writes[i].call
             /\ [Failed(i, e) EXCEPT !.tx = i].call = writes[i].call
  BY <1>2 DEF Failed
<1>5. Confirmed(i).call = writes[i].call /\ \A x : Sent(i, x).call = writes[i].call
  BY <1>2 DEF Confirmed, Sent
<1>6. \/ \E x : Put(i, [writes[i] EXCEPT !.seq = x]) \/ Put(i, Sent(i, x))
      \/ \E e : Put(i, Failed(i, e)) \/ Put(i, [Failed(i, e) EXCEPT !.tx = i])
      \/ Put(i, Confirmed(i)) \/ Put(i, [writes[i] EXCEPT !.prepared = TRUE])
  BY DEF GetAccount, Simulate, Reject, Send, Poll
<1>7. QED
  BY <1>1, <1>3, <1>4, <1>5, <1>6, PutCalls

\* ... a new run brings a form's call or that of an earlier run.
LEMMA CallsStep ==
    ASSUME WebInv, [WebNext]_webVars
    PROVE  CallsOK'
<1>1. CASE UNCHANGED writes
  BY <1>1 DEF WebInv, CallsOK, Started
<1>2. ASSUME NEW call, NEW retried, Start(call, retried), GoodCall(call)
      PROVE  CallsOK'
  <2> DEFINE n == Len(writes) + 1
             w == IF wallet = NoUser THEN NewWrite(call, "failed", "refused", retried)
                  ELSE NewWrite(call, "signing", "none", retried)
  <2>1. writes' = Append(writes, w) /\ w.call = call
    BY <1>2 DEF Start, NewWrite
  <2>2. HIDE DEF w
  <2>3. /\ DOMAIN writes' = DOMAIN writes \cup {n} /\ writes'[n] = w
        /\ \A j \in DOMAIN writes : writes'[j] = writes[j]
    BY <2>1, AppendFacts DEF WebInv, TxInv, WritesFit
  <2>4. HIDE DEF n
  <2>5. QED
    BY <1>2, <2>1, <2>3 DEF WebInv, CallsOK, Started
<1>3. CASE Submit
  BY <1>2, <1>3, FormCallTypes DEF Submit
<1>4. CASE Retry
  <2>1. PICK k \in DOMAIN txs : Start(writes[txs[k]].call, txs[k])
    BY <1>4 DEF Retry
  <2>2. GoodCall(writes[txs[k]].call)
    BY DEF WebInv, CallsOK, TxInv, ListFits, Started
  <2>3. QED
    BY <1>2, <2>1, <2>2
<1>5. CASE Reload
  <2>1. /\ DOMAIN writes' = DOMAIN writes
        /\ \A i \in DOMAIN writes :
              writes'[i] = writes[i] \/ writes'[i] = [writes[i] EXCEPT !.status = "dropped"]
    BY <1>5 DEF Reload, Started
  <2>2. \A i \in DOMAIN writes : "call" \in DOMAIN writes[i]
    BY DEF WebInv, TxInv, WritesFit, WriteOK
  <2>3. \A i \in DOMAIN writes : writes'[i].call = writes[i].call
    BY <2>1, <2>2
  <2>4. QED
    BY <2>1, <2>3 DEF WebInv, CallsOK, Started
<1>6. CASE \E i \in Ids : GetAccount(i) \/ Simulate(i) \/ Reject(i) \/ Send(i) \/ Poll(i)
  BY <1>6, RunCalls
<1>7. CASE Clear \/ Connect \/ Disconnect \/ Queries \/ Friendbot \/ Others \/ UNCHANGED webVars
  BY <1>1, <1>7 DEF Clear, Connect, Disconnect, Queries, Refetch, Tick, Friendbot, Others, webVars, txVars
<1>8. CASE \E u \in Users : Include(u) \/ Expire(u)
  BY <1>1, <1>8 DEF Include, Expire
<1>9. QED
  BY <1>3, <1>4, <1>5, <1>6, <1>7, <1>8 DEF WebNext

LEMMA WebInvInit == WebInit => WebInv
<1> SUFFICES ASSUME WebInit PROVE WebInv
  OBVIOUS
<1>1. TxInv /\ EngineInv
  BY InitInv, EngineInitInv DEF WebInit
<1>2. ViewOK
  BY EmptyViewOK DEF WebInit, ViewOK
<1>3. CallsOK
  BY LenProperties DEF WebInit, CallsOK, Started
<1>4. QED
  BY <1>1, <1>2, <1>3 DEF WebInv

LEMMA WebInvariant == WebSpec => []WebInv
<1>1. WebInv /\ [WebNext]_webVars => WebInv'
  BY ChainStep, ViewStep, CallsStep, StepInv DEF WebInv
<1>2. QED
  BY <1>1, WebInvInit, PTL DEF WebSpec

\* Whatever the app sends, retries, sends from the wrong wallet or sends late,
\* and whatever keepers and LPs do meanwhile, the books of the engine and of the
\* vault stay what the engine's own theorems say of them.
THEOREM BooksUnderTheApp == WebSpec => []EngineInv
<1>1. WebInv => EngineInv
  BY DEF WebInv
<1>2. QED
  BY <1>1, WebInvariant, PTL

-----------------------------------------------------------------------------
(* The arithmetic of the forms.                                            *)

\* A margin and a fee that fit a budget as fractions fit it in units: the half
\* unit that rounding adds to the size costs less than one unit of fee.
LEMMA FeeFits ==
    ASSUME NEW B \in Nat \ {0}, NEW f \in Nat, f < 2 * B, NEW margin \in Nat, NEW twice \in Nat,
           NEW avail \in Nat, 2 * B * margin + twice * f <= 2 * B * avail
    PROVE  margin + (((twice + 1) \div 2) * f) \div B <= avail
<1> DEFINE n == (twice + 1) \div 2
           fee == (n * f) \div B
<1>1. n \in Nat /\ 2 * n <= twice + 1
  OBVIOUS
<1>2. HIDE DEF n
<1>3. n * f \in Nat
  BY <1>1
<1>4. fee \in Nat /\ B * fee <= n * f
  BY <1>3, QuotientBounds
<1>5. HIDE DEF fee
<1>6. (2 * n) * f <= (twice + 1) * f
  BY <1>1, ProductMonotone
<1>7. (2 * n) * f = 2 * (n * f) /\ (twice + 1) * f = twice * f + f
  BY <1>1
<1>8. 2 * (B * fee) <= twice * f + f
  BY <1>1, <1>3, <1>4, <1>6, <1>7
<1>9. 2 * B * margin = 2 * (B * margin) /\ 2 * B * avail = 2 * (B * avail)
  OBVIOUS
<1>10. B * margin \in Nat /\ B * avail \in Nat /\ B * fee \in Nat /\ twice * f \in Nat
  BY <1>4
<1>11. 2 * (B * margin) + 2 * (B * fee) < 2 * (B * avail) + 2 * B
  BY <1>8, <1>9, <1>10
<1>12. B * margin + B * fee < B * avail + B
  BY <1>10, <1>11
<1>13. B * (margin + fee) = B * margin + B * fee /\ B * (avail + 1) = B * avail + B
  BY <1>4
<1>14. B * (margin + fee) < B * (avail + 1)
  BY <1>12, <1>13
<1>15. margin + fee < avail + 1
  BY <1>4, <1>14, CancelFactor
<1>16. margin + fee <= avail
  BY <1>4, <1>15
<1>17. QED
  BY <1>16 DEF fee, n

\* Shares bought back with typed dollars: n of them at a price of s cost a at most.
LEMMA WithdrawNumbers ==
    ASSUME NEW scale \in Nat \ {0}, NEW total \in Nat \ {0}, NEW lp \in Nat,
           NEW s \in Nat, NEW n \in Nat, NEW a \in Nat,
           s = (lp * scale) \div total, n * s <= a * scale
    PROVE  ((n * lp) \div total) * s <= a * (s + 1)
<1> DEFINE cash == (n * lp) \div total
<1>1. lp * scale \in Nat /\ n * lp \in Nat
  OBVIOUS
<1>2. lp * scale < total * s + total
  BY <1>1, QuotientBounds
<1>3. cash \in Nat /\ total * cash <= n * lp
  BY <1>1, QuotientBounds
<1>4. HIDE DEF cash
<1> DEFINE k == total * (s + 1)
<1>5. k \in Nat /\ lp * scale <= k
  BY <1>1, <1>2
<1>6. (total * cash) * (s * scale) <= (n * lp) * (s * scale)
  <2>1. total * cash \in Nat /\ s * scale \in Nat
    BY <1>3
  <2>2. QED
    BY <1>1, <1>3, <2>1, ProductMonotone
<1>7. (n * lp) * (s * scale) = (n * s) * (lp * scale)
  OBVIOUS
<1>8. (n * s) * (lp * scale) <= (n * s) * k
  <2>1. n * s \in Nat
    OBVIOUS
  <2>2. HIDE DEF k
  <2>3. QED
    BY <1>1, <1>5, <2>1, ProductMonotone
<1>9. (n * s) * k <= (a * scale) * k
  <2>1. n * s \in Nat /\ a * scale \in Nat
    OBVIOUS
  <2>2. HIDE DEF k
  <2>3. QED
    BY <1>5, <2>1, ProductMonotone
<1>10. (total * cash) * (s * scale) = (total * scale) * (cash * s)
  BY <1>3
<1>11. (a * scale) * k = (total * scale) * (a * (s + 1))
  OBVIOUS
<1>12. total * scale \in Nat \ {0} /\ cash * s \in Int /\ a * (s + 1) \in Int
  BY <1>3
<1>13. (total * scale) * (cash * s) <= (total * scale) * (a * (s + 1))
  <2>1. (n * lp) * (s * scale) \in Int /\ (n * s) * k \in Int /\ (a * scale) * k \in Int
    BY <1>5
  <2>2. (total * cash) * (s * scale) \in Int
    BY <1>3
  <2>3. HIDE DEF k
  <2>4. QED
    BY <1>6, <1>7, <1>8, <1>9, <1>10, <1>11, <2>1, <2>2
<1>14. cash * s < a * (s + 1) + 1
  <2>1. (total * scale) * (a * (s + 1) + 1) = (total * scale) * (a * (s + 1)) + total * scale
    OBVIOUS
  <2>2. (total * scale) * (cash * s) < (total * scale) * (a * (s + 1) + 1)
    BY <1>12, <1>13, <2>1
  <2>3. QED
    BY <1>12, <2>2, CancelFactor
<1>15. QED
  BY <1>12, <1>14 DEF cash

\* The preview's formula cancels the size out; the engine divides by it, after a
\* division by BPS_DENOM.  k is what those and the rounded size lose, e the last one.
LEMMA PreviewNumbers ==
    ASSUME NEW B \in Nat \ {0}, NEW l \in Nat \ {0}, NEW r \in Nat, NEW p \in Nat, NEW c \in Nat,
           NEW n \in Nat \ {0}, n = (c * l + 1) \div 2, NEW M, M = (n * r) \div B,
           NEW delta, delta = TDiv(p * (M - c), n)
    PROVE  LET away == B * 2 - r * l
               base == B * l
           IN  /\ AbsDiff(MaxOf(p * (base - away), 0), MaxOf(p + delta, 0) * base) * n
                     <= base * (p + n)
               /\ AbsDiff(MaxOf(p * (base + away), 0), MaxOf(p - delta, 0) * base) * n
                     <= base * (p + n)
<1> DEFINE rho == 2 * n - c * l
           w == n * r - B * M
           e == p * (M - c) - delta * n
           away == B * 2 - r * l
           base == B * l
           k == w * l - B * rho
           bound == base * (p + n)
<1>1. c * l \in Nat /\ n * r \in Nat /\ base \in Nat \ {0} /\ away \in Int
  OBVIOUS
<1>2. rho \in {0, 1}
  BY <1>1
<1>3. M \in Nat /\ w \in Nat /\ w < B
  <2>1. M \in Nat /\ B * M <= n * r /\ n * r < B * M + B
    BY <1>1, QuotientBounds
  <2>2. B * M \in Nat
    BY <2>1
  <2>3. QED
    BY <1>1, <2>1, <2>2
<1>4. delta \in Int /\ e \in Int /\ -n <= e /\ e <= n
  <2> DEFINE x == p * (M - c)
  <2>1. x \in Int
    BY <1>3
  <2>2. HIDE DEF x
  <2>3. /\ TDiv(x, n) \in Int /\ x - TDiv(x, n) * n \in Int
        /\ -n < x - TDiv(x, n) * n /\ x - TDiv(x, n) * n < n
    BY <2>1, TDivError
  <2>4. delta = TDiv(x, n) /\ e = x - TDiv(x, n) * n
    BY DEF x
  <2>5. QED
    BY <2>3, <2>4
<1>5. /\ 2 * n = c * l + rho /\ n * r = B * M + w /\ p * (M - c) = delta * n + e
  <2>1. B * M \in Int /\ delta * n \in Int /\ p * (M - c) \in Int
    BY <1>3, <1>4
  <2>2. QED
    BY <1>1, <2>1
<1>6. k \in Int /\ -base <= k /\ k <= base
  <2>1. w * l <= B * l /\ w * l \in Nat
    BY <1>3, ProductMonotone
  <2>2. B * rho \in Nat /\ B * rho <= base
    <3>1. 1 * B <= l * B /\ l * B = B * l /\ 1 * B = B
      BY ProductMonotone
    <3>2. B * rho = 0 \/ B * rho = B
      BY <1>2
    <3>3. QED
      BY <3>1, <3>2
  <2>3. HIDE DEF w, rho
  <2>4. QED
    BY <1>1, <2>1, <2>2
<1>7. rho \in Int /\ w \in Int
  BY <1>2, <1>3
<1>8. /\ n * (p * (base - away) - (p + delta) * base) = p * k + e * base
      /\ n * (p * (base + away) - (p - delta) * base) = -(p * k + e * base)
  <2>1. base = B * l /\ away = B * 2 - r * l /\ k = w * l - B * rho
    OBVIOUS
  <2>2. B \in Int /\ l \in Int /\ r \in Int /\ p \in Int /\ c \in Int /\ n \in Int /\ M \in Int
    BY <1>3
  <2>3. HIDE DEF rho, w, e, base, away, k
  <2>4. /\ rho \in Int /\ w \in Int /\ e \in Int /\ delta \in Int
        /\ away \in Int /\ base \in Int /\ k \in Int
        /\ 2 * n = c * l + rho /\ n * r = B * M + w /\ p * (M - c) = delta * n + e
    BY <1>1, <1>4, <1>5, <1>6, <1>7
  <2>5. n * away + (M - c) * base = -k
    <3>1. n * away = B * (2 * n) - (n * r) * l
      BY <2>1, <2>2
    <3>2. B * (2 * n) = B * (c * l) + B * rho
      <4>1. B * (c * l + rho) = B * (c * l) + B * rho
        BY <2>2, <2>4
      <4>2. QED
        BY <2>4, <4>1
    <3>3. (n * r) * l = (B * M) * l + w * l
      <4>1. (B * M + w) * l = (B * M) * l + w * l
        BY <2>2, <2>4
      <4>2. QED
        BY <2>4, <4>1
    <3>4. (M - c) * base = (B * M) * l - B * (c * l)
      BY <2>1, <2>2
    <3>5. B * rho \in Int /\ w * l \in Int /\ (B * M) * l \in Int /\ B * (c * l) \in Int
      BY <2>2, <2>4
    <3>6. QED
      BY <2>1, <3>1, <3>2, <3>3, <3>4, <3>5
  <2>6. (delta * n) * base = (p * (M - c)) * base - e * base
    <3>1. delta * n = p * (M - c) - e
      BY <2>2, <2>4
    <3>2. (p * (M - c) - e) * base = (p * (M - c)) * base - e * base
      BY <2>2, <2>4
    <3>3. QED
      BY <2>4, <3>1, <3>2
  <2>7. p * (n * away) + (p * (M - c)) * base = -(p * k)
    <3>1. p * (n * away) + (p * (M - c)) * base = p * (n * away + (M - c) * base)
      BY <2>2, <2>4
    <3>2. p * (-k) = -(p * k)
      BY <2>2, <2>4
    <3>3. QED
      BY <2>5, <3>1, <3>2
  <2>8. n * (p * (base - away) - (p + delta) * base) = -(p * (n * away)) - (delta * n) * base
    BY <2>2, <2>4
  <2>9. n * (p * (base + away) - (p - delta) * base) = p * (n * away) + (delta * n) * base
    BY <2>2, <2>4
  <2>10. /\ p * (n * away) \in Int /\ (p * (M - c)) * base \in Int /\ p * k \in Int
        /\ e * base \in Int /\ (delta * n) * base \in Int
    BY <2>2, <2>4
  <2>11. n * (p * (base - away) - (p + delta) * base) = p * k + e * base
    BY <2>6, <2>7, <2>8, <2>10
  <2>12. n * (p * (base + away) - (p - delta) * base) = -(p * k + e * base)
    BY <2>6, <2>7, <2>9, <2>10
  <2>13. QED
    BY <2>11, <2>12
<1>9. HIDE DEF rho, w, e, away, base, k
<1>10. -bound <= p * k + e * base /\ p * k + e * base <= bound /\ bound \in Int
  <2>1. k * p \in Int /\ -(base * p) <= k * p /\ k * p <= base * p
    BY <1>1, <1>6, SmallProduct
  <2>2. e * base \in Int /\ -(n * base) <= e * base /\ e * base <= n * base
    BY <1>1, <1>4, SmallProduct
  <2>3. p * k = k * p /\ n * base = base * n
    BY <1>1, <1>6
  <2>4. bound = base * p + base * n /\ base * p \in Nat /\ base * n \in Nat
    BY <1>1
  <2>5. HIDE DEF bound
  <2>6. QED
    BY <2>1, <2>2, <2>3, <2>4
<1>11. /\ p + delta \in Int /\ p - delta \in Int
       /\ p * (base - away) \in Int /\ p * (base + away) \in Int
  BY <1>1, <1>4
<1>12. /\ (p + delta) * base \in Int /\ MaxOf(p + delta, 0) * base = MaxOf((p + delta) * base, 0)
       /\ (p - delta) * base \in Int /\ MaxOf(p - delta, 0) * base = MaxOf((p - delta) * base, 0)
  BY <1>1, <1>11, CutFactor
<1>13. AbsDiff(MaxOf(p * (base - away), 0), MaxOf((p + delta) * base, 0)) * n <= bound
  <2> DEFINE x == p * (base - away)
             z == (p + delta) * base
  <2>1. x \in Int /\ z \in Int /\ -bound <= n * (x - z) /\ n * (x - z) <= bound
    BY <1>8, <1>10, <1>11, <1>12
  <2>2. HIDE DEF x, z, bound
  <2>3. AbsDiff(MaxOf(x, 0), MaxOf(z, 0)) * n <= bound
    BY <1>10, <2>1, CutClose
  <2>4. QED
    BY <2>3 DEF x, z
<1>14. AbsDiff(MaxOf(p * (base + away), 0), MaxOf((p - delta) * base, 0)) * n <= bound
  <2> DEFINE x == p * (base + away)
             z == (p - delta) * base
  <2>1. x \in Int /\ z \in Int /\ -bound <= n * (x - z) /\ n * (x - z) <= bound
    <3>1. p * k + e * base \in Int
      BY <1>1, <1>4, <1>6
    <3>2. HIDE DEF bound
    <3>3. QED
      BY <1>8, <1>10, <1>11, <1>12, <3>1
  <2>2. HIDE DEF x, z, bound
  <2>3. AbsDiff(MaxOf(x, 0), MaxOf(z, 0)) * n <= bound
    BY <1>10, <2>1, CutClose
  <2>4. QED
    BY <2>3 DEF x, z
<1>15. QED
  BY <1>12, <1>13, <1>14 DEF away, base

-----------------------------------------------------------------------------
(* The numbers of the forms.                                               *)

\* Up-to-date queries hold what the chain holds.
LEMMA FreshFacts ==
    ASSUME WebInv, Fresh
    PROVE  /\ wallet \in Users
           /\ Mine.balance = balance[wallet] /\ Mine.shares = shares[wallet]
           /\ balance[wallet] \in Nat /\ shares[wallet] \in Nat
           /\ view.sharePrice = SharePrice /\ SharePrice \in Nat
<1>1. wallet \in Users
  BY DEF WebInv, TxInv, BoundsOK, Fresh
<1>2. balance[wallet] \in Nat /\ shares[wallet] \in Nat
  BY <1>1, ChainTypes DEF WebInv, Accounts
<1>3. Mine.balance = balance[wallet] /\ Mine.shares = shares[wallet]
  BY DEF Fresh, AccountAnswer
<1>4. view.sharePrice = SharePrice /\ SharePrice \in Nat
  BY AnswerTypes DEF Fresh, WebInv
<1>5. QED
  BY <1>1, <1>2, <1>3, <1>4

\* A market that is listed has passed validate.
LEMMA ListedMarket ==
    ASSUME WebInv, NEW m \in MarketIds, HasMarket(m)
    PROVE  /\ markets[m] \in MarketConfig /\ Validate(markets[m])
           /\ markets[m].taker_fee_bps \in Nat /\ markets[m].taker_fee_bps < 1000
           /\ markets[m].mmr_bps \in Nat /\ markets[m].max_funding_rate_bps \in Nat
           /\ \A s \in Sides : oi[m][s] \in Nat
           /\ price[Feed(m)] # NoPrice => Mark(m) \in Nat
<1>1. MarketBook /\ PositionBook
  BY DEF WebInv, EngineInv
<1>2. markets[m] \in MarketConfig /\ (price[Feed(m)] # NoPrice => Mark(m) \in Nat)
  BY <1>1, ConfigTypes
<1>3. Validate(markets[m])
  BY <1>1 DEF MarketBook, RegistryConsistent
<1>4. \A s \in Sides : oi[m][s] \in Nat
  BY <1>1, PositionSums DEF PositionBook, OiMatches
<1>5. QED
  BY <1>2, <1>3, <1>4 DEF MarketConfig, Validate

\* A ticket's numbers.
LEMMA TicketFields ==
    ASSUME NEW t \in Tickets
    PROVE  /\ t.side \in Sides /\ t.margin \in Nat /\ t.trigger \in Nat
           /\ t.leverage \in Nat \ {0, 1}
           /\ TwiceNotional(t) \in Nat /\ TwiceNotional(t) = t.margin * t.leverage
           /\ Notional(t) \in Nat /\ Notional(t) = (TwiceNotional(t) + 1) \div 2
<1>1. t.side \in Sides /\ t.margin \in Nat /\ t.trigger \in Nat /\ t.leverage \in Nat \ {0, 1}
  BY WebAssumption DEF Tickets
<1>2. TwiceNotional(t) \in Nat /\ TwiceNotional(t) = t.margin * t.leverage
  BY <1>1 DEF TwiceNotional
<1>3. (TwiceNotional(t) + 1) \div 2 \in Nat
  BY <1>2
<1>4. QED
  BY <1>1, <1>2, <1>3 DEF Notional

\* The fee is never negative, so its division rounds down.
LEMMA FeeQuotient ==
    ASSUME WebInv, NEW m \in MarketIds, HasMarket(m), NEW n \in Nat
    PROVE  Fee(m, n) = (n * markets[m].taker_fee_bps) \div BPS_DENOM
<1> DEFINE f == markets[m].taker_fee_bps
<1>1. f \in Nat /\ BPS_DENOM \in Nat \ {0}
  BY ListedMarket, ScaleAssumption
<1>2. Fee(m, n) = MulDiv(n, f, BPS_DENOM)
  BY DEF Fee, ApplyBps
<1>3. HIDE DEF f
<1>4. MulDiv(n, f, BPS_DENOM) = (n * f) \div BPS_DENOM
  BY <1>1, MulDivType
<1>5. QED
  BY <1>2, <1>4 DEF f

\* The ticket's check on the balance covers the engine's fee.
LEMMA CostShown ==
    ASSUME BPS_DENOM >= 500, WebInv, Fresh, NEW m \in MarketIds, HasMarket(m), NEW t \in Tickets
    PROVE  CostMirrors(m, t)
<1> SUFFICES ASSUME TicketEnabled(m, t)
             PROVE  Cost(m, t) <= balance[wallet] + TOL
  BY DEF CostMirrors
<1> DEFINE f == markets[m].taker_fee_bps
           avail == balance[wallet] + TOL
<1>1. f \in Nat /\ f < 1000 /\ BPS_DENOM \in Nat \ {0} /\ f < 2 * BPS_DENOM
  BY ListedMarket, ScaleAssumption
<1>2. avail \in Nat /\ Mine.balance + TOL = avail
  BY FreshFacts, WebAssumption
<1>3. t.margin \in Nat /\ TwiceNotional(t) \in Nat /\ Notional(t) = (TwiceNotional(t) + 1) \div 2
  BY TicketFields
<1>4. ~(TotalCost(m, t) > 2 * BPS_DENOM * (Mine.balance + TOL))
  <2>1. TicketReason(m, t) = "none"
    BY DEF TicketEnabled
  <2>2. QED
    BY <2>1 DEF TicketReason
<1>5. 2 * BPS_DENOM * t.margin + TwiceNotional(t) * f <= 2 * BPS_DENOM * avail
  <2>1. TotalCost(m, t) = 2 * BPS_DENOM * t.margin + TwiceNotional(t) * f
    BY DEF TotalCost
  <2>2. TotalCost(m, t) \in Int /\ 2 * BPS_DENOM * avail \in Int
    BY <1>1, <1>2, <1>3, <2>1
  <2>3. QED
    BY <1>2, <1>4, <2>1, <2>2
<1>6. Fee(m, Notional(t)) = (((TwiceNotional(t) + 1) \div 2) * f) \div BPS_DENOM
  BY <1>3, FeeQuotient, TicketFields
<1>7. HIDE DEF f, avail
<1>8. t.margin + (((TwiceNotional(t) + 1) \div 2) * f) \div BPS_DENOM <= avail
  BY <1>1, <1>2, <1>3, <1>5, FeeFits
<1>9. QED
  BY <1>6, <1>8 DEF Cost, avail

\* So does what MAX fills in.
LEMMA MaxShown ==
    ASSUME BPS_DENOM >= 500, WebInv, Fresh, NEW m \in MarketIds, HasMarket(m), NEW l \in Leverages
    PROVE  MaxMirrors(m, l)
<1> DEFINE f == markets[m].taker_fee_bps
           avail == balance[wallet]
           d == 2 * BPS_DENOM + l * f
           most == (2 * BPS_DENOM * avail) \div d
           margin == (most \div CENT) * CENT
<1>1. f \in Nat /\ f < 1000 /\ BPS_DENOM \in Nat \ {0} /\ f < 2 * BPS_DENOM
  BY ListedMarket, ScaleAssumption
<1>2. avail \in Nat /\ Mine.balance = avail /\ l \in Nat /\ CENT \in Nat \ {0}
  BY FreshFacts, WebAssumption
<1>3. d \in Nat \ {0} /\ 2 * BPS_DENOM * avail \in Nat
  BY <1>1, <1>2
<1>4. MaxMargin(m, l) = margin
  BY <1>2 DEF MaxMargin
<1>5. most \in Nat /\ d * most <= 2 * BPS_DENOM * avail
  <2>1. HIDE DEF d
  <2>2. QED
    BY <1>3, QuotientBounds
<1>6. margin \in Nat /\ margin <= most
  <2>1. HIDE DEF most
  <2>2. most \div CENT \in Nat /\ CENT * (most \div CENT) <= most
    BY <1>2, <1>5, QuotientBounds
  <2>3. CENT * (most \div CENT) = (most \div CENT) * CENT /\ (most \div CENT) * CENT \in Nat
    BY <1>2, <2>2
  <2>4. QED
    BY <2>2, <2>3
<1>7. d * margin <= d * most
  <2>1. HIDE DEF d, margin, most
  <2>2. QED
    BY <1>3, <1>5, <1>6, ProductMonotone
<1>8. margin * l \in Nat
  BY <1>2, <1>6
<1>9. 2 * BPS_DENOM * margin + (margin * l) * f <= 2 * BPS_DENOM * avail
  <2>1. d * margin = 2 * BPS_DENOM * margin + (margin * l) * f
    <3>1. HIDE DEF margin, f
    <3>2. QED
      BY <1>1, <1>2, <1>6
  <2>2. d * margin \in Int /\ d * most \in Int
    BY <1>3, <1>5, <1>6
  <2>3. HIDE DEF d, most, margin
  <2>4. QED
    BY <1>3, <1>5, <1>7, <2>1, <2>2
<1>10. Fee(m, (margin * l + 1) \div 2) = (((margin * l + 1) \div 2) * f) \div BPS_DENOM
  <2>1. HIDE DEF margin
  <2>2. (margin * l + 1) \div 2 \in Nat
    BY <1>8
  <2>3. QED
    BY <2>2, FeeQuotient
<1>11. HIDE DEF f, avail, d, most, margin
<1>12. margin + (((margin * l + 1) \div 2) * f) \div BPS_DENOM <= avail
  BY <1>1, <1>2, <1>6, <1>8, <1>9, FeeFits
<1>13. QED
  BY <1>4, <1>10, <1>12 DEF MaxMirrors, avail

\* The market header's funding rate.
LEMMA FundingIsShown ==
    ASSUME WebInv, NEW m \in MarketIds, HasMarket(m)
    PROVE  FundingMirrors(m)
<1> DEFINE total == oi[m][Long] + oi[m][Short]
           x == (oi[m][Long] - oi[m][Short]) * markets[m].max_funding_rate_bps
<1>1. oi[m][Long] \in Nat /\ oi[m][Short] \in Nat /\ markets[m].max_funding_rate_bps \in Nat
  BY ListedMarket DEF Sides
<1>2. x \in Int /\ total \in Nat
  BY <1>1
<1>3. FundingShown(m) = x /\ MarketOi(m).long + MarketOi(m).short = total
  BY DEF FundingShown, MarketOi
<1>4. total # 0 => FundingRate(m) = TDiv(x, total)
  BY DEF FundingRate, MulDiv
<1>5. HIDE DEF x, total
<1>6. total # 0 => AbsDiff(x, TDiv(x, total) * total) < total
  BY <1>2, TDivClose
<1>7. QED
  BY <1>3, <1>4, <1>6 DEF FundingMirrors

\* The withdrawal: the share price and the cash are both rounded down.
LEMMA WithdrawalShown ==
    ASSUME WebInv, Fresh, NEW a \in AmountInputs
    PROVE  WithdrawMirrors(a)
<1> SUFFICES ASSUME WithdrawShares(a) > 0
             PROVE  CashFor(WithdrawShares(a)) * view.sharePrice <= a * (view.sharePrice + 1)
  BY DEF WithdrawMirrors
<1> DEFINE n == WithdrawShares(a)
           s == view.sharePrice
<1>1. a \in Nat /\ SCALE \in Nat \ {0} /\ pools.lp_cash \in Nat /\ totalShares \in Nat
  BY WebAssumption, ChainTypes DEF WebInv
<1>2. s = SharePrice /\ s \in Nat /\ Mine.shares = shares[wallet] /\ shares[wallet] \in Nat
      /\ wallet \in Users
  BY FreshFacts
<1>3. s # 0
  BY DEF WithdrawShares
<1>4. (a * SCALE) \div s \in Nat /\ s * ((a * SCALE) \div s) <= a * SCALE
  <2>1. a * SCALE \in Nat
    BY <1>1
  <2>2. QED
    BY <1>2, <1>3, <2>1, QuotientBounds
<1>5. n \in Nat /\ n <= (a * SCALE) \div s /\ n <= shares[wallet]
  BY <1>2, <1>3, <1>4 DEF WithdrawShares, MinOf
<1>6. totalShares # 0
  <2>1. shares[wallet] <= totalShares
    <3>1. shares \in [Users -> Nat] /\ totalShares = Total(shares)
      BY DEF WebInv, EngineInv, VaultInv, VaultTypeOK, SharesMatch
    <3>2. QED
      BY <1>2, <3>1, ShareBound
  <2>2. n > 0
    OBVIOUS
  <2>3. HIDE DEF n
  <2>4. QED
    BY <1>1, <1>2, <1>5, <2>1, <2>2
<1>7. s = (pools.lp_cash * SCALE) \div totalShares
  BY <1>2, <1>6 DEF SharePrice
<1>8. CashFor(n) = (n * pools.lp_cash) \div totalShares
  BY DEF CashFor
<1>9. HIDE DEF n, s
<1>10. n * s <= a * SCALE
  <2> DEFINE q == (a * SCALE) \div s
  <2>1. q \in Nat /\ s * q <= a * SCALE /\ n <= q
    BY <1>4, <1>5
  <2>2. HIDE DEF q
  <2>3. n * s <= q * s
    BY <1>2, <1>5, <2>1, ProductMonotone
  <2>4. q * s = s * q /\ n * s \in Int /\ s * q \in Int /\ a * SCALE \in Int
    BY <1>1, <1>2, <1>5, <2>1
  <2>5. QED
    BY <2>1, <2>3, <2>4
<1>11. ((n * pools.lp_cash) \div totalShares) * s <= a * (s + 1)
  BY <1>1, <1>2, <1>5, <1>6, <1>7, <1>10, WithdrawNumbers
<1>12. QED
  BY <1>8, <1>11 DEF n, s

\* A profit at one price against the rounded profit at another.
LEMMA RowNumbers ==
    ASSUME NEW n \in Nat, NEW e \in Nat \ {0}, NEW l \in Int, NEW p \in Int,
           NEW sign \in {1, -1}, NEW pnl \in Int,
           AbsDiff(n * (p - e) * sign, pnl * e) < e
    PROVE  AbsDiff(n * (l - e) * sign, pnl * e) < e + n * AbsDiff(l, p)
<1> DEFINE k == n * (l - p)
           x == n * (p - e)
           y == pnl * e
<1>1. k \in Int /\ x \in Int /\ y \in Int
  OBVIOUS
<1>2. n * (l - e) = x + k
  OBVIOUS
<1>3. n * AbsDiff(l, p) \in Nat
      /\ k <= n * AbsDiff(l, p) /\ -k <= n * AbsDiff(l, p)
  <2>1. CASE l >= p
    <3>1. AbsDiff(l, p) = l - p /\ l - p \in Nat
      BY <2>1 DEF AbsDiff
    <3>2. n * (l - p) \in Nat
      BY <3>1
    <3>3. QED
      BY <3>1, <3>2
  <2>2. CASE l < p
    <3>1. AbsDiff(l, p) = p - l /\ p - l \in Nat
      BY <2>2 DEF AbsDiff
    <3>2. n * (p - l) \in Nat /\ n * (p - l) = -(n * (l - p))
      BY <3>1
    <3>3. QED
      BY <3>1, <3>2
  <2>3. QED
    BY <2>1, <2>2
<1>4. AbsDiff(x * sign, y) < e
  OBVIOUS
<1> DEFINE off == n * AbsDiff(l, p)
<1>5. off \in Nat /\ k <= off /\ -k <= off
  BY <1>3
<1>6. HIDE DEF k, x, y, off
<1>7. AbsDiff((x + k) * sign, y) < e + off
  <2>1. CASE sign = 1
    BY <1>1, <1>4, <1>5, <2>1 DEF AbsDiff
  <2>2. CASE sign = -1
    <3>1. (x + k) * sign = -x - k /\ x * sign = -x
      BY <1>1, <2>2
    <3>2. QED
      BY <1>1, <1>4, <1>5, <3>1 DEF AbsDiff
  <2>3. QED
    BY <2>1, <2>2
<1>8. QED
  BY <1>2, <1>7 DEF off, y

\* The price a row is valued at is a number.
LEMMA LiveMarkType ==
    ASSUME ViewOK, NEW p \in PositionViews, Feed(p.market) \in Feeds
    PROVE  LiveMark(p) \in Int
<1>1. view.live[Feed(p.market)] \in ShownPrices
  BY DEF ViewOK, Views
<1>2. ShownPrices \ {NoPrice} \subseteq Int
  <2>1. ASSUME NEW q \in Prices \ {0}
        PROVE  LiveBand(q) \subseteq Int
    BY BandHolds, EngineAssumption
  <2>2. QED
    BY <2>1 DEF ShownPrices
<1>3. p.mark \in Int
  BY DEF PositionViews
<1>4. QED
  BY <1>1, <1>2, <1>3 DEF LiveMark

\* A row of the positions table and its part of the equity.
LEMMA RowShown ==
    ASSUME WebInv, NEW id \in PositionIds, Open(id), Valued(positions[id])
    PROVE  RowMirrors(PositionView(id))
<1> DEFINE q == positions[id]
           row == PositionView(id)
           sign == IF q.side = Long THEN 1 ELSE -1
           pnl == Pnl(q, q.notional)
           owed == FundingOwed(q)
           mark == Mark(q.market)
           live == LiveMark(row)
<1>1. q \in Position /\ MarketBook /\ ViewOK
  BY ChainTypes DEF WebInv, EngineInv
<1>2. /\ q.notional \in Nat /\ q.margin \in Nat /\ q.entry_price \in Nat \ {0}
      /\ q.side \in Sides /\ q.market \in MarketIds
  BY <1>1 DEF Position, Valued
<1>3. owed \in Int /\ mark \in Nat
  BY <1>1, <1>2, FundingTypes, ConfigTypes DEF Valued, Priced
<1>4. /\ row.id = id /\ row.market = q.market /\ row.side = q.side /\ row.margin = q.margin
      /\ row.notional = q.notional /\ row.entry_price = q.entry_price /\ row.funding = owed
      /\ row \in PositionViews
  BY <1>2, <1>3 DEF PositionView, PositionViews
<1>5. live \in Int
  <2>1. Feed(q.market) \in Feeds
    <3>1. markets[q.market] \in MarketConfig
      BY <1>1, <1>2, ConfigTypes DEF Valued, Priced
    <3>2. QED
      BY <3>1 DEF Feed, MarketConfig
  <2>2. QED
    BY <1>1, <1>4, <2>1, LiveMarkType
<1>6. sign \in {1, -1} /\ (IF row.side = Long THEN 1 ELSE -1) = sign
  BY <1>4
<1>7. pnl \in Int /\ AbsDiff(q.notional * (mark - q.entry_price) * sign, pnl * q.entry_price)
                        < q.entry_price
  <2> DEFINE x == q.notional * (IF q.side = Long THEN mark - q.entry_price
                                ELSE q.entry_price - mark)
  <2>1. x \in Int /\ x = q.notional * (mark - q.entry_price) * sign
    <3>1. CASE q.side = Long
      BY <1>2, <1>3, <3>1
    <3>2. CASE q.side # Long
      BY <1>2, <1>3, <3>2
    <3>3. QED
      BY <3>1, <3>2
  <2>2. pnl = TDiv(x, q.entry_price)
    BY DEF Pnl, PositionPnl, MulDiv
  <2>3. HIDE DEF x, q
  <2>4. QED
    BY <1>2, <2>1, <2>2, TDivType, TDivClose
<1> DEFINE off == q.notional * AbsDiff(live, mark)
           shown == q.notional * (live - q.entry_price) * sign
<1>8. RowPnl(row) = shown
  BY <1>2, <1>4, <1>6 DEF RowPnl
<1>9. AbsDiff(shown, pnl * q.entry_price) < q.entry_price + off
  <2> DEFINE n == q.notional
             d == q.entry_price
  <2>1. /\ n \in Nat /\ d \in Nat \ {0} /\ live \in Int /\ mark \in Int /\ sign \in {1, -1}
        /\ pnl \in Int /\ AbsDiff(n * (mark - d) * sign, pnl * d) < d
    BY <1>2, <1>3, <1>5, <1>6, <1>7
  <2>2. HIDE DEF n, d, sign, pnl, mark, live
  <2>3. AbsDiff(n * (live - d) * sign, pnl * d) < d + n * AbsDiff(live, mark)
    BY <2>1, RowNumbers
  <2>4. QED
    BY <2>3 DEF n, d
<1>10. /\ RowNet(row) = shown - owed * q.entry_price
       /\ RowEquity(row) = q.margin * q.entry_price + (shown - owed * q.entry_price)
       /\ Equity(q) = q.margin + pnl - owed
  BY <1>4, <1>8 DEF RowNet, RowEquity, Equity
<1> DEFINE e == q.entry_price
           profit == pnl * e
           funding == owed * e
           base == q.margin * e
<1>11. /\ (q.margin + pnl - owed - q.margin) * e = profit - funding
       /\ (q.margin + pnl - owed) * e = base + profit - funding
       /\ shown \in Int /\ profit \in Int /\ funding \in Int /\ base \in Int
  <2>1. e \in Int /\ q.margin \in Int /\ q.notional \in Int
    BY <1>2
  <2>2. shown \in Int
    BY <1>5, <1>6, <2>1
  <2>3. HIDE DEF e, q, pnl, owed
  <2>4. QED
    BY <1>3, <1>7, <2>1, <2>2
<1>12. /\ AbsDiff(RowNet(row), (Equity(q) - q.margin) * e) < e + off
       /\ AbsDiff(RowEquity(row), Equity(q) * e) < e + off
  <2>1. AbsDiff(shown, profit) < e + off
    BY <1>9
  <2>2. RowNet(row) = shown - funding /\ (Equity(q) - q.margin) * e = profit - funding
    <3>1. Equity(q) = q.margin + pnl - owed
      BY <1>10
    <3>2. RowNet(row) = shown - funding
      BY <1>10
    <3>3. q.margin \in Int /\ pnl \in Int /\ owed \in Int
      BY <1>2, <1>3, <1>7
    <3>4. HIDE DEF q, row, pnl, owed, e, profit, funding, base, shown
    <3>5. Equity(q) - q.margin = q.margin + pnl - owed - q.margin
      BY <3>1, <3>3
    <3>6. QED
      BY <1>11, <3>2, <3>5
  <2>3. /\ RowEquity(row) = base + (shown - funding)
        /\ Equity(q) * e = base + profit - funding
    <3>1. Equity(q) = q.margin + pnl - owed
      BY <1>10
    <3>2. Equity(q) * e = (q.margin + pnl - owed) * e
      BY <3>1
    <3>3. RowEquity(row) = base + (shown - funding)
      BY <1>10
    <3>4. HIDE DEF q, row, pnl, owed, e, profit, funding, base, shown
    <3>5. QED
      BY <1>11, <3>2, <3>3
  <2>4. /\ AbsDiff(shown - funding, profit - funding) = AbsDiff(shown, profit)
        /\ AbsDiff(base + (shown - funding), base + profit - funding) = AbsDiff(shown, profit)
    <3>1. HIDE DEF shown, profit, funding, base
    <3>2. QED
      BY <1>11 DEF AbsDiff
  <2>5. HIDE DEF q, row, shown, profit, funding, base, off
  <2>6. QED
    BY <2>1, <2>2, <2>3, <2>4
<1>13. QED
  BY <1>4, <1>12 DEF RowMirrors

\* The previewed liquidation price, and the engine's.
LEMMA PreviewShown ==
    ASSUME WebInv, NEW m \in MarketIds, HasMarket(m), NEW t \in Tickets
    PROVE  PreviewMirrors(m, t)
<1> DEFINE n == Notional(t)
           p == Mark(m)
           c == t.margin
           l == t.leverage
           r == markets[m].mmr_bps
           M == (n * r) \div BPS_DENOM
           delta == TDiv(p * (M - c), n)
           away == BPS_DENOM * 2 - r * l
           base == BPS_DENOM * l
<1> SUFFICES ASSUME n > 0, Priced(m)
             PROVE  AbsDiff(PreviewLiquidation(m, t, p),
                            MaxOf(IF t.side = Long THEN p + delta ELSE p - delta, 0) * base) * n
                      <= base * (p + n)
  <2>1. ApplyBps(n, r) = M
    <3>1. n \in Nat /\ r \in Nat /\ BPS_DENOM \in Nat \ {0}
      BY TicketFields, ListedMarket, ScaleAssumption
    <3>2. HIDE DEF n, r
    <3>3. MulDiv(n, r, BPS_DENOM) = (n * r) \div BPS_DENOM
      BY <3>1, MulDivType
    <3>4. QED
      BY <3>3 DEF ApplyBps
  <2>2. delta = TDiv(p * (ApplyBps(n, r) - c), n)
    BY <2>1
  <2>3. HIDE DEF M
  <2>4. QED
    BY <2>2 DEF PreviewMirrors
<1>1. /\ n \in Nat \ {0} /\ c \in Nat /\ l \in Nat \ {0} /\ t.side \in Sides
      /\ n = (c * l + 1) \div 2
  BY TicketFields
<1>2. r \in Nat /\ p \in Nat /\ BPS_DENOM \in Nat \ {0}
  BY ListedMarket, ScaleAssumption DEF Priced
<1>3. /\ t.side = Long => PreviewLiquidation(m, t, p) = MaxOf(p * (base - away), 0)
      /\ t.side # Long => PreviewLiquidation(m, t, p) = MaxOf(p * (base + away), 0)
  BY DEF PreviewLiquidation
<1>4. M = (n * r) \div BPS_DENOM /\ delta = TDiv(p * (M - c), n)
      /\ away = BPS_DENOM * 2 - r * l /\ base = BPS_DENOM * l
  OBVIOUS
<1>5. HIDE DEF n, p, c, l, r, M, delta
<1>6. /\ AbsDiff(MaxOf(p * (base - away), 0), MaxOf(p + delta, 0) * base) * n <= base * (p + n)
      /\ AbsDiff(MaxOf(p * (base + away), 0), MaxOf(p - delta, 0) * base) * n <= base * (p + n)
  BY <1>1, <1>2, <1>4, PreviewNumbers
<1>7. HIDE DEF away, base
<1>8. CASE t.side = Long
  BY <1>3, <1>6, <1>8
<1>9. CASE t.side # Long
  BY <1>3, <1>6, <1>9
<1>10. QED
  BY <1>8, <1>9

\* All of them together.
LEMMA ShownIsTrue ==
    ASSUME BPS_DENOM >= 500, WebInv
    PROVE  FormsShowTruth
<1> SUFFICES ASSUME Fresh
             PROVE  /\ \A m \in MarketIds : HasMarket(m) =>
                         /\ \A t \in Tickets :
                               CostMirrors(m, t) /\ (InReachOf(m, t) => PreviewMirrors(m, t))
                         /\ \A l \in Leverages : MaxMirrors(m, l)
                         /\ FundingMirrors(m)
                    /\ \A a \in AmountInputs : WithdrawMirrors(a)
  BY DEF FormsShowTruth
<1>1. ASSUME NEW m \in MarketIds, HasMarket(m)
      PROVE  /\ \A t \in Tickets :
                   CostMirrors(m, t) /\ (InReachOf(m, t) => PreviewMirrors(m, t))
             /\ \A l \in Leverages : MaxMirrors(m, l)
             /\ FundingMirrors(m)
  BY <1>1, CostShown, PreviewShown, MaxShown, FundingIsShown
<1>2. QED
  BY <1>1, WithdrawalShown

\* In every state that trades, keepers and LPs can reach, an app whose queries are
\* up to date shows the cost, the most that can be afforded, the liquidation
\* price, the funding rate and the withdrawal that the contracts compute, up to the rounding stated with each.  A fee that validate
\* lets through must be less than twice the size, or half a unit of rounding could
\* cost more than one of fee: the code's denominator is 10 000, 500 would do.
THEOREM FormsShowChain ==
    ASSUME BPS_DENOM >= 500
    PROVE  WebSpec => []FormsShowTruth
<1>1. WebInv => FormsShowTruth
  BY ShownIsTrue
<1>2. QED
  BY <1>1, WebInvariant, PTL

\* The price of the pages is one of the chain's, within the ticker's band.
LEMMA LiveIsNear ==
    ASSUME ViewOK
    PROVE  LiveNearChain
BY DEF ViewOK, Views, ShownPrices, LiveNearChain

\* An answer that is up to date holds the account's open positions.
LEMMA RowsShown ==
    ASSUME WebInv
    PROVE  RowsTrackChain
<1>1. LiveNearChain
  BY LiveIsNear DEF WebInv
<1>2. ASSUME wallet # NoUser, AllViewed(wallet), Mine.positions = PositionsAnswer(wallet),
             NEW p \in Mine.positions
      PROVE  RowMirrors(p)
  <2>1. wallet \in Users
    BY <1>2 DEF WebInv, TxInv, BoundsOK
  <2>2. PICK id \in userPositions[wallet] : p = PositionView(id)
    BY <1>2 DEF PositionsAnswer, ReadContract
  <2>3. userPositions[wallet] \subseteq PositionIds
    BY <2>1, ChainTypes DEF WebInv
  <2>4. id \in PositionIds /\ Open(id) /\ Valued(positions[id])
    BY <1>2, <2>1, <2>2, <2>3 DEF WebInv, EngineInv, PositionBook, PositionIndex, AllViewed
  <2>5. QED
    BY <2>2, <2>4, RowShown
<1>3. QED
  BY <1>1, <1>2 DEF RowsTrackChain

\* The price the table and the portfolio use never leaves the ticker's band around
\* a price of the chain, whatever reads fail; and of an up-to-date list of
\* positions the rows show the net profit and the equity that position_view has,
\* but for one division and the distance of that price from the mark.
THEOREM RowsFollowChain == WebSpec => []RowsTrackChain
<1>1. WebInv => RowsTrackChain
  BY RowsShown
<1>2. QED
  BY <1>1, WebInvariant, PTL

-----------------------------------------------------------------------------
(* What the engine takes.  The engine stays wired into the vault.          *)

LEMMA ExecuteWired ==
    ASSUME NEW c, GoodCall(c), Execute(c)
    PROVE  engineSet' = engineSet
<1>1. CASE c.method = "faucet"
  BY <1>1 DEF Execute, vaultVars
<1>2. CASE c.method = "open_position"
  BY <1>2 DEF Execute, OpenPosition, LockMargin
<1>3. CASE c.method = "place_order"
  BY <1>3 DEF Execute, PlaceOrder, LockMargin
<1>4. CASE c.method = "close_position"
  BY <1>4 DEF Execute, ClosePosition, CloseInternal, Settle
<1>5. CASE c.method = "cancel_order"
  BY <1>5 DEF Execute, CancelOrder, Settle, vaultVars
<1>6. CASE c.method = "add_margin"
  BY <1>6 DEF Execute, AddPositionMargin, AddMargin
<1>7. CASE c.method = "remove_margin"
  BY <1>7 DEF Execute, RemovePositionMargin, Settle
<1>8. CASE c.method = "add_liquidity"
  BY <1>8 DEF Execute, InVault, AddLiquidity
<1>9. CASE c.method = "remove_liquidity"
  BY <1>9 DEF Execute, InVault, RemoveLiquidity
<1>10. QED
  BY <1>1, <1>2, <1>3, <1>4, <1>5, <1>6, <1>7, <1>8, <1>9 DEF GoodCall

LEMMA KeeperWired ==
    ASSUME KeeperNext
    PROVE  engineSet' = engineSet
<1>1. ASSUME NEW k, NEW id, Liquidate(k, id)
      PROVE  engineSet' = engineSet
  BY <1>1 DEF Liquidate, SettleLiquidation
<1>2. ASSUME NEW k, NEW m, UpdateFunding(k, m)
      PROVE  engineSet' = engineSet
  BY <1>2 DEF UpdateFunding, vaultVars
<1>3. ASSUME NEW k, NEW id, FillEntry(k, id)
      PROVE  engineSet' = engineSet
  BY <1>3 DEF FillEntry, vaultVars
<1>4. ASSUME NEW k, NEW id, FillStop(k, id)
      PROVE  engineSet' = engineSet
  BY <1>4 DEF FillStop, CloseInternal, Settle
<1>5. QED
  BY <1>1, <1>2, <1>3, <1>4 DEF KeeperNext

\* set_engine has run before the app is deployed, and nothing unwires the engine.
LEMMA WiredStep ==
    ASSUME WebInv, [WebNext]_webVars
    PROVE  engineSet' = engineSet
<1>1. CASE UNCHANGED chainVars
  BY <1>1 DEF chainVars, vars, vaultVars
<1>2. ASSUME NEW u \in Users, Include(u)
      PROVE  engineSet' = engineSet
  <2>1. UNCHANGED chainVars \/ Execute(writes[queue[u]].call)
    BY <1>2 DEF Include
  <2>2. queue[u] \in Started
    BY <1>2 DEF Include, WebInv, TxInv, NetworkFits, Held, Started
  <2>3. GoodCall(writes[queue[u]].call)
    BY <2>2 DEF WebInv, CallsOK
  <2>4. QED
    BY <1>1, <2>1, <2>3, ExecuteWired
<1>3. CASE Others
  <2>1. CASE KeeperNext
    BY <2>1, KeeperWired
  <2>2. CASE PriceMove
    BY <2>2 DEF PriceMove, vaultVars
  <2>3. CASE UNCHANGED <<tokenVars, vaultVars, engineVars, price>>
    BY <2>3 DEF vaultVars
  <2>4. CASE \E u \in Users, a \in Amounts : InVault(AddLiquidity(u, a))
    BY <2>4 DEF InVault, AddLiquidity
  <2>5. QED
    BY <1>3, <2>1, <2>2, <2>3, <2>4 DEF Others
<1>4. CASE Submit \/ Retry
  <2>1. PICK call, retried : Start(call, retried)
    BY <1>4 DEF Submit, Retry
  <2>2. QED
    BY <1>1, <2>1 DEF Start
<1>5. CASE Clear \/ Connect \/ Disconnect \/ Reload \/ Queries \/ Friendbot \/ UNCHANGED webVars
  BY <1>1, <1>5 DEF Clear, Connect, Disconnect, Reload, Queries, Refetch, Tick, Friendbot, webVars
<1>6. CASE \E i \in Ids : GetAccount(i) \/ Simulate(i) \/ Reject(i) \/ Send(i) \/ Poll(i)
  BY <1>1, <1>6 DEF GetAccount, Simulate, Reject, Send, Poll
<1>7. CASE \E u \in Users : Expire(u)
  BY <1>1, <1>7 DEF Expire
<1>8. QED
  BY <1>2, <1>3, <1>4, <1>5, <1>6, <1>7 DEF WebNext

LEMMA StaysWired == WebSpec => []engineSet
<1>1. WebInit => engineSet
  BY DEF WebInit, Init
<1>2. WebInv /\ engineSet /\ [WebNext]_webVars => engineSet'
  BY WiredStep
<1>3. QED
  BY <1>1, <1>2, WebInvariant, PTL DEF WebSpec

-----------------------------------------------------------------------------
(* The ticket, and the engine's own checks.                                *)

\* What the engine checks of a ticket.
LEMMA TicketTakes ==
    ASSUME NEW u, NEW m, NEW t \in Tickets
    PROVE  /\ t.type = "Limit" =>
                (EngineTakes(TicketCall(u, m, t)) <=>
                    /\ CanPlace(m, t.side, t.margin, Notional(t), t.trigger)
                    /\ CanLockMargin(u, t.margin, Fee(m, Notional(t))))
           /\ t.type # "Limit" =>
                (EngineTakes(TicketCall(u, m, t)) <=>
                    /\ CanOpen(m, t.side, t.margin, Notional(t), Price(m), Slippage)
                    /\ CanLockMargin(u, t.margin, Fee(m, Notional(t))))
<1>1. ASSUME t.type = "Limit"
      PROVE  EngineTakes(TicketCall(u, m, t)) <=>
                /\ CanPlace(m, t.side, t.margin, Notional(t), t.trigger)
                /\ CanLockMargin(u, t.margin, Fee(m, Notional(t)))
  <2> DEFINE c == TicketCall(u, m, t)
  <2>1. /\ c.method = "place_order" /\ c.trader = u /\ c.market = m /\ c.side = t.side
        /\ c.margin = t.margin /\ c.notional = Notional(t) /\ c.trigger = t.trigger
    BY <1>1 DEF TicketCall, PlaceCall
  <2>2. HIDE DEF c
  <2>3. EngineTakes(c) <=>
            /\ CanPlace(c.market, c.side, c.margin, c.notional, c.trigger)
            /\ CanLockMargin(c.trader, c.margin, Fee(c.market, c.notional))
    BY <2>1 DEF EngineTakes
  <2>4. QED
    BY <2>1, <2>3 DEF c
<1>2. ASSUME t.type # "Limit"
      PROVE  EngineTakes(TicketCall(u, m, t)) <=>
                /\ CanOpen(m, t.side, t.margin, Notional(t), Price(m), Slippage)
                /\ CanLockMargin(u, t.margin, Fee(m, Notional(t)))
  <2> DEFINE c == TicketCall(u, m, t)
  <2>1. /\ c.method = "open_position" /\ c.trader = u /\ c.market = m /\ c.side = t.side
        /\ c.margin = t.margin /\ c.notional = Notional(t) /\ c.ref = Price(m)
    BY <1>2 DEF TicketCall, OpenCall
  <2>2. HIDE DEF c
  <2>3. EngineTakes(c) <=>
            /\ CanOpen(c.market, c.side, c.margin, c.notional, c.ref, Slippage)
            /\ CanLockMargin(c.trader, c.margin, Fee(c.market, c.notional))
    BY <2>1 DEF EngineTakes
  <2>4. QED
    BY <2>1, <2>3 DEF c
<1>3. QED
  BY <1>1, <1>2

\* The checks of the ticket itself.
LEMMA TicketChecks ==
    ASSUME NEW m, NEW t
    PROVE  TicketReason(m, t) = "none" <=>
              /\ ~(t.margin = 0)
              /\ ~(t.type = "Limit" /\ t.trigger = 0)
              /\ ~(TwiceNotional(t) < 2 * markets[m].min_position_size)
              /\ ~(TotalCost(m, t) > 2 * BPS_DENOM * (Mine.balance + TOL))
BY DEF TicketReason

\* A market order quotes the price it was shown: no slippage against itself.
LEMMA QuotedPrice ==
    ASSUME WebInv, Fresh, NEW m \in MarketIds, Priced(m)
    PROVE  Price(m) = Mark(m) /\ SlippageOk(Mark(m), Price(m), Slippage)
<1>1. HasMarket(m) /\ price[Feed(m)] # NoPrice /\ Mark(m) = price[Feed(m)]
  BY DEF Priced, Mark
<1>2. Mark(m) \in Nat /\ Feed(m) \in Feeds
  BY <1>1, ListedMarket DEF MarketConfig, Feed
<1>3. Price(m) = Mark(m)
  BY <1>1, <1>2 DEF Fresh, Price, PriceAnswer, ReadContract
<1>4. AbsDiff(Mark(m), Mark(m)) = 0
  BY <1>2 DEF AbsDiff
<1>5. BPS_DENOM \in Nat /\ Slippage \in Nat
  BY ScaleAssumption, WebAssumption
<1>6. ASSUME Mark(m) > 0
      PROVE  (0 * BPS_DENOM) \div Mark(m) <= Slippage
  BY <1>2, <1>5, <1>6
<1>7. QED
  BY <1>3, <1>4, <1>6 DEF SlippageOk

\* The slider's range is the engine's leverage cap, also after rounding.
LEMMA SliderFits ==
    ASSUME NEW margin \in Nat \ {0}, NEW leverage \in Nat \ {0, 1}, NEW most \in Nat,
           leverage <= 2 * most
    PROVE  /\ (margin * leverage + 1) \div 2 > 0
           /\ (margin * leverage + 1) \div 2 <= margin * most
<1>1. leverage * margin <= (2 * most) * margin
  BY ProductMonotone
<1>2. leverage * margin = margin * leverage /\ (2 * most) * margin = 2 * (margin * most)
  OBVIOUS
<1>3. 1 * leverage <= margin * leverage
  BY ProductMonotone
<1> DEFINE x == margin * leverage
           y == margin * most
<1>4. x \in Nat /\ y \in Nat /\ x <= 2 * y /\ 2 <= x
  BY <1>1, <1>2, <1>3
<1>5. HIDE DEF x, y
<1>6. (x + 1) \div 2 > 0 /\ (x + 1) \div 2 <= y
  BY <1>4
<1>7. QED
  BY <1>6 DEF x, y

\* The fee is charged on top of the margin, and never negative.
LEMMA LockIsCost ==
    ASSUME WebInv, engineSet, NEW u \in Users, NEW m \in MarketIds, HasMarket(m),
           NEW t \in Tickets
    PROVE  /\ Fee(m, Notional(t)) \in Nat
           /\ CanLockMargin(u, t.margin, Fee(m, Notional(t))) <=>
                t.margin > 0 /\ Cost(m, t) <= balance[u]
<1>1. t.margin \in Nat /\ Notional(t) \in Nat
  BY TicketFields
<1>2. Fee(m, Notional(t)) \in Nat
  <2>1. markets[m].taker_fee_bps \in Nat /\ BPS_DENOM \in Nat \ {0}
    BY ListedMarket, ScaleAssumption
  <2>2. Notional(t) * markets[m].taker_fee_bps \in Nat
    BY <1>1, <2>1
  <2>3. (Notional(t) * markets[m].taker_fee_bps) \div BPS_DENOM \in Nat
    BY <2>1, <2>2, QuotientBounds
  <2>4. QED
    BY <1>1, <2>3, FeeQuotient
<1>3. balance[u] \in Nat
  BY ChainTypes DEF WebInv, Accounts
<1>4. QED
  BY <1>1, <1>2, <1>3 DEF CanLockMargin, CanLock, CanTransfer, Cost

\* An enabled ticket is taken, ...
LEMMA TicketOffered ==
    ASSUME WebInv, engineSet, Fresh, NEW m \in MarketIds, HasMarket(m), NEW t \in Tickets,
           InReachOf(m, t), TicketEnabled(m, t), ~LeftToEngine(m, t),
           Cost(m, t) <= balance[wallet]
    PROVE  EngineTakes(TicketCall(wallet, m, t))
<1> DEFINE min == markets[m].min_position_size
           most == markets[m].max_leverage
           twice == TwiceNotional(t)
           n == Notional(t)
<1>1. /\ t.margin \in Nat /\ t.trigger \in Nat /\ t.leverage \in Nat \ {0, 1}
      /\ twice \in Nat /\ twice = t.margin * t.leverage
      /\ n \in Nat /\ n = (twice + 1) \div 2
  BY TicketFields
<1>2. min \in Int /\ most \in Nat
  BY ListedMarket DEF MarketConfig
<1>3. /\ t.margin # 0 /\ ~(t.type = "Limit" /\ t.trigger = 0) /\ ~(twice < 2 * min)
  BY TicketChecks DEF TicketEnabled
<1>4. t.leverage <= 2 * most
  BY DEF InReachOf
<1>5. n > 0 /\ n <= t.margin * most
  <2>1. HIDE DEF most
  <2>2. t.margin \in Nat \ {0}
    BY <1>1, <1>3
  <2>3. QED
    BY <1>1, <1>2, <1>4, <2>2, SliderFits
<1>6. n >= min
  <2>1. HIDE DEF n, twice, min
  <2>2. QED
    BY <1>1, <1>2, <1>3
<1>7. ValidateSizing(m, t.side, t.margin, n) /\ EnsureActive(m)
  BY <1>5, <1>6 DEF ValidateSizing, LeverageOk, LeftToEngine
<1>8. CanLockMargin(wallet, t.margin, Fee(m, n))
  <2>1. t.margin > 0
    BY <1>1, <1>3
  <2>2. QED
    BY <2>1, FreshFacts, LockIsCost
<1>9. CASE t.type = "Limit"
  <2>1. t.margin > 0 /\ t.trigger > 0
    BY <1>1, <1>3, <1>9
  <2>2. CanPlace(m, t.side, t.margin, n, t.trigger)
    BY <1>5, <1>7, <2>1 DEF CanPlace
  <2>3. QED
    BY <1>8, <1>9, <2>2, TicketTakes
<1>10. CASE t.type # "Limit"
  <2>1. Priced(m)
    BY <1>10 DEF LeftToEngine, Tickets
  <2>2. t.margin > 0
    BY <1>1, <1>3
  <2>3. CanOpen(m, t.side, t.margin, n, Price(m), Slippage)
    BY <1>5, <1>7, <2>1, <2>2, QuotedPrice DEF CanOpen
  <2>4. QED
    BY <1>8, <1>10, <2>3, TicketTakes
<1>11. QED
  BY <1>9, <1>10

\* A cost that fits in units fits as fractions, up to one unit: what rounding up
\* the size and rounding down the fee can hide.
LEMMA CostFits ==
    ASSUME NEW B \in Nat \ {0}, NEW f \in Nat, NEW margin \in Nat, NEW twice \in Nat,
           NEW avail \in Nat, NEW tol \in Nat \ {0},
           margin + (((twice + 1) \div 2) * f) \div B <= avail
    PROVE  2 * B * margin + twice * f <= 2 * B * (avail + tol)
<1> DEFINE n == (twice + 1) \div 2
           fee == (n * f) \div B
<1>1. n \in Nat /\ twice <= 2 * n
  OBVIOUS
<1>2. HIDE DEF n
<1>3. n * f \in Nat
  BY <1>1
<1>4. fee \in Nat /\ n * f < B * fee + B
  BY <1>3, QuotientBounds
<1>5. margin + fee <= avail
  BY DEF fee, n
<1>6. HIDE DEF fee
<1>7. twice * f <= (2 * n) * f
  BY <1>1, ProductMonotone
<1>8. (2 * n) * f = 2 * (n * f)
  BY <1>1
<1>9. B * margin \in Nat /\ B * fee \in Nat /\ B * avail \in Nat /\ B * tol \in Nat
      /\ twice * f \in Nat
  BY <1>4
<1>10. (margin + fee) * B <= avail * B
  <2>1. margin + fee \in Nat
    BY <1>4
  <2>2. QED
    BY <1>5, <2>1, ProductMonotone
<1>11. (margin + fee) * B = B * margin + B * fee /\ avail * B = B * avail
  BY <1>4
<1>12. 1 * B <= tol * B /\ tol * B = B * tol
  BY ProductMonotone
<1>13. 2 * B * margin = 2 * (B * margin) /\ 2 * B * (avail + tol) = 2 * (B * avail) + 2 * (B * tol)
  OBVIOUS
<1>14. 2 * (B * margin) + twice * f <= 2 * (B * avail) + 2 * (B * tol)
  BY <1>3, <1>4, <1>7, <1>8, <1>9, <1>10, <1>11, <1>12
<1>15. QED
  BY <1>13, <1>14

\* ... and one that is taken was enabled.
LEMMA TicketTaken ==
    ASSUME WebInv, engineSet, Fresh, NEW m \in MarketIds, HasMarket(m), NEW t \in Tickets,
           InReachOf(m, t), EngineTakes(TicketCall(wallet, m, t)),
           Notional(t) > markets[m].min_position_size
    PROVE  TicketEnabled(m, t)
<1> DEFINE f == markets[m].taker_fee_bps
           min == markets[m].min_position_size
           twice == TwiceNotional(t)
           n == Notional(t)
<1>1. /\ t.margin \in Nat /\ t.trigger \in Nat
      /\ twice \in Nat /\ n \in Nat /\ n = (twice + 1) \div 2
  BY TicketFields
<1>2. min \in Int /\ f \in Nat /\ BPS_DENOM \in Nat \ {0} /\ TOL \in Nat \ {0}
  BY ListedMarket, ScaleAssumption, WebAssumption DEF MarketConfig
<1>3. wallet \in Users /\ Mine.balance = balance[wallet] /\ balance[wallet] \in Nat
  BY FreshFacts
<1>4. CanLockMargin(wallet, t.margin, Fee(m, n)) /\ (t.type = "Limit" => t.trigger > 0)
  BY TicketTakes DEF CanPlace
<1>5. t.margin > 0 /\ t.margin + Fee(m, n) <= balance[wallet] /\ Fee(m, n) \in Nat
  BY <1>3, <1>4, LockIsCost DEF Cost
<1>6. Mine.balance > 0
  BY <1>1, <1>3, <1>5
<1>7. ~(twice < 2 * min)
  <2>1. n > min
    OBVIOUS
  <2>2. HIDE DEF twice, n, min
  <2>3. QED
    BY <1>1, <1>2, <2>1
<1>8. ~(TotalCost(m, t) > 2 * BPS_DENOM * (Mine.balance + TOL))
  <2>1. Fee(m, n) = (((twice + 1) \div 2) * f) \div BPS_DENOM
    BY <1>1, FeeQuotient
  <2>2. TotalCost(m, t) = 2 * BPS_DENOM * t.margin + twice * f
    BY DEF TotalCost
  <2>3. HIDE DEF f, twice
  <2>4. 2 * BPS_DENOM * t.margin + twice * f <= 2 * BPS_DENOM * (balance[wallet] + TOL)
    BY <1>1, <1>2, <1>3, <1>5, <2>1, CostFits
  <2>5. /\ 2 * BPS_DENOM * t.margin + twice * f \in Int
        /\ 2 * BPS_DENOM * (balance[wallet] + TOL) \in Int
    BY <1>1, <1>2, <1>3
  <2>6. QED
    BY <1>3, <2>2, <2>4, <2>5
<1>9. TicketReason(m, t) = "none"
  <2>1. ~(t.margin = 0) /\ ~(t.type = "Limit" /\ t.trigger = 0)
    BY <1>1, <1>4, <1>5
  <2>2. QED
    BY <1>7, <1>8, <2>1, TicketChecks
<1>10. QED
  BY <1>6, <1>9 DEF TicketEnabled

-----------------------------------------------------------------------------
(* The vault's form and the margin form.                                   *)

LEMMA VaultOffered ==
    ASSUME WebInv, Fresh, NEW a \in AmountInputs
    PROVE  VaultMirrors(a)
<1>1. a \in Nat /\ TOL \in Nat
  BY WebAssumption
<1>2. /\ wallet \in Users /\ Mine.balance = balance[wallet] /\ Mine.shares = shares[wallet]
      /\ balance[wallet] \in Nat /\ shares[wallet] \in Nat
  BY FreshFacts
<1>3. EngineTakes(VaultCall("add_liquidity", wallet, a)) <=> a > 0 /\ balance[wallet] >= a
  <2>1. EngineTakes(VaultCall("add_liquidity", wallet, a)) <=> CanDeposit(wallet, a)
    BY DEF EngineTakes, VaultCall
  <2>2. QED
    BY <1>1, <2>1 DEF CanDeposit, CanTransfer
<1>4. DepositEnabled(a) <=> a > 0 /\ a <= balance[wallet] + TOL
  BY <1>2 DEF DepositEnabled
<1>5. ASSUME WithdrawShares(a) > 0
      PROVE  EngineTakes(VaultCall("remove_liquidity", wallet, WithdrawShares(a)))
  <2> DEFINE n == WithdrawShares(a)
  <2>1. n \in Int /\ n <= shares[wallet]
    <3>1. view.sharePrice # 0 /\ view.sharePrice \in Nat /\ SCALE \in Nat
      BY <1>5, FreshFacts, WebAssumption DEF WithdrawShares
    <3>2. a * SCALE \in Nat
      BY <1>1, <3>1
    <3>3. (a * SCALE) \div view.sharePrice \in Nat
      BY <3>1, <3>2, QuotientBounds
    <3>4. QED
      BY <1>2, <3>1, <3>3 DEF WithdrawShares, MinOf
  <2>2. n > 0
    BY <1>5
  <2>3. EngineTakes(VaultCall("remove_liquidity", wallet, n)) <=> CanRedeem(wallet, n)
    BY DEF EngineTakes, VaultCall
  <2>4. HIDE DEF n
  <2>5. /\ totalShares \in Nat /\ pools.lp_cash \in Nat /\ pools.margin_pool \in Nat
        /\ balance[Vault] \in Nat /\ pools.lp_cash + pools.margin_pool <= balance[Vault]
    BY DEF WebInv, EngineInv, VaultInv, VaultTypeOK, TokenTypeOK, Solvent, TotalAssets, Accounts
  <2>6. shares[wallet] <= totalShares
    <3>1. shares \in [Users -> Nat] /\ totalShares = Total(shares)
      BY DEF WebInv, EngineInv, VaultInv, VaultTypeOK, SharesMatch
    <3>2. QED
      BY <1>2, <3>1, ShareBound
  <2>7. CashFor(n) \in Nat /\ CashFor(n) <= pools.lp_cash
    <3>1. totalShares \in Nat \ {0} /\ n \in Nat /\ n <= totalShares
      BY <1>2, <2>1, <2>2, <2>5, <2>6
    <3>2. n * pools.lp_cash \in Nat /\ n * pools.lp_cash <= totalShares * pools.lp_cash
      BY <2>5, <3>1, ProductMonotone
    <3> DEFINE q == (n * pools.lp_cash) \div totalShares
    <3>3. q \in Nat /\ totalShares * q <= n * pools.lp_cash
      BY <3>1, <3>2, QuotientBounds
    <3>4. HIDE DEF q
    <3>5. totalShares * (pools.lp_cash + 1) = totalShares * pools.lp_cash + totalShares
          /\ totalShares * pools.lp_cash \in Nat /\ totalShares * q \in Nat
      BY <2>5, <3>1, <3>3
    <3>6. totalShares * q < totalShares * (pools.lp_cash + 1)
      BY <3>1, <3>2, <3>3, <3>5
    <3>7. q < pools.lp_cash + 1
      BY <2>5, <3>1, <3>3, <3>6, CancelFactor
    <3>8. QED
      BY <2>5, <3>3, <3>7 DEF q, CashFor
  <2>8. CanRedeem(wallet, n)
    BY <1>2, <2>1, <2>2, <2>5, <2>7 DEF CanRedeem, CanTransfer
  <2>9. QED
    BY <2>3, <2>8 DEF n
<1>6. QED
  BY <1>1, <1>2, <1>3, <1>4, <1>5 DEF VaultMirrors

\* A position of the list has the margin the engine stores.
LEMMA MarginOffered ==
    ASSUME WebInv, Fresh, AllViewed(wallet), NEW p \in Mine.positions, NEW a \in AmountInputs,
           NEW mode \in {"add_margin", "remove_margin"},
           EngineTakes(MarginCall(mode, wallet, p.id, a))
    PROVE  ManageEnabled(p, mode, a)
<1>1. Mine.positions = {PositionView(id) : id \in userPositions[wallet]}
  BY DEF Fresh, AccountAnswer, PositionsAnswer, ReadContract
<1>2. PICK id \in userPositions[wallet] : p = PositionView(id)
  BY <1>1
<1>3. p.id = id /\ p.margin = positions[id].margin
  BY <1>2 DEF PositionView
<1> DEFINE c == MarginCall(mode, wallet, p.id, a)
<1>4. c.method = mode /\ c.trader = wallet /\ c.id = id /\ c.amount = a
  BY <1>3 DEF MarginCall
<1>5. EngineTakes(c)
  OBVIOUS
<1>6. HIDE DEF c
<1>7. CASE mode = "add_margin"
  <2>1. CanAddMargin(wallet, a)
    BY <1>4, <1>5, <1>7 DEF EngineTakes
  <2>2. QED
    BY <1>7, <2>1 DEF CanAddMargin, ManageEnabled
<1>8. CASE mode = "remove_margin"
  <2>1. CanWithdraw(wallet, id, a)
    BY <1>4, <1>5, <1>8 DEF EngineTakes
  <2>2. QED
    BY <1>3, <1>8, <2>1 DEF CanWithdraw, ManageEnabled
<1>9. QED
  BY <1>7, <1>8

LEMMA OfferedIsTaken ==
    ASSUME WebInv, engineSet
    PROVE  FormsMirrorEngine
<1> SUFFICES ASSUME Fresh
             PROVE  /\ \A m \in MarketIds, t \in Tickets :
                         HasMarket(m) /\ InReachOf(m, t) => TicketMirrors(m, t)
                    /\ \A a \in AmountInputs : VaultMirrors(a)
                    /\ AllViewed(wallet) => \A p \in Mine.positions, a \in AmountInputs :
                         \A mode \in {"add_margin", "remove_margin"} :
                             EngineTakes(MarginCall(mode, wallet, p.id, a)) =>
                                 ManageEnabled(p, mode, a)
  BY DEF FormsMirrorEngine
<1>1. ASSUME NEW m \in MarketIds, NEW t \in Tickets, HasMarket(m), InReachOf(m, t)
      PROVE  TicketMirrors(m, t)
  BY <1>1, TicketOffered, TicketTaken DEF TicketMirrors
<1>2. QED
  BY <1>1, VaultOffered, MarginOffered

\* In every state that trades, keepers and LPs can reach, an app whose queries are
\* up to date offers no ticket, deposit or withdrawal that the contracts refuse,
\* but for the checks the ticket leaves to the engine, and disables no ticket above
\* the smallest size, no deposit and, while the listed positions can be valued, no
\* margin change that they would take.
THEOREM FormsOfferWhatIsTaken == WebSpec => []FormsMirrorEngine
<1>1. WebInv /\ engineSet => FormsMirrorEngine
  BY OfferedIsTaken
<1>2. QED
  BY <1>1, WebInvariant, StaysWired, PTL

=============================================================================
