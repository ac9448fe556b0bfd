--------------------------- MODULE StoreContractProofs --------------------------
(***************************************************************************)
(* Proofs that the two stores agree, second part: the methods of findings, *)
(* the audit log and retention, then each action of the contract, the      *)
(* invariant, and the reads.                                               *)
(***************************************************************************)
EXTENDS StoreMethodsProofs

-------------------------------------------------------------------------------
(* Findings                                                                  *)

\* What the deletion of scans leaves of a finding.
LEMMA ScannedFinding ==
  ASSUME NEW r \in OrNone(FindingRow), NEW S
  PROVE  LET s == ScannedRow(r, S)
         IN /\ s \in OrNone(FindingRow) /\ (s = None <=> r = None)
            /\ r # None => /\ s.host = r.host /\ s.key = r.key /\ s.status = r.status
                           /\ s.verdict = r.verdict /\ s.count = r.count /\ s.seen = r.seen
                           /\ s.scan = IF r.scan # None /\ S[r.scan] = None THEN None ELSE r.scan
<1> DEFINE s == ScannedRow(r, S)
<1>1. CASE r # None /\ r.scan # None /\ S[r.scan] = None
  <2>1. r \in FindingRow /\ s = [r EXCEPT !.scan = None]
    BY <1>1 DEF ScannedRow, OrNone
  <2>2. /\ s \in FindingRow /\ s.host = r.host /\ s.key = r.key /\ s.status = r.status
        /\ s.verdict = r.verdict /\ s.count = r.count /\ s.seen = r.seen /\ s.scan = None
    BY <2>1 DEF FindingRow, OrNone
  <2>3. s # None
    BY <2>2, NoneIsNothing
  <2>4. QED
    BY <1>1, <2>2, <2>3 DEF OrNone
<1>2. CASE ~(r # None /\ r.scan # None /\ S[r.scan] = None)
  BY <1>2 DEF ScannedRow
<1>3. QED
  BY <1>1, <1>2

\* The rows of a finding in the two stores.
LEMMA FindingRows ==
  ASSUME NEW m, NEW p, NEW d, NEW n, Meets(m, p, d, n), NEW o \in Obs
  PROVE  LET r == m.obs[o]
             q == p.obs[o]
         IN /\ r \in OrNone(FindingRow) /\ q \in OrNone(FindingRow)
            /\ q = None <=> r = None \/ Gone(m.hosts, r.host)
            /\ q # None =>
                 /\ q.host = r.host /\ q.key = r.key /\ q.status = r.status
                 /\ q.verdict = r.verdict /\ q.count = r.count /\ q.seen = r.seen
                 /\ q.scan = IF r.scan # None /\ p.scans[r.scan] = None THEN None ELSE r.scan
            /\ r # None /\ r.scan # None => r.scan <= d.scans
<1> DEFINE r == m.obs[o]
           q == p.obs[o]
           t == HostedRow(r, m.hosts)
<1>1. /\ r \in OrNone(FindingRow) /\ q \in OrNone(FindingRow) /\ q = ScannedRow(t, p.scans)
      /\ r # None /\ r.scan # None => r.scan <= d.scans
  BY DEF Meets, Same, FindingsAgree, Refs, OfScans, Store
<1>2. t \in OrNone(FindingRow) /\ (t = None <=> r = None \/ Gone(m.hosts, r.host)) /\ (t # None => t = r)
  BY <1>1 DEF HostedRow, OrNone
<1> HIDE DEF r, q, t
<1>3. QED
  BY <1>1, <1>2, ScannedFinding DEF r, q

\* The row x of finding o is of the same host and key, and of a scan that was drawn.
SameFinding(m, d, o, x) ==
  /\ x \in FindingRow /\ x.host = m.obs[o].host /\ x.key = m.obs[o].key
  /\ x.scan # None => x.scan <= d.scans

\* A finding is changed in Memory, and in Postgres where it has the row.
LEMMA FindingWritten ==
  ASSUME NEW m, NEW p, NEW d, NEW n, Meets(m, p, d, n), NEW o \in Obs, m.obs[o] # None,
         NEW x, SameFinding(m, d, o, x), NEW y, p.obs[o] # None => y = ScannedRow(x, p.scans)
  PROVE  /\ p.obs[o] # None => Meets(Write(m, "obs", o, x), Write(p, "obs", o, y), d, n)
         /\ p.obs[o] = None => Meets(Write(m, "obs", o, x), p, d, n)
<1> DEFINE X == [m.obs EXCEPT ![o] = x]
           Y == [p.obs EXCEPT ![o] = y]
<1>1. /\ m \in Store /\ p \in Store
      /\ m.obs \in [Obs -> OrNone(FindingRow)] /\ p.obs \in [Obs -> OrNone(FindingRow)]
      /\ FindingsAgree(m.obs, p.obs, m.hosts, p.scans)
      /\ OutboxAgrees(m.outbox, p.outbox, p.obs)
      /\ OfHosts(m.obs, d) /\ OfScans(m.obs, d) /\ Numbered(m.obs, d.obs)
      /\ Indexed(m.obs, m.dedup) /\ m.outbox \in [Targets -> Seq(OrNone(DeliveryRow))]
  BY DEF Meets, Same, Refs, Store
<1>2. /\ x \in FindingRow /\ x.host = m.obs[o].host /\ x.key = m.obs[o].key /\ x # None
      /\ x.scan # None => x.scan <= d.scans
  BY NoneIsNothing DEF SameFinding
<1>a. Write(m, "obs", o, x) = [m EXCEPT !.obs = X] /\ Write(p, "obs", o, y) = [p EXCEPT !.obs = Y]
  BY DEF Write
<1>3. p.obs[o] = None <=> m.obs[o] = None \/ Gone(m.hosts, m.obs[o].host)
  BY FindingRows
<1>4. /\ X \in [Obs -> OrNone(FindingRow)]
      /\ OfHosts(X, d) /\ OfScans(X, d) /\ Numbered(X, d.obs)
  BY <1>1, <1>2 DEF OrNone, OfHosts, OfScans, Numbered
<1>5. Indexed(X, m.dedup)
  <2>1. \A i \in Obs : (X[i] = None <=> m.obs[i] = None)
                       /\ X[i].host = m.obs[i].host /\ X[i].key = m.obs[i].key
    BY <1>1, <1>2
  <2> HIDE DEF X
  <2>2. ASSUME NEW h \in Hosts, NEW k \in Keys, m.dedup[h][k] # None
        PROVE  m.dedup[h][k] \in Obs
    BY <2>2 DEF Meets, Store, OrNone
  <2>3. ASSUME NEW h \in Hosts, NEW k \in Keys, m.dedup[h][k] # None
        PROVE  LET i == m.dedup[h][k] IN X[i] # None /\ X[i].host = h /\ X[i].key = k
    <3>1. LET i == m.dedup[h][k] IN m.obs[i] # None /\ m.obs[i].host = h /\ m.obs[i].key = k
      BY <1>1, <2>3 DEF Indexed
    <3>2. QED
      BY <2>1, <2>2, <2>3, <3>1
  <2>4. ASSUME NEW i \in Obs, X[i] # None
        PROVE  m.dedup[X[i].host][X[i].key] = i
    <3>1. m.obs[i] # None => m.dedup[m.obs[i].host][m.obs[i].key] = i
      BY <1>1 DEF Indexed
    <3>2. QED
      BY <2>1, <2>4, <3>1
  <2>5. QED
    BY <2>3, <2>4 DEF Indexed
<1>6. CASE p.obs[o] # None
  <2>1. HostedRow(x, m.hosts) = x
    BY <1>2, <1>3, <1>6 DEF HostedRow
  <2>2. y = ScannedRow(x, p.scans) /\ y \in OrNone(FindingRow) /\ y # None
    BY <1>2, <1>6, ScannedFinding DEF OrNone
  <2>3. Y \in [Obs -> OrNone(FindingRow)]
    BY <1>1, <2>2
  <2>4. FindingsAgree(X, Y, m.hosts, p.scans)
    BY <1>1, <2>1, <2>2 DEF FindingsAgree
  <2>5. \A i \in Obs : Y[i] = None <=> p.obs[i] = None
    BY <1>1, <1>6, <2>2
  <2> HIDE DEF X, Y
  <2>6. OutboxAgrees(m.outbox, p.outbox, Y)
    <3> SUFFICES ASSUME NEW t \in Targets, NEW i \in DOMAIN m.outbox[t]
                 PROVE  DeliveredRow(m.outbox[t][i], Y) = DeliveredRow(m.outbox[t][i], p.obs)
      BY <1>1 DEF OutboxAgrees, QueueAgrees
    <3>1. m.outbox[t][i] \in OrNone(DeliveryRow)
      BY <1>1
    <3>2. m.outbox[t][i] # None => m.outbox[t][i].obs \in Obs
      BY <3>1 DEF OrNone, DeliveryRow
    <3>3. QED
      BY <2>5, <3>2 DEF DeliveredRow
  <2>7. QED
    BY <1>4, <1>5, <1>6, <1>a, <2>3, <2>4, <2>6, ObsWritten
<1>7. CASE p.obs[o] = None
  <2>1. HostedRow(x, m.hosts) = None
    BY <1>2, <1>3, <1>7 DEF HostedRow
  <2>2. FindingsAgree(X, p.obs, m.hosts, p.scans)
    BY <1>1, <1>7, <2>1 DEF FindingsAgree, ScannedRow
  <2> HIDE DEF X, Y
  <2>3. Meets([m EXCEPT !.obs = X], [p EXCEPT !.obs = p.obs], d, n)
    BY <1>1, <1>4, <1>5, <2>2, ObsWritten
  <2>4. [p EXCEPT !.obs = p.obs] = p
    BY <1>1, TableNames, Unwritten
  <2>5. QED
    BY <1>7, <1>a, <2>3, <2>4
<1>8. QED
  BY <1>6, <1>7

\* On conditions c and e that agree.
FindingStep(m, p, d, o, c, e, x, y) ==
  /\ c \in BOOLEAN /\ e \in BOOLEAN
  /\ m.obs[o] # None /\ c => SameFinding(m, d, o, x)
  /\ p.obs[o] # None => (c <=> e) /\ (c => y = ScannedRow(x, p.scans))

\* The stores go on agreeing.
LEMMA FindingChanged ==
  ASSUME NEW m, NEW p, NEW d, NEW n, Meets(m, p, d, n), NEW o \in Obs,
         NEW c, NEW e, NEW x, NEW y, FindingStep(m, p, d, o, c, e, x, y)
  PROVE  Agreed(Change(m, "obs", o, c, x), Change(p, "obs", o, e, y), d, n, p.obs[o] = None)
<1> DEFINE f == Change(m, "obs", o, c, x)
           g == Change(p, "obs", o, e, y)
           u == Write(m, "obs", o, x)
           v == Write(p, "obs", o, y)
<1>0. /\ c \in BOOLEAN /\ e \in BOOLEAN
      /\ m.obs[o] # None /\ c => SameFinding(m, d, o, x)
      /\ p.obs[o] # None => (c <=> e) /\ (c => y = ScannedRow(x, p.scans))
  BY DEF FindingStep
<1>a. /\ m.obs[o] # None /\ c => f.db = u /\ f.out = "ok"
      /\ ~(m.obs[o] # None /\ c) => f.db = m /\ f.out = "not found"
  BY <1>0 DEF f, Change, Exists, Insert, Ok, Missing
<1>b. /\ p.obs[o] # None /\ e => g.db = v /\ g.out = "ok"
      /\ ~(p.obs[o] # None /\ e) => g.db = p /\ g.out = "not found"
  BY <1>0 DEF g, Change, Exists, Insert, Ok, Missing
<1>p. p.obs[o] = None <=> m.obs[o] = None \/ Gone(m.hosts, m.obs[o].host)
  BY FindingRows
<1>w. m.obs[o] # None /\ c => /\ p.obs[o] # None => Meets(u, v, d, n)
                              /\ p.obs[o] = None => Meets(u, p, d, n)
  BY <1>0, FindingWritten
<1> HIDE DEF f, g, u, v
<1>1. CASE m.obs[o] # None /\ c
  <2>1. CASE p.obs[o] # None
    <3>1. f.db = u /\ f.out = "ok" /\ g.db = v /\ g.out = "ok" /\ Meets(u, v, d, n)
      BY <1>0, <1>1, <1>a, <1>b, <1>w, <2>1
    <3>2. QED
      BY <3>1 DEF Agreed, f, g
  <2>2. CASE p.obs[o] = None
    <3>1. f.db = u /\ g.db = p /\ g.out = "not found" /\ Meets(u, p, d, n)
      BY <1>1, <1>a, <1>b, <1>w, <2>2
    <3>2. QED
      BY <2>2, <3>1 DEF Agreed, f, g
  <2>3. QED
    BY <2>1, <2>2
<1>2. CASE ~(m.obs[o] # None /\ c)
  <2>1. ~(p.obs[o] # None /\ e)
    BY <1>0, <1>2, <1>p
  <2>2. f.db = m /\ f.out = "not found" /\ g.db = p /\ g.out = "not found"
    BY <1>2, <1>a, <1>b, <2>1
  <2>3. QED
    BY <2>2 DEF Agreed, f, g
<1>3. QED
  BY <1>1, <1>2

\* SetObservationStatus.
LEMMA SetObservationStatusAgrees ==
  ASSUME NEW m, NEW p, NEW d, NEW n, Meets(m, p, d, n), NEW o \in Obs
  PROVE  Agreed(M!SetObservationStatus(m, o, "resolved"), P!SetObservationStatus(p, o, "resolved"),
                d, n, p.obs[o] = None)
<1> DEFINE r == m.obs[o]
           q == p.obs[o]
           x == [r EXCEPT !.status = "resolved"]
           y == [q EXCEPT !.status = "resolved"]
           c == TRUE
<1>1. /\ r \in OrNone(FindingRow) /\ q \in OrNone(FindingRow) /\ (q # None => r # None)
      /\ q # None => q = ScannedRow(r, p.scans)
      /\ r # None /\ r.scan # None => r.scan <= d.scans
  <2>1. q # None => q = ScannedRow(r, p.scans)
    BY DEF Meets, Same, FindingsAgree, HostedRow, ScannedRow
  <2>2. QED
    BY <2>1, FindingRows
<1>2. M!SetObservationStatus(m, o, "resolved") = Change(m, "obs", o, c, x)
  BY DEF M!SetObservationStatus, M!Replace, M!Change, Change, M!Exists, Exists, M!Insert, Insert,
     M!Ok, Ok, M!Missing, Missing, M!Write, Write
<1>3. P!SetObservationStatus(p, o, "resolved") = Change(p, "obs", o, c, y)
  BY DEF P!SetObservationStatus, P!Replace, P!Change, Change, P!Exists, Exists, P!Insert, Insert,
     P!Ok, Ok, P!Missing, Missing, P!Write, Write
<1> HIDE DEF r, q
<1>4. r # None => x \in FindingRow /\ x.host = r.host /\ x.key = r.key /\ x.scan = r.scan
  BY <1>1 DEF FindingRow, OrNone
<1>5. q # None => y = ScannedRow(x, p.scans)
  <2>1. q # None => r \in FindingRow
    BY <1>1 DEF OrNone
  <2>2. x # None \/ r = None
    BY <1>4, NoneIsNothing
  <2>3. QED
    BY <1>1, <2>1, <2>2 DEF ScannedRow, FindingRow
<1>6. c \in BOOLEAN
  OBVIOUS
<1>7. FindingStep(m, p, d, o, c, c, x, y)
  <2> HIDE DEF c, x, y
  <2>1. r # None => SameFinding(m, d, o, x)
    BY <1>1, <1>4 DEF SameFinding, r
  <2>2. QED
    BY <1>5, <1>6, <2>1 DEF FindingStep, r, q
<1> HIDE DEF c, x, y
<1>8. QED
  BY <1>2, <1>3, <1>7, FindingChanged

\* SetObservationVerdict.
LEMMA SetObservationVerdictAgrees ==
  ASSUME NEW m, NEW p, NEW d, NEW n, Meets(m, p, d, n), NEW o \in Obs
  PROVE  Agreed(M!SetObservationVerdict(m, o, "true_positive"),
                P!SetObservationVerdict(p, o, "true_positive"), d, n, p.obs[o] = None)
<1> DEFINE r == m.obs[o]
           q == p.obs[o]
           x == [r EXCEPT !.verdict = "true_positive"]
           y == [q EXCEPT !.verdict = "true_positive"]
           c == TRUE
<1>1. /\ r \in OrNone(FindingRow) /\ q \in OrNone(FindingRow) /\ (q # None => r # None)
      /\ q # None => q = ScannedRow(r, p.scans)
      /\ r # None /\ r.scan # None => r.scan <= d.scans
  <2>1. q # None => q = ScannedRow(r, p.scans)
    BY DEF Meets, Same, FindingsAgree, HostedRow, ScannedRow
  <2>2. QED
    BY <2>1, FindingRows
<1>2. M!SetObservationVerdict(m, o, "true_positive") = Change(m, "obs", o, c, x)
  BY DEF M!SetObservationVerdict, M!Replace, M!Change, Change, M!Exists, Exists, M!Insert, Insert,
     M!Ok, Ok, M!Missing, Missing, M!Write, Write
<1>3. P!SetObservationVerdict(p, o, "true_positive") = Change(p, "obs", o, c, y)
  BY DEF P!SetObservationVerdict, P!Replace, P!Change, Change, P!Exists, Exists, P!Insert, Insert,
     P!Ok, Ok, P!Missing, Missing, P!Write, Write
<1> HIDE DEF r, q
<1>4. r # None => x \in FindingRow /\ x.host = r.host /\ x.key = r.key /\ x.scan = r.scan
  BY <1>1 DEF FindingRow, OrNone
<1>5. q # None => y = ScannedRow(x, p.scans)
  <2>1. q # None => r \in FindingRow
    BY <1>1 DEF OrNone
  <2>2. x # None \/ r = None
    BY <1>4, NoneIsNothing
  <2>3. QED
    BY <1>1, <2>1, <2>2 DEF ScannedRow, FindingRow
<1>6. c \in BOOLEAN
  OBVIOUS
<1>7. FindingStep(m, p, d, o, c, c, x, y)
  <2> HIDE DEF c, x, y
  <2>1. r # None => SameFinding(m, d, o, x)
    BY <1>1, <1>4 DEF SameFinding, r
  <2>2. QED
    BY <1>5, <1>6, <2>1 DEF FindingStep, r, q
<1> HIDE DEF c, x, y
<1>8. QED
  BY <1>2, <1>3, <1>7, FindingChanged

\* Every action leads to a status and a verdict, or leaves the verdict.
LEMMA Dispositions ==
  ASSUME NEW a \in DOMAIN Disposition
  PROVE  /\ Disposition[a][1] \in {"open", "acknowledged", "resolved", "false_positive"}
         /\ Disposition[a][2] \in {"", "unknown", "true_positive", "false_positive"}
<1>1. DOMAIN Disposition = {"take_ownership", "confirm_finding", "close_false_positive", "resolve",
                            "close_inconclusive", "reopen"}
  BY DEF Disposition
<1>2. /\ Disposition["take_ownership"][1] = "acknowledged" /\ Disposition["take_ownership"][2] = ""
      /\ Disposition["confirm_finding"][1] = "acknowledged"
      /\ Disposition["confirm_finding"][2] = "true_positive"
      /\ Disposition["close_false_positive"][1] = "false_positive"
      /\ Disposition["close_false_positive"][2] = "false_positive"
      /\ Disposition["resolve"][1] = "resolved" /\ Disposition["resolve"][2] = ""
      /\ Disposition["close_inconclusive"][1] = "resolved" /\ Disposition["close_inconclusive"][2] = "unknown"
      /\ Disposition["reopen"][1] = "open" /\ Disposition["reopen"][2] = ""
  BY DEF Disposition
<1>4. CASE a = "take_ownership"
  BY <1>2, <1>4
<1>5. CASE a = "confirm_finding"
  BY <1>2, <1>5
<1>6. CASE a = "close_false_positive"
  BY <1>2, <1>6
<1>7. CASE a = "resolve"
  BY <1>2, <1>7
<1>8. CASE a = "close_inconclusive"
  BY <1>2, <1>8
<1>9. CASE a = "reopen"
  BY <1>2, <1>9
<1>10. QED
  BY <1>1, <1>4, <1>5, <1>6, <1>7, <1>8, <1>9

\* ApplyObservationAction: both tell a finding that is not there from one that may not be
\* resolved.
LEMMA ApplyObservationActionAgrees ==
  ASSUME NEW m, NEW p, NEW d, NEW n, Meets(m, p, d, n), NEW o \in Obs,
         NEW a \in DOMAIN Disposition
  PROVE  Agreed(M!ApplyObservationAction(m, o, a), P!ApplyObservationAction(p, o, a), d, n,
                p.obs[o] = None)
<1> DEFINE r == m.obs[o]
           q == p.obs[o]
           s == Disposition[a][1]
           v == Disposition[a][2]
           x == [r EXCEPT !.status = s, !.verdict = IF v # "" THEN v ELSE @]
           y == [q EXCEPT !.status = s, !.verdict = IF v = "" THEN @ ELSE v]
           c == ~(a = "resolve" /\ r.verdict # "true_positive")
           e == a # "resolve" \/ q.verdict = "true_positive"
           f == Change(m, "obs", o, c, x)
           g == Change(p, "obs", o, e, y)
<1>1. /\ r \in OrNone(FindingRow) /\ q \in OrNone(FindingRow) /\ (q # None => r # None)
      /\ q # None => q = ScannedRow(r, p.scans) /\ q.verdict = r.verdict
      /\ r # None /\ r.scan # None => r.scan <= d.scans
  <2>1. q # None => q = ScannedRow(r, p.scans)
    BY DEF Meets, Same, FindingsAgree, HostedRow, ScannedRow
  <2>2. QED
    BY <2>1, FindingRows
<1>2. M!ApplyObservationAction(m, o, a) = IF r # None /\ ~c THEN Refused(m) ELSE f
  BY DEF M!ApplyObservationAction, Change, M!Exists, Exists, M!Insert, Insert, M!Ok, Ok, M!Missing,
     Missing, M!Write, Write, M!Refused, Refused, M!Disposition, Disposition
<1>3. P!ApplyObservationAction(p, o, a) = IF g.out = "not found" /\ q # None THEN Refused(p) ELSE g
  BY DEF P!ApplyObservationAction, P!Change, Change, P!Exists, Exists, P!Insert, Insert, P!Ok, Ok,
     P!Missing, Missing, P!Write, Write, P!Refused, Refused, P!Disposition, Disposition
<1>g. g.out = "not found" <=> ~(q # None /\ e)
  BY DEF g, Change, Exists, Insert, Ok, Missing
<1>k. g.out = "not found" => g.db = p
  BY DEF g, Change, Exists, Insert, Ok, Missing
<1> HIDE DEF r, q, f, g
<1>d. /\ s \in {"open", "acknowledged", "resolved", "false_positive"}
      /\ v \in {"", "unknown", "true_positive", "false_positive"}
  BY Dispositions
<1> HIDE DEF s, v
<1>4. r # None => x \in FindingRow /\ x.host = r.host /\ x.key = r.key /\ x.scan = r.scan
  BY <1>1, <1>d DEF FindingRow, OrNone
<1>5. q # None => y = ScannedRow(x, p.scans)
  <2>1. q # None => r \in FindingRow
    BY <1>1 DEF OrNone
  <2>2. x # None \/ r = None
    BY <1>4, NoneIsNothing
  <2>3. q # None => (IF v # "" THEN v ELSE r.verdict) = (IF v = "" THEN q.verdict ELSE v)
    BY <1>1
  <2>4. QED
    BY <1>1, <2>1, <2>2, <2>3 DEF ScannedRow, FindingRow
<1>6. c \in BOOLEAN /\ e \in BOOLEAN /\ (q # None => (c <=> e))
  BY <1>1
<1>7. Agreed(f, g, d, n, q = None)
  <2> HIDE DEF c, e, x, y
  <2>1. r # None => SameFinding(m, d, o, x)
    BY <1>1, <1>4 DEF SameFinding, r
  <2>2. FindingStep(m, p, d, o, c, e, x, y)
    BY <1>5, <1>6, <2>1 DEF FindingStep, r, q
  <2>3. QED
    BY <2>2, FindingChanged DEF f, g, q
<1> HIDE DEF c, e
<1>8. CASE r # None /\ ~c
  <2>1. Meets(m, p, d, n) /\ Refused(m).db = m /\ Refused(m).out = "refused"
        /\ Refused(p).db = p /\ Refused(p).out = "refused"
    BY DEF Refused
  <2>2. CASE q # None
    <3>1. P!ApplyObservationAction(p, o, a) = Refused(p)
      BY <1>3, <1>6, <1>8, <1>g, <2>2
    <3>2. QED
      BY <1>2, <1>8, <2>1, <3>1 DEF Agreed
  <2>3. CASE q = None
    <3>1. P!ApplyObservationAction(p, o, a) = g /\ g.out = "not found" /\ g.db = p
      BY <1>3, <1>g, <1>k, <2>3
    <3>2. QED
      BY <1>2, <1>8, <2>1, <2>3, <3>1 DEF Agreed, q
  <2>4. QED
    BY <2>2, <2>3
<1>9. CASE ~(r # None /\ ~c)
  <2>1. ~(g.out = "not found" /\ q # None)
    BY <1>1, <1>6, <1>9, <1>g
  <2>2. M!ApplyObservationAction(m, o, a) = f
    BY <1>2, <1>9
  <2>3. P!ApplyObservationAction(p, o, a) = g
    BY <1>3, <2>1
  <2>4. QED
    BY <1>7, <2>2, <2>3 DEF q
<1>10. QED
  BY <1>8, <1>9

\* Numbers that are not after n have a latest one.
LEMMA Latest ==
  ASSUME NEW n \in Nat, NEW S, S # {}, \A x \in S : x \in Nat /\ x <= n
  PROVE  \E x \in S : \A y \in S : y <= x
<1> DEFINE T == {n - x : x \in S}
<1>1. T # {} /\ T \subseteq Nat
  OBVIOUS
<1>2. PICK k \in T : \A l \in T : ~(<<l, k>> \in OpToRel(<, Nat))
  <2> HIDE DEF T
  <2>1. QED
    BY <1>1, NatLessThanWellFounded, WFMin
<1>3. \A l \in T : ~(l < k)
  <2> HIDE DEF T
  <2>1. QED
    BY <1>1, <1>2 DEF OpToRel
<1>4. PICK x \in S : k = n - x
  BY <1>2
<1>5. ASSUME NEW y \in S PROVE y <= x
  <2>1. ~(n - y < n - x) /\ x \in Nat /\ y \in Nat
    BY <1>3, <1>4
  <2>2. QED
    BY <2>1
<1>6. QED
  BY <1>5

\* The two stores look for the same scan: one that completed, of the host, which began
\* after the finding was seen, other than the present one.
LEMMA SameAbsent ==
  ASSUME NEW m, NEW p, NEW d, NEW n \in Nat, Meets(m, p, d, n), NEW h \in Hosts, m.hosts[h] # None,
         NEW s \in OrNone(Scans), NEW seen \in Nat
  PROVE  M!Absent(m, seen, h, s) <=> P!Absent(p, seen, h, s)
<1> DEFINE R == {q \in Scans \ {s} : /\ m.scans[q] # None /\ m.scans[q].host = h
                                     /\ m.scans[q].status \in Completed}
           starts == {m.scans[q].started : q \in R}
<1>1. /\ m.scans \in [Scans -> OrNone(ScanRow)] /\ HostedAgree(m.scans, p.scans, Scans, m.hosts)
      /\ \A q \in Scans : m.scans[q] # None => m.scans[q].started <= n
  BY DEF Meets, Same, Store, Past
<1>2. \A x \in starts : x \in Nat /\ x <= n
  BY <1>1 DEF OrNone, ScanRow
<1>3. M!Absent(m, seen, h, s) <=>
        \E prev \in starts : (\A x \in starts : x <= prev) /\ seen < prev
  BY DEF M!Absent, M!Exists, M!Completed, Completed
<1>4. \A q \in Scans :
        q \in R <=> /\ p.scans[q] # None /\ p.scans[q].host = h
                    /\ p.scans[q].status \in Completed /\ (s = None \/ q # s)
  <2> SUFFICES ASSUME NEW q \in Scans
               PROVE  q \in R <=> /\ p.scans[q] # None /\ p.scans[q].host = h
                                  /\ p.scans[q].status \in Completed /\ (s = None \/ q # s)
    OBVIOUS
  <2>1. p.scans[q] = HostedRow(m.scans[q], m.hosts)
    BY <1>1 DEF HostedAgree
  <2>2. q # None
    BY NoneIsNothing
  <2>3. QED
    BY <2>1, <2>2 DEF HostedRow, Gone
<1>5. \A q \in R : p.scans[q] = m.scans[q]
  BY <1>1, <1>4 DEF HostedAgree, HostedRow
<1>6. P!Absent(p, seen, h, s) <=> \E q \in Scans : q \in R /\ seen < p.scans[q].started
  <2> HIDE DEF R
  <2>1. QED
    BY <1>4 DEF P!Absent, P!Exists, P!Completed, Completed
<1>7. P!Absent(p, seen, h, s) <=> \E x \in starts : seen < x
  <2>1. R \subseteq Scans
    OBVIOUS
  <2> HIDE DEF R
  <2>2. QED
    BY <1>5, <1>6, <2>1
<1> HIDE DEF starts
<1>8. ASSUME NEW x \in starts, seen < x
      PROVE  \E prev \in starts : (\A y \in starts : y <= prev) /\ seen < prev
  <2>1. PICK prev \in starts : \A y \in starts : y <= prev
    BY <1>2, Latest
  <2>2. x <= prev /\ prev \in Nat /\ x \in Nat
    BY <1>2, <2>1
  <2>3. seen < prev
    BY <1>8, <2>2
  <2>4. QED
    BY <2>1, <2>3
<1>9. QED
  BY <1>3, <1>7, <1>8

\* Without enabled targets nothing is sent.
LEMMA NothingExported ==
  ASSUME NEW db \in Store, \A t \in Targets : db.exports[t] = None, NEW o, NEW n
  PROVE  M!Exported(db, o, n) = db
<1>1. [t \in Targets |-> db.outbox[t]] = db.outbox
  BY DEF Store
<1>2. M!Exported(db, o, n) = [db EXCEPT !.outbox = db.outbox]
  BY <1>1 DEF M!Exported, M!Exists
<1>3. QED
  BY <1>2, TableNames, Unwritten

\* A finding that both have is sent to the targets.
LEMMA ExportedAgrees ==
  ASSUME NEW m, NEW p, NEW d, NEW n \in Nat, Meets(m, p, d, n),
         NEW o \in Obs, p.obs[o] # None, o <= d.obs
  PROVE  Meets(M!Exported(m, o, n), P!Exported(p, o, n), d, n)
<1> DEFINE x == NewDelivery(o, n)
           on(t) == m.exports[t] # None /\ m.exports[t].enabled
           X == [t \in Targets |-> IF on(t) THEN Append(m.outbox[t], x) ELSE m.outbox[t]]
           Y == [t \in Targets |-> IF on(t) THEN Append(p.outbox[t], x) ELSE p.outbox[t]]
<1>1. /\ m.outbox \in [Targets -> Seq(OrNone(DeliveryRow))]
      /\ p.outbox \in [Targets -> Seq(OrNone(DeliveryRow))] /\ p.exports = m.exports
      /\ OutboxAgrees(m.outbox, p.outbox, p.obs) /\ OutboxRefs(m.outbox, d)
      /\ \A u \in Targets : m.exports[u] = None => m.outbox[u] = <<>>
      /\ \A u \in Targets : \A j \in DOMAIN m.outbox[u] : HeldByLease(m.outbox[u][j])
  BY DEF Meets, Same, Refs, Addressed, Leased, Store
<1>a. M!Exported(m, o, n) = [m EXCEPT !.outbox = X]
  BY DEF M!Exported, M!Exists, M!NewDelivery, NewDelivery
<1>b. P!Exported(p, o, n) = [p EXCEPT !.outbox = Y]
  BY <1>1 DEF P!Exported, P!Exists, P!NewDelivery, NewDelivery
<1>2. x \in OrNone(DeliveryRow) /\ x.obs = o /\ HeldByLease(x)
  <2>1. x \in DeliveryRow /\ x.obs = o /\ x.status = "queued"
    BY DEF NewDelivery, DeliveryRow, OrNone
  <2>2. QED
    BY <2>1 DEF OrNone, HeldByLease
<1> HIDE DEF x
<1>3. ASSUME NEW K \in Seq(OrNone(DeliveryRow))
      PROVE  /\ Append(K, x) \in Seq(OrNone(DeliveryRow)) /\ DOMAIN Append(K, x) = 1..(Len(K) + 1)
             /\ \A i \in DOMAIN Append(K, x) : Append(K, x)[i] = IF i = Len(K) + 1 THEN x ELSE K[i]
             /\ Len(K) \in Nat /\ DOMAIN K = 1..Len(K)
  <2>1. /\ Append(K, x) \in Seq(OrNone(DeliveryRow)) /\ Len(Append(K, x)) = Len(K) + 1
        /\ \A i \in 1..Len(K) : Append(K, x)[i] = K[i]
        /\ Append(K, x)[Len(K) + 1] = x
    BY <1>2, AppendProperties
  <2>2. QED
    BY <2>1
<1>4. X \in [Targets -> Seq(OrNone(DeliveryRow))] /\ Y \in [Targets -> Seq(OrNone(DeliveryRow))]
  BY <1>1, <1>3
<1>5. OutboxAgrees(X, Y, p.obs)
  <2> SUFFICES ASSUME NEW t \in Targets, on(t)
               PROVE  QueueAgrees(Append(m.outbox[t], x), Append(p.outbox[t], x), p.obs)
    BY <1>1 DEF OutboxAgrees
  <2> DEFINE K == m.outbox[t]
             L == p.outbox[t]
  <2>1. K \in Seq(OrNone(DeliveryRow)) /\ L \in Seq(OrNone(DeliveryRow)) /\ QueueAgrees(K, L, p.obs)
    BY <1>1 DEF OutboxAgrees
  <2> HIDE DEF K, L
  <2>2. Len(K) \in Nat /\ Len(L) \in Nat /\ DOMAIN K = 1..Len(K) /\ DOMAIN L = 1..Len(L)
    BY <2>1
  <2>3. Len(K) = Len(L)
    BY <2>1, <2>2 DEF QueueAgrees
  <2>4. x = DeliveredRow(x, p.obs)
    BY <1>2 DEF DeliveredRow
  <2>5. QueueAgrees(Append(K, x), Append(L, x), p.obs)
    <3>1. /\ DOMAIN Append(K, x) = 1..(Len(K) + 1)
          /\ \A i \in DOMAIN Append(K, x) : Append(K, x)[i] = IF i = Len(K) + 1 THEN x ELSE K[i]
      BY <1>3, <2>1
    <3>2. /\ DOMAIN Append(L, x) = 1..(Len(L) + 1)
          /\ \A i \in DOMAIN Append(L, x) : Append(L, x)[i] = IF i = Len(L) + 1 THEN x ELSE L[i]
      BY <1>3, <2>1
    <3>3. ASSUME NEW i \in 1..(Len(K) + 1), i # Len(K) + 1
          PROVE  L[i] = DeliveredRow(K[i], p.obs)
      BY <2>1, <2>2, <3>3 DEF QueueAgrees
    <3>4. QED
      BY <2>3, <2>4, <3>1, <3>2, <3>3 DEF QueueAgrees
  <2>6. QED
    BY <2>5 DEF K, L
<1>6. OutboxRefs(X, d)
  <2> SUFFICES ASSUME NEW t \in Targets, NEW i \in DOMAIN X[t], X[t][i] # None
               PROVE  X[t][i].obs <= d.obs
    BY DEF OutboxRefs
  <2>1. CASE on(t)
    <3>1. m.outbox[t] \in Seq(OrNone(DeliveryRow)) /\ X[t] = Append(m.outbox[t], x)
      BY <1>1, <2>1
    <3>2. /\ DOMAIN X[t] = 1..(Len(m.outbox[t]) + 1) /\ DOMAIN m.outbox[t] = 1..Len(m.outbox[t])
          /\ X[t][i] = IF i = Len(m.outbox[t]) + 1 THEN x ELSE m.outbox[t][i]
          /\ Len(m.outbox[t]) \in Nat
      BY <1>3, <3>1
    <3>3. i \in DOMAIN m.outbox[t] \/ i = Len(m.outbox[t]) + 1
      BY <3>2
    <3> HIDE DEF X
    <3>4. QED
      BY <1>1, <1>2, <3>2, <3>3 DEF OutboxRefs
  <2>2. CASE ~on(t)
    BY <1>1, <2>2 DEF OutboxRefs
  <2>3. QED
    BY <2>1, <2>2
<1>7. \A t \in Targets : m.exports[t] = None => X[t] = <<>>
  BY <1>1
<1>8. \A t \in Targets : \A i \in DOMAIN X[t] : HeldByLease(X[t][i])
  <2> SUFFICES ASSUME NEW t \in Targets, NEW i \in DOMAIN X[t] PROVE HeldByLease(X[t][i])
    OBVIOUS
  <2>1. CASE on(t)
    <3>1. m.outbox[t] \in Seq(OrNone(DeliveryRow)) /\ X[t] = Append(m.outbox[t], x)
      BY <1>1, <2>1
    <3>2. /\ DOMAIN X[t] = 1..(Len(m.outbox[t]) + 1) /\ DOMAIN m.outbox[t] = 1..Len(m.outbox[t])
          /\ X[t][i] = IF i = Len(m.outbox[t]) + 1 THEN x ELSE m.outbox[t][i]
          /\ Len(m.outbox[t]) \in Nat
      BY <1>3, <3>1
    <3>3. i \in DOMAIN m.outbox[t] \/ i = Len(m.outbox[t]) + 1
      BY <3>2
    <3> HIDE DEF X
    <3>4. QED
      BY <1>1, <1>2, <3>2, <3>3
  <2>2. CASE ~on(t)
    BY <1>1, <2>2
  <2>3. QED
    BY <2>1, <2>2
<1> HIDE DEF X, Y
<1>9. Meets([m EXCEPT !.outbox = X], [p EXCEPT !.outbox = Y], d, n)
  BY <1>4, <1>5, <1>6, <1>7, <1>8, OutboxWritten
<1>10. QED
  BY <1>9, <1>a, <1>b

\* The index of Memory finds the row that the conflict clause of Postgres finds.
LEMMA SameFindings ==
  ASSUME NEW m, NEW p, NEW d, NEW n, Meets(m, p, d, n), NEW h \in Hosts, NEW k \in Keys,
         m.hosts[h] # None
  PROVE  LET same == {i \in Obs : p.obs[i] # None /\ p.obs[i].host = h /\ p.obs[i].key = k}
         IN same = IF m.dedup[h][k] # None THEN {m.dedup[h][k]} ELSE {}
<1> DEFINE id == m.dedup[h][k]
           same == {i \in Obs : p.obs[i] # None /\ p.obs[i].host = h /\ p.obs[i].key = k}
<1>1. /\ id \in OrNone(Obs)
      /\ id # None => m.obs[id] # None /\ m.obs[id].host = h /\ m.obs[id].key = k
      /\ \A o \in Obs : m.obs[o] # None => m.dedup[m.obs[o].host][m.obs[o].key] = o
  <2>1. m.dedup \in [Hosts -> [Keys -> OrNone(Obs)]] /\ Indexed(m.obs, m.dedup)
    BY DEF Meets, Store
  <2>2. QED
    BY <2>1 DEF Indexed
<1>2. ASSUME NEW i \in Obs
      PROVE  i \in same <=> m.obs[i] # None /\ m.obs[i].host = h /\ m.obs[i].key = k
  <2>1. /\ p.obs[i] = None <=> m.obs[i] = None \/ Gone(m.hosts, m.obs[i].host)
        /\ p.obs[i] # None => p.obs[i].host = m.obs[i].host /\ p.obs[i].key = m.obs[i].key
    BY FindingRows
  <2>2. QED
    BY <2>1 DEF Gone
<1>3. \A i \in Obs : i \in same <=> i = id /\ id # None
  <2> HIDE DEF same
  <2>1. QED
    BY <1>1, <1>2, NoneIsNothing
<1>4. same \subseteq Obs
  OBVIOUS
<1> HIDE DEF same
<1>5. same = IF id # None THEN {id} ELSE {}
  BY <1>1, <1>3, <1>4 DEF OrNone
<1>6. QED
  BY <1>5 DEF same

\* Rows are the same when their columns are.
LEMMA SameColumns ==
  ASSUME NEW x \in FindingRow, NEW y \in FindingRow, x.host = y.host, x.key = y.key,
         x.scan = y.scan, x.status = y.status, x.verdict = y.verdict, x.count = y.count,
         x.seen = y.seen
  PROVE  x = y
BY DEF FindingRow

\* UpsertObservation of a finding that there is: it is reopened by both or by neither.
LEMMA UpsertFoundAgrees ==
  ASSUME NEW m, NEW p, NEW d, NEW n \in Nat, Meets(m, p, d, n), NEW o, NEW h \in Hosts,
         NEW k \in Keys, NEW s \in OrNone(Scans), s # None => s <= d.scans /\ p.scans[s] # None,
         m.dedup[h][k] # None, group = "exports" => p.hosts[h] # None
  PROVE  LET a == M!UpsertObservation(m, o, h, k, s, n)
             b == P!UpsertObservation(p, o, h, k, s, n)
         IN /\ Agreed(a, b, d, n, p.hosts[h] = None)
            /\ \A i \in Obs : /\ a.db.obs[i] = None <=> m.obs[i] = None
                              /\ b.db.obs[i] = None <=> p.obs[i] = None
<1> DEFINE a == M!UpsertObservation(m, o, h, k, s, n)
           b == P!UpsertObservation(p, o, h, k, s, n)
           id == m.dedup[h][k]
           r == m.obs[id]
           q == p.obs[id]
           rm == M!Reopens(r, n) /\ M!Absent(m, r.seen, h, s)
           rp == /\ ReopenAfter > 0 /\ q.status \in Closed
                 /\ q.seen + ReopenAfter <= n /\ P!Absent(p, q.seen, h, s)
           x == [r EXCEPT !.status = IF rm THEN "open" ELSE @, !.seen = n, !.count = @ + 1, !.scan = s]
           y == [q EXCEPT !.status = IF rp THEN "open" ELSE @, !.seen = n, !.count = @ + 1, !.scan = s]
           u == Write(m, "obs", id, x)
           v == Write(p, "obs", id, y)
           f == M!Exported(u, id, n)
           g == P!Exported(v, id, n)
<1>1. /\ m \in Store /\ p \in Store /\ m.obs \in [Obs -> OrNone(FindingRow)]
      /\ p.obs \in [Obs -> OrNone(FindingRow)]
      /\ id \in Obs /\ id # None /\ r # None /\ r.host = h /\ r.key = k /\ id <= d.obs
      /\ group # "exports" => \A t \in Targets : m.exports[t] = None
  <2>1. /\ m \in Store /\ p \in Store /\ Indexed(m.obs, m.dedup) /\ Numbered(m.obs, d.obs)
        /\ group # "exports" => \A t \in Targets : m.exports[t] = None
    BY DEF Meets, Refs, GroupHolds
  <2>2. m.dedup \in [Hosts -> [Keys -> OrNone(Obs)]] /\ m.obs \in [Obs -> OrNone(FindingRow)]
        /\ p.obs \in [Obs -> OrNone(FindingRow)]
    BY <2>1 DEF Store
  <2>3. id \in Obs /\ id # None
    BY <2>2 DEF OrNone
  <2>4. r # None /\ r.host = h /\ r.key = k
    BY <2>1, <2>3 DEF Indexed
  <2>5. QED
    BY <2>1, <2>2, <2>3, <2>4 DEF Numbered
<1>2. m.hosts[h] = None <=> p.hosts[h] = None
  BY SameHosts
<1>a. a.db = f /\ a.out = "ok"
  BY <1>1 DEF M!UpsertObservation, M!Ok, M!Write, Write
<1>b. /\ p.hosts[h] = None => b.db = p /\ b.out = "constraint"
      /\ p.hosts[h] # None => b.db = g /\ b.out = "ok"
  <2>0. h # None
    BY NoneIsNothing
  <2>1. (\E i \in {<<"hosts", h>>, <<"scans", s>>} : i[2] # None /\ ~P!Exists(p, i[1], i[2]))
          <=> p.hosts[h] = None
    BY <2>0 DEF P!Exists
  <2>2. CASE p.hosts[h] = None
    BY <2>1, <2>2 DEF P!UpsertObservation, P!Checked, P!Ok, P!Broken
  <2>3. CASE p.hosts[h] # None
    <3>1. {i \in Obs : P!Exists(p, "obs", i) /\ p.obs[i].host = h /\ p.obs[i].key = k} = {id}
      <4>1. {i \in Obs : p.obs[i] # None /\ p.obs[i].host = h /\ p.obs[i].key = k} = {id}
        BY <1>1, <1>2, <2>3, SameFindings
      <4>2. QED
        BY <4>1 DEF P!Exists
    <3>2. (CHOOSE i \in {id} : TRUE) = id /\ {id} # {}
      OBVIOUS
    <3>3. b = P!Ok(g)
      <4> DEFINE same == {i \in Obs : P!Exists(p, "obs", i) /\ p.obs[i].host = h /\ p.obs[i].key = k}
      <4>1. same = {id} /\ (CHOOSE i \in same : TRUE) = id /\ same # {}
        BY <3>1, <3>2
      <4>2. b = P!Checked(p, {<<"hosts", h>>, <<"scans", s>>}, P!Ok(g))
        BY <4>1 DEF P!UpsertObservation, P!Write, Write, P!Closed, Closed
      <4>3. QED
        BY <2>1, <2>3, <4>2 DEF P!Checked
    <3>4. QED
      BY <2>3, <3>3 DEF P!Ok
  <2>4. QED
    BY <2>2, <2>3
<1> HIDE DEF a, b, f, g
<1>3. r \in FindingRow /\ (r.scan # None => r.scan <= d.scans)
  <2>1. r # None /\ r.scan # None => r.scan <= d.scans
    BY <1>1, FindingRows
  <2>2. QED
    BY <1>1, <2>1 DEF OrNone
<1>4. /\ x \in FindingRow /\ x.host = r.host /\ x.key = r.key /\ x.scan = s /\ x.seen = n
      /\ x.count = r.count + 1 /\ x.verdict = r.verdict
      /\ x.status = IF rm THEN "open" ELSE r.status
  <2> HIDE DEF r, rm
  <2>1. r.count + 1 \in Nat /\ (IF rm THEN "open" ELSE r.status)
          \in {"open", "acknowledged", "resolved", "false_positive"}
    BY <1>3 DEF FindingRow
  <2>2. QED
    BY <1>3, <2>1 DEF FindingRow
<1>5. SameFinding(m, d, id, x)
  BY <1>4 DEF SameFinding
<1>6. CASE p.hosts[h] # None
  <2>1. /\ q \in FindingRow /\ q # None /\ q.host = r.host /\ q.key = r.key /\ q.status = r.status
        /\ q.verdict = r.verdict /\ q.count = r.count /\ q.seen = r.seen
    <3>1. /\ q \in OrNone(FindingRow) /\ (q = None <=> r = None \/ Gone(m.hosts, r.host))
          /\ q # None => /\ q.host = r.host /\ q.key = r.key /\ q.status = r.status
                         /\ q.verdict = r.verdict /\ q.count = r.count /\ q.seen = r.seen
      BY <1>1, FindingRows
    <3>2. q # None
      BY <1>1, <1>2, <1>6, <3>1 DEF Gone
    <3>3. QED
      BY <3>1, <3>2 DEF OrNone
  <2>2. rm <=> rp
    <3>1. M!Absent(m, r.seen, h, s) <=> P!Absent(p, r.seen, h, s)
      <4>1. r.seen \in Nat
        BY <1>3 DEF FindingRow
      <4>2. QED
        BY <1>2, <1>6, <4>1, SameAbsent
    <3>2. M!Reopens(r, n) <=> ReopenAfter > 0 /\ r.status \in Closed /\ r.seen + ReopenAfter <= n
      <4>1. r.seen \in Nat /\ ReopenAfter \in Nat
        BY <1>3, StoreAssumption DEF FindingRow
      <4> HIDE DEF r
      <4>2. n - r.seen >= ReopenAfter <=> r.seen + ReopenAfter <= n
        BY <4>1
      <4>3. QED
        BY <4>2 DEF M!Reopens, M!Closed, Closed
    <3>3. QED
      BY <2>1, <3>1, <3>2
  <2>3. /\ y \in FindingRow /\ y.host = q.host /\ y.key = q.key /\ y.scan = s /\ y.seen = n
        /\ y.count = q.count + 1 /\ y.verdict = q.verdict
        /\ y.status = IF rp THEN "open" ELSE q.status
    <3> HIDE DEF q, rp
    <3>1. q.count + 1 \in Nat /\ (IF rp THEN "open" ELSE q.status)
            \in {"open", "acknowledged", "resolved", "false_positive"}
      BY <2>1 DEF FindingRow
    <3>2. QED
      BY <2>1, <3>1 DEF FindingRow
  <2> HIDE DEF rm, rp, x, y
  <2>4. y = x
    <3>1. x.status = y.status
      BY <1>4, <2>1, <2>2, <2>3
    <3> HIDE DEF r, q
    <3>2. QED
      BY <1>4, <2>1, <2>3, <3>1, SameColumns
  <2>5. x = ScannedRow(x, p.scans) /\ y # None
    BY <1>4, <2>4, NoneIsNothing DEF ScannedRow
  <2>6. Meets(u, v, d, n)
    BY <1>1, <1>5, <2>1, <2>4, <2>5, FindingWritten
  <2>7. v.obs = [p.obs EXCEPT ![id] = y] /\ u.obs = [m.obs EXCEPT ![id] = x] /\ v.obs[id] # None
    BY <1>1, <2>5 DEF Write, Store
  <2>8. u \in Store /\ v \in Store
    BY <2>6 DEF Meets
  <2> HIDE DEF u, v
  <2>9. Meets(f, g, d, n)
    BY <1>1, <2>6, <2>7, ExportedAgrees DEF f, g
  <2>10. f.obs = u.obs /\ g.obs = v.obs
    BY <2>8 DEF f, g, M!Exported, P!Exported, Store
  <2>11. Agreed(a, b, d, n, p.hosts[h] = None)
    BY <1>6, <1>a, <1>b, <2>9 DEF Agreed
  <2>12. x # None
    BY <2>4, <2>5
  <2>13. \A i \in Obs : (a.db.obs[i] = None <=> m.obs[i] = None) /\ (b.db.obs[i] = None <=> p.obs[i] = None)
    BY <1>1, <1>6, <1>a, <1>b, <2>1, <2>5, <2>7, <2>10, <2>12
  <2>14. QED
    BY <2>11, <2>13 DEF a, b
<1>7. CASE p.hosts[h] = None
  <2>1. q = None
    <3>1. q = None <=> r = None \/ Gone(m.hosts, r.host)
      BY <1>1, FindingRows
    <3>2. QED
      BY <1>1, <1>2, <1>7, <3>1, NoneIsNothing DEF Gone
  <2> HIDE DEF rm, rp, x, y
  <2>2. Meets(u, p, d, n)
    BY <1>1, <1>5, <2>1, FindingWritten
  <2>3. u \in Store /\ u.exports = m.exports /\ u.obs = [m.obs EXCEPT ![id] = x]
    <3>1. u \in Store
      BY <2>2 DEF Meets
    <3>2. QED
      BY <1>1, <3>1 DEF Write, Store
  <2> HIDE DEF u, v
  <2>4. f = u
    BY <1>1, <1>7, <2>3, NothingExported DEF f
  <2>5. Agreed(a, b, d, n, p.hosts[h] = None)
    BY <1>7, <1>a, <1>b, <2>2, <2>4 DEF Agreed
  <2>6. x # None
    BY <1>4, NoneIsNothing
  <2>7. \A i \in Obs : (a.db.obs[i] = None <=> m.obs[i] = None) /\ (b.db.obs[i] = None <=> p.obs[i] = None)
    BY <1>1, <1>7, <1>a, <1>b, <2>3, <2>4, <2>6
  <2>8. QED
    BY <2>5, <2>7 DEF a, b
<1>8. QED
  BY <1>6, <1>7

\* UpsertObservation of a finding that is new.
LEMMA UpsertNewAgrees ==
  ASSUME NEW m, NEW p, NEW d, NEW e, NEW n \in Nat, Meets(m, p, d, n), Meets(m, p, e, n),
         NEW o \in Obs, ~(o <= d.obs), o <= e.obs, NEW h \in Hosts, h <= e.hosts, NEW k \in Keys,
         NEW s \in OrNone(Scans), s # None => s <= e.scans /\ p.scans[s] # None,
         m.dedup[h][k] = None, group = "exports" => p.hosts[h] # None
  PROVE  LET a == M!UpsertObservation(m, o, h, k, s, n)
             b == P!UpsertObservation(p, o, h, k, s, n)
         IN Agreed(a, b, e, n, p.hosts[h] = None) /\ a.db.obs[o] # None
<1> DEFINE a == M!UpsertObservation(m, o, h, k, s, n)
           b == P!UpsertObservation(p, o, h, k, s, n)
           x == NewFinding(h, k, s, n)
           X == [m.obs EXCEPT ![o] = x]
           Y == [p.obs EXCEPT ![o] = x]
           Z == [m.dedup EXCEPT ![h] = [m.dedup[h] EXCEPT ![k] = o]]
           u == [m EXCEPT !.obs = X, !.dedup = Z]
           v == [p EXCEPT !.obs = Y]
           f == M!Exported(u, o, n)
           g == P!Exported(v, o, n)
<1>1. /\ m \in Store /\ p \in Store
      /\ FindingsAgree(m.obs, p.obs, m.hosts, p.scans) /\ OutboxAgrees(m.outbox, p.outbox, p.obs)
      /\ OutboxRefs(m.outbox, d) /\ OfHosts(m.obs, e) /\ OfScans(m.obs, e)
      /\ Numbered(m.obs, d.obs) /\ Numbered(m.obs, e.obs) /\ Indexed(m.obs, m.dedup)
      /\ group # "exports" => \A t \in Targets : m.exports[t] = None
  BY DEF Meets, Same, Refs, GroupHolds
<1>2. /\ m.obs \in [Obs -> OrNone(FindingRow)] /\ p.obs \in [Obs -> OrNone(FindingRow)]
      /\ m.dedup \in [Hosts -> [Keys -> OrNone(Obs)]]
      /\ m.outbox \in [Targets -> Seq(OrNone(DeliveryRow))]
  BY <1>1 DEF Store
<1>3. m.hosts[h] = None <=> p.hosts[h] = None
  BY SameHosts
<1>4. m.obs[o] = None /\ p.obs[o] = None
  <2>1. m.obs[o] = None
    BY <1>1, <1>2 DEF Numbered
  <2>2. QED
    BY <1>1, <2>1 DEF FindingsAgree, HostedRow, ScannedRow
<1>5. x \in FindingRow /\ x.host = h /\ x.key = k /\ x.scan = s /\ x # None /\ h # None
  <2>1. x \in FindingRow /\ x.host = h /\ x.key = k /\ x.scan = s
    BY DEF NewFinding, FindingRow
  <2>2. QED
    BY <2>1, NoneIsNothing
<1>a. a.db = f /\ a.out = "ok"
  <2>1. [M!Write(m, "obs", o, x) EXCEPT !.dedup[h][k] = o] = u
    BY <1>1, <1>2 DEF M!Write, Store
  <2> HIDE DEF u
  <2>2. QED
    BY <2>1 DEF M!UpsertObservation, M!Ok, M!NewFinding, NewFinding
<1>b. /\ p.hosts[h] = None => b.db = p /\ b.out = "constraint"
      /\ p.hosts[h] # None => b.db = g /\ b.out = "ok"
  <2>1. (\E i \in {<<"hosts", h>>, <<"scans", s>>} : i[2] # None /\ ~P!Exists(p, i[1], i[2]))
          <=> p.hosts[h] = None
    BY <1>5 DEF P!Exists
  <2>2. CASE p.hosts[h] = None
    BY <2>1, <2>2 DEF P!UpsertObservation, P!Checked, P!Ok, P!Broken
  <2>3. CASE p.hosts[h] # None
    <3>1. {i \in Obs : P!Exists(p, "obs", i) /\ p.obs[i].host = h /\ p.obs[i].key = k} = {}
      <4>1. {i \in Obs : p.obs[i] # None /\ p.obs[i].host = h /\ p.obs[i].key = k} = {}
        BY <1>3, <2>3, SameFindings
      <4>2. QED
        BY <4>1 DEF P!Exists
    <3>2. b = P!Checked(p, {<<"hosts", h>>, <<"scans", s>>}, P!Ok(g))
      BY <3>1 DEF P!UpsertObservation, P!Write, P!NewFinding, NewFinding
    <3>3. QED
      BY <2>1, <2>3, <3>2 DEF P!Checked, P!Ok
  <2>4. QED
    BY <2>2, <2>3
<1> HIDE DEF a, b, f, g, x
<1>6. /\ X \in [Obs -> OrNone(FindingRow)] /\ Y \in [Obs -> OrNone(FindingRow)]
      /\ OfHosts(X, e) /\ OfScans(X, e) /\ Numbered(X, e.obs) /\ X[o] # None /\ Y[o] # None
      /\ Z \in [Hosts -> [Keys -> OrNone(Obs)]]
  BY <1>1, <1>2, <1>5 DEF OrNone, OfHosts, OfScans, Numbered
<1>7. Indexed(X, Z)
  <2>1. ASSUME NEW i \in Hosts, NEW j \in Keys, Z[i][j] # None
        PROVE  X[Z[i][j]] # None /\ X[Z[i][j]].host = i /\ X[Z[i][j]].key = j
    <3>1. CASE i = h /\ j = k
      <4>1. Z[i][j] = o
        BY <1>2, <3>1
      <4>2. QED
        BY <1>2, <1>5, <3>1, <4>1
    <3>2. CASE ~(i = h /\ j = k)
      <4>1. Z[i][j] = m.dedup[i][j] /\ m.dedup[i][j] \in Obs
        BY <1>2, <2>1, <3>2 DEF OrNone
      <4> HIDE DEF Z
      <4>2. m.obs[Z[i][j]] # None /\ m.obs[Z[i][j]].host = i /\ m.obs[Z[i][j]].key = j
        BY <1>1, <2>1, <4>1 DEF Indexed
      <4>3. QED
        BY <1>2, <1>4, <4>1, <4>2
    <3>3. QED
      BY <3>1, <3>2
  <2>2. ASSUME NEW i \in Obs, X[i] # None
        PROVE  Z[X[i].host][X[i].key] = i
    <3>1. CASE i = o
      BY <1>2, <1>5, <3>1
    <3>2. CASE i # o
      <4>1. X[i] = m.obs[i] /\ m.obs[i] \in FindingRow
        BY <1>2, <2>2, <3>2 DEF OrNone
      <4>2. m.dedup[m.obs[i].host][m.obs[i].key] = i /\ m.obs[i].host \in Hosts /\ m.obs[i].key \in Keys
            /\ i # None
        BY <1>1, <2>2, <4>1, NoneIsNothing DEF Indexed, FindingRow
      <4> HIDE DEF X
      <4>3. ~(X[i].host = h /\ X[i].key = k)
        BY <4>1, <4>2
      <4>4. QED
        BY <1>2, <4>1, <4>2, <4>3
    <3>3. QED
      BY <3>1, <3>2
  <2> HIDE DEF X, Z
  <2>3. QED
    BY <2>1, <2>2 DEF Indexed
<1>8. CASE p.hosts[h] # None
  <2>1. FindingsAgree(X, Y, m.hosts, p.scans)
    <3>1. ScannedRow(HostedRow(x, m.hosts), p.scans) = x
      BY <1>3, <1>5, <1>8 DEF ScannedRow, HostedRow, Gone
    <3>2. QED
      BY <1>1, <1>2, <3>1 DEF FindingsAgree
  <2>2. OutboxAgrees(m.outbox, p.outbox, Y)
    <3> SUFFICES ASSUME NEW t \in Targets, NEW i \in DOMAIN m.outbox[t]
                 PROVE  DeliveredRow(m.outbox[t][i], Y) = DeliveredRow(m.outbox[t][i], p.obs)
      BY <1>1 DEF OutboxAgrees, QueueAgrees
    <3>1. m.outbox[t][i] # None => m.outbox[t][i].obs # o
      BY <1>1 DEF OutboxRefs
    <3>2. QED
      BY <1>2, <3>1 DEF DeliveredRow
  <2> HIDE DEF X, Y, Z
  <2>3. Meets(u, v, e, n)
    BY <1>6, <1>7, <2>1, <2>2, ObsIndexed
  <2>4. u \in Store /\ v \in Store /\ u.obs = X /\ v.obs = Y
    <3>1. u \in Store /\ v \in Store
      BY <2>3 DEF Meets
    <3>2. QED
      BY <1>1, <3>1 DEF Store
  <2> HIDE DEF u, v
  <2>5. Meets(f, g, e, n)
    BY <1>6, <2>3, <2>4, ExportedAgrees DEF f, g
  <2>6. f.obs = X
    BY <2>4 DEF f, M!Exported, Store
  <2>7. QED
    BY <1>6, <1>8, <1>a, <1>b, <2>5, <2>6 DEF Agreed, a, b
<1>9. CASE p.hosts[h] = None
  <2>1. FindingsAgree(X, p.obs, m.hosts, p.scans)
    <3>1. ScannedRow(HostedRow(x, m.hosts), p.scans) = None
      BY <1>3, <1>5, <1>9 DEF ScannedRow, HostedRow, Gone
    <3>2. QED
      BY <1>1, <1>2, <1>4, <3>1 DEF FindingsAgree
  <2> HIDE DEF X, Y, Z
  <2>2. Meets(u, [p EXCEPT !.obs = p.obs], e, n)
    BY <1>1, <1>2, <1>6, <1>7, <2>1, ObsIndexed
  <2>3. [p EXCEPT !.obs = p.obs] = p
    BY <1>1, TableNames, Unwritten
  <2>4. u \in Store /\ u.obs = X /\ u.exports = m.exports
    <3>1. u \in Store
      BY <2>2 DEF Meets
    <3>2. QED
      BY <1>1, <3>1 DEF Store
  <2> HIDE DEF u, v
  <2>5. f = u
    BY <1>1, <1>9, <2>4, NothingExported DEF f
  <2>6. QED
    BY <1>6, <1>9, <1>a, <1>b, <2>2, <2>3, <2>4, <2>5 DEF Agreed, a, b
<1>10. QED
  BY <1>8, <1>9

-------------------------------------------------------------------------------
(* The audit log                                                             *)

\* The stores count with the same operator.
LEMMA SameCount ==
  \A S : M!Cardinality(S) = Cardinality(S) /\ P!Cardinality(S) = Cardinality(S)
BY Zenon DEF M!Cardinality, P!Cardinality, Cardinality

\* The events of S with fewer than c newer ones.
NewestOf(S, c) == {x \in S : Cardinality({y \in S : y.id > x.id}) < c}

\* The page of the log that Memory keeps.
LEMMA NewestPage ==
  ASSUME NEW S, NEW c
  PROVE  Page(S, Newer, c) = NewestOf(S, c)
BY DEF Page, Newer, NewestOf

\* When there are no more than c events, all are among the newest c.
LEMMA FewAreNewest ==
  ASSUME NEW S, IsFiniteSet(S), NEW c \in Nat, Cardinality(S) <= c, \A x \in S : x.id \in Nat
  PROVE  NewestOf(S, c) = S
<1>1. Cardinality(S) \in Nat
  BY FS_CardinalityType
<1>2. ASSUME NEW x \in S
      PROVE  Cardinality({y \in S : y.id > x.id}) < c
  <2> DEFINE R == {y \in S : y.id > x.id}
  <2>1. IsFiniteSet(S \ {x}) /\ Cardinality(S \ {x}) = Cardinality(S) - 1
    BY <1>2, FS_RemoveElement
  <2>2. R \in SUBSET (S \ {x})
    BY <1>2
  <2>3. Cardinality(R) <= Cardinality(S \ {x}) /\ Cardinality(R) \in Nat
    <3> HIDE DEF R
    <3>1. QED
      BY <2>1, <2>2, FS_Subset, FS_CardinalityType
  <2> HIDE DEF R
  <2>4. Cardinality(R) < c
    BY <1>1, <2>1, <2>3
  <2>5. QED
    BY <2>4 DEF R
<1>3. QED
  BY <1>2 DEF NewestOf

\* Events that are numbered up to c are all among the newest c.
LEMMA AllAreNewest ==
  ASSUME NEW S, IsFiniteSet(S), NEW k \in Nat, NEW c \in Nat, k <= c,
         \A x \in S : x.id \in 1..k, \A x, y \in S : x.id = y.id => x = y
  PROVE  NewestOf(S, c) = S
<1> DEFINE f == [x \in S |-> x.id]
<1>1. IsFiniteSet(1..k) /\ Cardinality(1..k) = k
  BY FS_Interval
<1>2. Cardinality(S) \in Nat
  BY FS_CardinalityType
<1>3. f \in [S -> 1..k]
  OBVIOUS
<1>4. ASSUME Cardinality(1..k) < Cardinality(S) PROVE FALSE
  <2>1. PICK x, y \in S : x # y /\ f[x] = f[y]
    <3> HIDE DEF f
    <3>1. QED
      BY <1>1, <1>3, <1>4, FS_PigeonHole
  <2>2. QED
    BY <2>1
<1>5. Cardinality(S) <= c
  BY <1>1, <1>2, <1>4
<1>6. QED
  BY <1>5, FewAreNewest

\* A newer event is appended: the newest are the newest of those that were kept, and it.
LEMMA NewestAppended ==
  ASSUME NEW S, IsFiniteSet(S), NEW c \in Nat, NEW v, \A x \in S : x.id \in Nat /\ x.id < v.id,
         v.id \in Nat
  PROVE  NewestOf(NewestOf(S, c) \cup {v}, c) = NewestOf(S \cup {v}, c)
<1> DEFINE T == NewestOf(S, c)
           In(x) == {y \in T \cup {v} : y.id > x.id}
           All(x) == {y \in S \cup {v} : y.id > x.id}
           Old(x) == {y \in S : y.id > x.id}
<1>1. \A x \in S : IsFiniteSet(Old(x)) /\ Cardinality(Old(x)) \in Nat
  <2> SUFFICES ASSUME NEW x \in S
               PROVE  IsFiniteSet(Old(x)) /\ Cardinality(Old(x)) \in Nat
    OBVIOUS
  <2>1. Old(x) \in SUBSET S
    OBVIOUS
  <2> HIDE DEF Old
  <2>2. QED
    BY <2>1, FS_Subset, FS_CardinalityType
<1>2. T \subseteq S /\ \A x \in S : x \in T <=> Cardinality(Old(x)) < c
  BY DEF NewestOf
<1>3. ASSUME NEW x \in T
      PROVE  Old(x) \subseteq T
  <2> SUFFICES ASSUME NEW y \in Old(x) PROVE y \in T
    OBVIOUS
  <2>1. x \in S /\ y \in S /\ y.id > x.id
    BY <1>2
  <2>2. Old(y) \subseteq Old(x)
    BY <2>1
  <2>3. Cardinality(Old(x)) < c /\ IsFiniteSet(Old(x)) /\ Cardinality(Old(x)) \in Nat
        /\ Cardinality(Old(y)) \in Nat
    <3> HIDE DEF Old, T
    <3>1. QED
      BY <1>1, <1>2, <2>1
  <2>4. Cardinality(Old(y)) <= Cardinality(Old(x))
    <3> HIDE DEF Old, T
    <3>1. QED
      BY <2>2, <2>3, FS_Subset
  <2>5. QED
    <3> HIDE DEF Old, T
    <3>1. QED
      BY <1>2, <2>1, <2>3, <2>4
<1>4. ASSUME NEW x \in T
      PROVE  In(x) = All(x)
  BY <1>2, <1>3
<1>5. In(v) = {} /\ All(v) = {}
  BY <1>2
<1>6. ASSUME NEW x \in S, Cardinality(All(x)) < c
      PROVE  x \in T
  <2>1. IsFiniteSet(All(x)) /\ Cardinality(All(x)) \in Nat
    <3>1. IsFiniteSet(S \cup {v}) /\ All(x) \in SUBSET (S \cup {v})
      BY FS_AddElement
    <3> HIDE DEF All
    <3>2. QED
      BY <3>1, FS_Subset, FS_CardinalityType
  <2>2. Old(x) \subseteq All(x)
    OBVIOUS
  <2>3. Cardinality(Old(x)) <= Cardinality(All(x))
    <3> HIDE DEF Old, All
    <3>1. QED
      BY <2>1, <2>2, FS_Subset
  <2> HIDE DEF Old, All, T
  <2>4. QED
    BY <1>1, <1>2, <1>6, <2>1, <2>3
<1>7. NewestOf(T \cup {v}, c) = {x \in T \cup {v} : Cardinality(In(x)) < c}
  BY DEF NewestOf
<1>8. NewestOf(S \cup {v}, c) = {x \in S \cup {v} : Cardinality(All(x)) < c}
  BY DEF NewestOf
<1> HIDE DEF T, In, All, Old
<1>9. \A x : x \in {i \in T \cup {v} : Cardinality(In(i)) < c}
               <=> x \in {i \in S \cup {v} : Cardinality(All(i)) < c}
  <2> SUFFICES ASSUME NEW x
               PROVE  (x \in T \cup {v} /\ Cardinality(In(x)) < c)
                        <=> (x \in S \cup {v} /\ Cardinality(All(x)) < c)
    OBVIOUS
  <2>1. CASE x = v
    BY <1>5, <2>1
  <2>2. CASE x # v /\ x \in T
    BY <1>2, <1>4, <2>2
  <2>3. CASE x # v /\ x \notin T
    BY <1>2, <1>6, <2>3
  <2>4. QED
    BY <2>1, <2>2, <2>3
<1>10. QED
  BY <1>7, <1>8, <1>9 DEF T

\* AppendAudit: Memory keeps the newest events of Postgres's log.
LEMMA AppendAuditAgrees ==
  ASSUME NEW m, NEW p, NEW d \in [DOMAIN Empty -> Nat], NEW n \in Nat, Meets(m, p, d, n),
         group = "retention" => d.audit + 1 <= AuditCap
  PROVE  Agreed(M!AppendAudit(m, d.audit + 1, n), P!AppendAudit(p, d.audit + 1, n),
                [d EXCEPT !.audit = d.audit + 1], n, FALSE)
<1> DEFINE e == d.audit + 1
           a == M!AppendAudit(m, e, n)
           b == P!AppendAudit(p, e, n)
           v == [id |-> e, ts |-> n]
           X == NewestOf(m.audit \cup {v}, AuditCap)
           Y == p.audit \cup {v}
           d2 == [d EXCEPT !.audit = e]
<1>0. d.audit \in Nat /\ e \in Nat /\ AuditCap \in Nat
  BY TableNames, StoreAssumption
<1>1. /\ m \in Store /\ p \in Store /\ m.audit = NewestOf(p.audit, AuditCap)
      /\ IsFiniteSet(p.audit) /\ \A i \in p.audit : i.id \in 1..d.audit /\ i.ts <= n
      /\ \A i, j \in p.audit : (i.id = j.id => i = j) /\ (i.id < j.id => i.ts <= j.ts)
      /\ p.audit \subseteq AuditRow
  BY NewestPage DEF Meets, Same, LogInOrder, Store
<1>a. a.db = [m EXCEPT !.audit = X] /\ a.out = "ok"
  <2> DEFINE A == m.audit \cup {[id |-> e, ts |-> n]}
  <2>0. a = M!Ok([m EXCEPT !.audit = {x \in A : M!Cardinality({y \in A : y.id > x.id}) < AuditCap}])
    BY DEF M!AppendAudit, M!Page
  <2>1. X = {x \in A : Cardinality({y \in A : y.id > x.id}) < AuditCap}
    BY DEF NewestOf
  <2>2. X = {x \in A : M!Cardinality({y \in A : y.id > x.id}) < AuditCap}
    BY <2>1, SameCount
  <2>3. a = M!Ok([m EXCEPT !.audit = X])
    BY <2>0, <2>2
  <2> HIDE DEF X
  <2>4. QED
    BY <2>3 DEF M!Ok
<1>b. b.db = [p EXCEPT !.audit = Y] /\ b.out = "ok"
  BY DEF P!AppendAudit, P!Ok
<1>v. v.id = e /\ v.ts = n /\ v \in AuditRow
  BY <1>0 DEF AuditRow
<1> HIDE DEF a, b, v
<1>2. X = NewestOf(Y, AuditCap)
  <2>1. \A x \in p.audit : x.id \in Nat /\ x.id < v.id
    BY <1>0, <1>1, <1>v
  <2>2. QED
    BY <1>0, <1>1, <1>v, <2>1, NewestAppended
<1>3. /\ IsFiniteSet(Y) /\ \A i \in Y : i.id \in 1..e /\ i.ts <= n
      /\ \A i, j \in Y : (i.id = j.id => i = j) /\ (i.id < j.id => i.ts <= j.ts)
  <2>1. IsFiniteSet(Y)
    BY <1>1, FS_AddElement
  <2>2. \A i \in p.audit : i.id \in Nat /\ i.id < e /\ i.id \in 1..e
    BY <1>0, <1>1
  <2>3. e \in 1..e /\ n <= n
    BY <1>0
  <2> HIDE DEF e
  <2>4. \A i \in Y : i.id \in 1..e /\ i.ts <= n
    BY <1>1, <1>v, <2>2, <2>3
  <2>5. \A i, j \in Y : (i.id = j.id => i = j) /\ (i.id < j.id => i.ts <= j.ts)
    <3> SUFFICES ASSUME NEW i \in Y, NEW j \in Y
                 PROVE  (i.id = j.id => i = j) /\ (i.id < j.id => i.ts <= j.ts)
      OBVIOUS
    <3>1. CASE i \in p.audit /\ j \in p.audit
      BY <1>1, <3>1
    <3>2. CASE i \in p.audit /\ j = v
      BY <1>0, <1>1, <1>v, <2>2, <3>2
    <3>3. CASE i = v /\ j \in p.audit
      BY <1>0, <1>v, <2>2, <3>3
    <3>4. CASE i = v /\ j = v
      BY <1>0, <1>v, <2>3, <3>4
    <3>5. QED
      BY <3>1, <3>2, <3>3, <3>4
  <2>6. QED
    BY <2>1, <2>4, <2>5
<1>4. X \in SUBSET AuditRow /\ Y \in SUBSET AuditRow
  <2>1. Y \in SUBSET AuditRow
    BY <1>1, <1>v
  <2>2. QED
    BY <1>2, <2>1 DEF NewestOf
<1>5. group = "retention" => X = Y /\ e <= AuditCap
  <2>1. group = "retention" => e <= AuditCap
    OBVIOUS
  <2> HIDE DEF X, Y, e
  <2>2. QED
    BY <1>0, <1>2, <1>3, <2>1, AllAreNewest
<1>6. /\ d2.audit = e
      /\ \A t \in DOMAIN Empty : t # "audit" => d2[t] = d[t]
  BY TableNames
<1>7. d2.hosts = d.hosts /\ d2.creds = d.creds /\ d2.colls = d.colls /\ d2.scheds = d.scheds
      /\ d2.users = d.users /\ d2.sessions = d.sessions /\ d2.scans = d.scans /\ d2.obs = d.obs
  BY <1>6, TableNames
<1> DEFINE m1 == [m EXCEPT !.audit = X]
           p1 == [p EXCEPT !.audit = Y]
<1> HIDE DEF X, Y, d2, e
<1>8. X = Page(Y, Newer, AuditCap)
  BY <1>2, NewestPage
<1>9. m1 \in Store /\ p1 \in Store /\ m1.audit = X /\ p1.audit = Y
  BY <1>1, <1>4 DEF Store
<1>10. Same(m1, p1)
  <2>1. Same(m, p)
    BY DEF Meets
  <2>2. QED
    BY <1>1, <1>8, <1>9, <2>1 DEF Same, Store
<1>11. Refs(m1, d2)
  <2>1. Refs(m, d)
    BY DEF Meets
  <2>2. QED
    BY <1>1, <1>7, <2>1 DEF Refs, HostRefs, MemberRefs, ScheduleRefs, SessionRefs, OutboxRefs,
       OfHosts, OfScans, Store
<1>12. Indexed(m1.obs, m1.dedup) /\ Addressed(m1) /\ Leased(m1) /\ Past(m1.scans, n)
  BY <1>1 DEF Meets, Addressed, Leased, Store
<1>13. LogInOrder(p1.audit, d2, n)
  BY <1>3, <1>6, <1>9 DEF LogInOrder
<1>14. GroupHolds(m1, p1, d2)
  BY <1>1, <1>5, <1>6, <1>7, <1>9 DEF Meets, GroupHolds, Store
<1>15. Meets(m1, p1, d2, n)
  BY <1>9, <1>10, <1>11, <1>12, <1>13, <1>14 DEF Meets
<1> HIDE DEF m1, p1
<1>16. QED
  BY <1>15, <1>a, <1>b DEF Agreed, a, b, d2, e, m1, p1

-------------------------------------------------------------------------------
(* Retention                                                                 *)

\* A cutoff of the two stores: at + a < n, at < n - a.
Old(at, a, n) == a > 0 /\ at + a < n

\* The rows that are as old as that, and the archive of a store.
OldFindings(db, a, n) ==
  {o \in Obs : db.obs[o] # None /\ db.obs[o].status \in Closed /\ Old(db.obs[o].seen, a, n)}
OldScans(db, a, n) == {s \in Scans : db.scans[s] # None /\ Old(db.scans[s].started, a, n)}
OldEvents(db, a, n) == {e \in db.audit : Old(e.ts, a, n)}
ArchiveOf(S, O, C, V, a, n) ==
  {r \in UNION {S, {[kind |-> "observation", id |-> i, at |-> n] : i \in O},
                {[kind |-> "scan", id |-> i, at |-> n] : i \in C},
                {[kind |-> "audit", id |-> i, at |-> n] : i \in {e.id : e \in V}}} : ~Old(r.at, a, n)}
Without(T, S) == [i \in DOMAIN T |-> IF i \in S THEN None ELSE T[i]]
Unindexed(T, O) ==
  [h \in Hosts |-> [k \in Keys |-> IF T[h][k] \in O THEN None ELSE T[h][k]]]

\* What Memory and Postgres write, in these terms.
LEMMA MemoryRetains ==
  ASSUME NEW m \in Store, NEW n \in Nat, NEW g \in [{"obs", "scans", "audit", "archive"} -> Nat]
  PROVE  LET O == OldFindings(m, g.obs, n)
             C == OldScans(m, g.scans, n)
             V == OldEvents(m, g.audit, n)
         IN M!ApplyRetention(m, g, n) =
              [db |-> [m EXCEPT !.obs = Without(m.obs, O), !.dedup = Unindexed(m.dedup, O),
                                !.scans = Without(m.scans, C), !.audit = m.audit \ V,
                                !.archive = ArchiveOf(m.archive, O, C, V, g.archive, n)],
               out |-> "ok"]
<1> DEFINE O == OldFindings(m, g.obs, n)
           C == OldScans(m, g.scans, n)
           V == OldEvents(m, g.audit, n)
           R(kind, ids) == {[kind |-> kind, id |-> i, at |-> n] : i \in ids}
           W == {r \in m.archive \cup R("observation", O) \cup R("scan", C)
                         \cup R("audit", {e.id : e \in V}) : ~Old(r.at, g.archive, n)}
<1>1. M!ApplyRetention(m, g, n) =
        M!Ok([m EXCEPT !.obs = [o \in Obs |-> IF o \in O THEN None ELSE m.obs[o]],
                       !.dedup = Unindexed(m.dedup, O),
                       !.scans = [s \in Scans |-> IF s \in C THEN None ELSE m.scans[s]],
                       !.audit = m.audit \ V, !.archive = W])
  BY DEF M!ApplyRetention, M!Exists, M!Archived, M!Closed, Closed, Old, OldFindings, OldScans,
     OldEvents,
     Unindexed
<1>2. W = ArchiveOf(m.archive, O, C, V, g.archive, n)
  <2> HIDE DEF O, C, V
  <2>1. QED
    BY DEF ArchiveOf
<1>3. /\ [o \in Obs |-> IF o \in O THEN None ELSE m.obs[o]] = Without(m.obs, O)
      /\ [s \in Scans |-> IF s \in C THEN None ELSE m.scans[s]] = Without(m.scans, C)
  <2> HIDE DEF O, C
  <2>1. QED
    BY DEF Without, Store
<1> HIDE DEF O, C, V, W
<1>4. QED
  BY <1>1, <1>2, <1>3 DEF M!Ok, O, C, V

\* What Postgres writes, in the same terms.
LEMMA PostgresRetains ==
  ASSUME NEW p \in Store, NEW n \in Nat, NEW g \in [{"obs", "scans", "audit", "archive"} -> Nat]
  PROVE  LET O == OldFindings(p, g.obs, n)
             C == OldScans(p, g.scans, n)
             V == OldEvents(p, g.audit, n)
         IN P!ApplyRetention(p, g, n) =
              [db |-> P!Cascade([p EXCEPT !.obs = Without(p.obs, O), !.scans = Without(p.scans, C),
                                          !.audit = p.audit \ V,
                                          !.archive = ArchiveOf(p.archive, O, C, V, g.archive, n)]),
               out |-> "ok"]
<1> DEFINE O == OldFindings(p, g.obs, n)
           C == OldScans(p, g.scans, n)
           V == OldEvents(p, g.audit, n)
           Early(at, a) == a > 0 /\ at < n - a
           O2 == {o \in Obs : p.obs[o] # None /\ Early(p.obs[o].seen, g.obs)
                              /\ p.obs[o].status \in Closed}
           C2 == {s \in Scans : p.scans[s] # None /\ Early(p.scans[s].started, g.scans)}
           V2 == {e \in p.audit : Early(e.ts, g.audit)}
           R(kind, ids) == {[kind |-> kind, id |-> i, at |-> n] : i \in ids}
           S(x, y, z) == UNION {p.archive, R("observation", x), R("scan", y),
                                R("audit", {e.id : e \in z})}
           W2 == {r \in S(O2, C2, V2) : ~Early(r.at, g.archive)}
           W == {r \in S(O, C, V) : ~Early(r.at, g.archive)}
<1>1. P!ApplyRetention(p, g, n) =
        P!Ok(P!Cascade([p EXCEPT !.obs = [o \in Obs |-> IF o \in O2 THEN None ELSE p.obs[o]],
                       !.scans = [s \in Scans |-> IF s \in C2 THEN None ELSE p.scans[s]],
                       !.audit = p.audit \ V2, !.archive = W2]))
  BY DEF P!ApplyRetention, P!Exists, P!Closed, Closed
<1>t. /\ p.obs \in [Obs -> OrNone(FindingRow)] /\ p.scans \in [Scans -> OrNone(ScanRow)]
      /\ p.audit \subseteq AuditRow /\ p.archive \subseteq ArchiveRow
  BY DEF Store
<1>g. g.obs \in Nat /\ g.scans \in Nat /\ g.audit \in Nat /\ g.archive \in Nat
  OBVIOUS
<1>c. \A at, a \in Nat : Early(at, a) <=> Old(at, a, n)
  BY DEF Old
<1> HIDE DEF Early
<1>2. O2 = O
  <2>1. \A o \in Obs : p.obs[o] # None => p.obs[o].seen \in Nat
    BY <1>t DEF OrNone, FindingRow
  <2>2. QED
    BY <1>c, <1>g, <2>1 DEF OldFindings
<1>3. C2 = C
  <2>1. \A s \in Scans : p.scans[s] # None => p.scans[s].started \in Nat
    BY <1>t DEF OrNone, ScanRow
  <2>2. QED
    BY <1>c, <1>g, <2>1 DEF OldScans
<1>4. V2 = V
  <2>1. \A e \in p.audit : e.ts \in Nat
    BY <1>t DEF AuditRow
  <2>2. QED
    BY <1>c, <1>g, <2>1 DEF OldEvents
<1> HIDE DEF O2, C2, V2, O, C, V
<1>5. W2 = W
  BY <1>2, <1>3, <1>4
<1>6. W = ArchiveOf(p.archive, O, C, V, g.archive, n)
  <2> DEFINE U == S(O, C, V)
  <2>1. \A r \in p.archive : r.at \in Nat
    BY <1>t DEF ArchiveRow
  <2>2. \A r \in R("observation", O) \cup R("scan", C) \cup R("audit", {e.id : e \in V}) : r.at \in Nat
    OBVIOUS
  <2>3. \A r \in U : r.at \in Nat
    BY <2>1, <2>2
  <2>4. ArchiveOf(p.archive, O, C, V, g.archive, n) = {r \in U : ~Old(r.at, g.archive, n)}
    BY DEF ArchiveOf
  <2> HIDE DEF U, R
  <2>5. {r \in U : ~Early(r.at, g.archive)} = {r \in U : ~Old(r.at, g.archive, n)}
    BY <1>c, <1>g, <2>3
  <2>6. QED
    BY <2>4, <2>5 DEF U
<1>7. /\ [o \in Obs |-> IF o \in O2 THEN None ELSE p.obs[o]] = Without(p.obs, O)
      /\ [s \in Scans |-> IF s \in C2 THEN None ELSE p.scans[s]] = Without(p.scans, C)
  BY <1>2, <1>3, <1>t DEF Without
<1> HIDE DEF W, W2
<1>8. QED
  BY <1>1, <1>4, <1>5, <1>6, <1>7 DEF P!Ok, O, C, V

\* An archive that rows are added to and taken from is an archive.
LEMMA ArchiveTyped ==
  ASSUME NEW S \in SUBSET ArchiveRow, NEW O \in SUBSET Obs, NEW C \in SUBSET Scans,
         NEW V \in SUBSET AuditRow, NEW a, NEW n \in Nat
  PROVE  ArchiveOf(S, O, C, V, a, n) \in SUBSET ArchiveRow
<1>1. Obs \subseteq Nat /\ Scans \subseteq Nat
  BY StoreAssumption
<1>2. \A e \in V : e.id \in Nat
  BY DEF AuditRow
<1>3. QED
  BY <1>1, <1>2 DEF ArchiveOf, ArchiveRow

\* While no host is deleted and nothing exported, the same rows grow old in both stores.
LEMMA SameGrowOld ==
  ASSUME NEW m, NEW p, NEW d, NEW n \in Nat, Meets(m, p, d, n), group = "retention", NEW a
  PROVE  /\ OldFindings(p, a, n) = OldFindings(m, a, n)
         /\ OldScans(p, a, n) = OldScans(m, a, n)
         /\ OldEvents(p, a, n) = OldEvents(m, a, n)
<1>1. /\ m.obs \in [Obs -> OrNone(FindingRow)] /\ m.scans \in [Scans -> OrNone(ScanRow)]
      /\ FindingsAgree(m.obs, p.obs, m.hosts, p.scans) /\ HostedAgree(m.scans, p.scans, Scans, m.hosts)
      /\ OfHosts(m.obs, d) /\ OfHosts(m.scans, d)
      /\ \A h \in Hosts : h <= d.hosts => m.hosts[h] # None
      /\ m.audit = p.audit
  BY DEF Meets, Same, Refs, GroupHolds, Store
<1>2. ASSUME NEW s \in Scans
      PROVE  p.scans[s] = m.scans[s]
  <2>1. m.scans[s] # None => m.hosts[m.scans[s].host] # None
    BY <1>1 DEF OfHosts, OrNone, ScanRow
  <2>2. QED
    BY <1>1, <2>1 DEF HostedAgree, HostedRow, Gone
<1>3. ASSUME NEW o \in Obs
      PROVE  /\ p.obs[o] = None <=> m.obs[o] = None
             /\ m.obs[o] # None => p.obs[o].status = m.obs[o].status /\ p.obs[o].seen = m.obs[o].seen
  <2>1. m.obs[o] # None => m.hosts[m.obs[o].host] # None
    BY <1>1 DEF OfHosts, OrNone, FindingRow
  <2>2. p.obs[o] = ScannedRow(m.obs[o], p.scans)
    BY <1>1, <2>1 DEF FindingsAgree, HostedRow, Gone
  <2>3. m.obs[o] # None => p.obs[o] \in FindingRow /\ p.obs[o].status = m.obs[o].status
                           /\ p.obs[o].seen = m.obs[o].seen
    BY <1>1, <2>2 DEF ScannedRow, OrNone, FindingRow
  <2>4. QED
    BY <2>2, <2>3, NoneIsNothing DEF ScannedRow
<1>4. QED
  BY <1>1, <1>2, <1>3 DEF OldFindings, OldScans, OldEvents

\* ApplyRetention: both delete and archive the same rows.
LEMMA ApplyRetentionAgrees ==
  ASSUME NEW m, NEW p, NEW d, NEW n \in Nat, Meets(m, p, d, n), group = "retention",
         d.audit \in Nat, NEW g \in [{"obs", "scans", "audit", "archive"} -> Nat]
  PROVE  Agreed(M!ApplyRetention(m, g, n), P!ApplyRetention(p, g, n), d, n, FALSE)
<1> DEFINE O == OldFindings(m, g.obs, n)
           C == OldScans(m, g.scans, n)
           V == OldEvents(m, g.audit, n)
           W == ArchiveOf(m.archive, O, C, V, g.archive, n)
           X == Without(m.obs, O)
           Y == Without(p.obs, O)
           Z == Unindexed(m.dedup, O)
           T == Without(m.scans, C)
           U == Without(p.scans, C)
           A == p.audit \ V
           m1 == [m EXCEPT !.obs = X, !.dedup = Z, !.scans = T, !.audit = A, !.archive = W]
           p1 == [p EXCEPT !.obs = Y, !.scans = U, !.audit = A, !.archive = W]
           k == P!Cascade(p1)
<1>1. /\ m \in Store /\ p \in Store /\ Same(m, p)
      /\ m.obs \in [Obs -> OrNone(FindingRow)] /\ p.obs \in [Obs -> OrNone(FindingRow)]
      /\ m.scans \in [Scans -> OrNone(ScanRow)] /\ p.scans \in [Scans -> OrNone(ScanRow)]
      /\ m.dedup \in [Hosts -> [Keys -> OrNone(Obs)]]
      /\ m.audit = p.audit /\ m.archive = p.archive
      /\ p.audit \in SUBSET AuditRow /\ m.archive \in SUBSET ArchiveRow
      /\ FindingsAgree(m.obs, p.obs, m.hosts, p.scans) /\ HostedAgree(m.scans, p.scans, Scans, m.hosts)
      /\ OfHosts(m.obs, d) /\ OfScans(m.obs, d) /\ OfHosts(m.scans, d)
      /\ Numbered(m.obs, d.obs) /\ Numbered(m.scans, d.scans)
      /\ Indexed(m.obs, m.dedup) /\ Past(m.scans, n) /\ LogInOrder(p.audit, d, n)
      /\ d.audit <= AuditCap /\ AuditCap \in Nat
      /\ \A t \in Targets : m.exports[t] = None
  BY StoreAssumption DEF Meets, Same, Refs, GroupHolds, Store
<1>a. M!ApplyRetention(m, g, n) = [db |-> m1, out |-> "ok"]
  BY <1>1, MemoryRetains
<1>b. P!ApplyRetention(p, g, n) = [db |-> k, out |-> "ok"]
  <2>1. /\ OldFindings(p, g.obs, n) = O /\ OldScans(p, g.scans, n) = C
        /\ OldEvents(p, g.audit, n) = V
    BY SameGrowOld
  <2>2. LET Q == OldFindings(p, g.obs, n)
            R == OldScans(p, g.scans, n)
            S == OldEvents(p, g.audit, n)
        IN P!ApplyRetention(p, g, n) =
             [db |-> P!Cascade([p EXCEPT !.obs = Without(p.obs, Q), !.scans = Without(p.scans, R),
                                         !.audit = p.audit \ S,
                                         !.archive = ArchiveOf(p.archive, Q, R, S, g.archive, n)]),
              out |-> "ok"]
    BY <1>1, PostgresRetains
  <2>3. p.archive = m.archive
    BY <1>1
  <2> HIDE DEF O, C, V
  <2>4. QED
    BY <2>1, <2>2, <2>3
<1>2. O \in SUBSET Obs /\ C \in SUBSET Scans /\ V \in SUBSET AuditRow
  BY <1>1 DEF OldFindings, OldScans, OldEvents
<1> HIDE DEF O, C, V
<1>3. W \in SUBSET ArchiveRow
  BY <1>1, <1>2, ArchiveTyped
<1> HIDE DEF W
<1>4. /\ X \in [Obs -> OrNone(FindingRow)] /\ Y \in [Obs -> OrNone(FindingRow)]
      /\ T \in [Scans -> OrNone(ScanRow)] /\ U \in [Scans -> OrNone(ScanRow)]
      /\ Z \in [Hosts -> [Keys -> OrNone(Obs)]]
  BY <1>1 DEF Without, Unindexed, OrNone
<1>5. /\ \A o \in Obs : X[o] = IF o \in O THEN None ELSE m.obs[o]
      /\ \A o \in Obs : Y[o] = IF o \in O THEN None ELSE p.obs[o]
      /\ \A s \in Scans : T[s] = IF s \in C THEN None ELSE m.scans[s]
      /\ \A s \in Scans : U[s] = IF s \in C THEN None ELSE p.scans[s]
      /\ \A h \in Hosts : \A x \in Keys : Z[h][x] = IF m.dedup[h][x] \in O THEN None ELSE m.dedup[h][x]
  BY <1>1 DEF Without, Unindexed
<1>6. /\ FindingsAgree(X, Y, m.hosts, p.scans) /\ HostedAgree(T, U, Scans, m.hosts)
      /\ \A s \in Scans : p.scans[s] = None => U[s] = None
      /\ \A o \in Obs : p.obs[o] = None => Y[o] = None
  <2> HIDE DEF X, Y, T, U
  <2>1. QED
    BY <1>1, <1>5 DEF FindingsAgree, HostedAgree, HostedRow, ScannedRow
<1>7. /\ OfHosts(X, d) /\ OfScans(X, d) /\ OfHosts(T, d)
      /\ Numbered(X, d.obs) /\ Numbered(T, d.scans) /\ Past(T, n)
  <2> HIDE DEF X, Y, T, U
  <2>1. QED
    BY <1>1, <1>4, <1>5 DEF OfHosts, OfScans, Numbered, Past
<1>8. Indexed(X, Z)
  <2> HIDE DEF X, Z
  <2>1. ASSUME NEW h \in Hosts, NEW x \in Keys, Z[h][x] # None
        PROVE  X[Z[h][x]] # None /\ X[Z[h][x]].host = h /\ X[Z[h][x]].key = x
    <3>1. Z[h][x] = m.dedup[h][x] /\ m.dedup[h][x] \notin O /\ m.dedup[h][x] \in Obs
      BY <1>1, <1>5, <2>1 DEF OrNone
    <3>2. m.obs[m.dedup[h][x]] # None /\ m.obs[m.dedup[h][x]].host = h /\ m.obs[m.dedup[h][x]].key = x
      BY <1>1, <2>1, <3>1 DEF Indexed
    <3>3. QED
      BY <1>5, <3>1, <3>2
  <2>2. ASSUME NEW o \in Obs, X[o] # None
        PROVE  Z[X[o].host][X[o].key] = o
    <3>1. X[o] = m.obs[o] /\ o \notin O
      BY <1>5, <2>2
    <3>2. m.dedup[m.obs[o].host][m.obs[o].key] = o /\ m.obs[o].host \in Hosts /\ m.obs[o].key \in Keys
      BY <1>1, <2>2, <3>1 DEF Indexed, OrNone, FindingRow
    <3>3. QED
      BY <1>5, <3>1, <3>2
  <2>3. QED
    BY <2>1, <2>2 DEF Indexed
<1>9. LogInOrder(A, d, n) /\ A \in SUBSET AuditRow
  <2>1. IsFiniteSet(A)
    BY <1>1, FS_Subset DEF LogInOrder
  <2>2. QED
    BY <1>1, <2>1 DEF LogInOrder
<1>10. A = Page(A, Newer, AuditCap)
  <2> HIDE DEF A
  <2>1. IsFiniteSet(A) /\ \A x \in A : x.id \in 1..d.audit
    BY <1>9 DEF LogInOrder
  <2>2. \A x, y \in A : x.id = y.id => x = y
    BY <1>9 DEF LogInOrder
  <2>3. NewestOf(A, AuditCap) = A
    BY <1>1, <2>1, <2>2, AllAreNewest
  <2>4. QED
    BY <2>3, NewestPage
<1> HIDE DEF X, Y, Z, T, U, A
<1>11. /\ m1 \in Store /\ p1 \in Store
       /\ m1.obs = X /\ m1.dedup = Z /\ m1.scans = T /\ m1.audit = A /\ m1.archive = W
       /\ p1.obs = Y /\ p1.scans = U /\ p1.audit = A /\ p1.archive = W
       /\ m1.hosts = m.hosts /\ m1.creds = m.creds /\ m1.colls = m.colls /\ m1.members = m.members
       /\ m1.scheds = m.scheds /\ m1.rules = m.rules /\ m1.baselines = m.baselines
       /\ m1.inventories = m.inventories /\ m1.users = m.users /\ m1.sessions = m.sessions
       /\ m1.tokens = m.tokens /\ m1.exports = m.exports /\ m1.outbox = m.outbox
       /\ m1.jobs = m.jobs /\ m1.responses = m.responses
       /\ p1.hosts = p.hosts /\ p1.creds = p.creds /\ p1.colls = p.colls /\ p1.members = p.members
       /\ p1.scheds = p.scheds /\ p1.rules = p.rules /\ p1.baselines = p.baselines
       /\ p1.inventories = p.inventories /\ p1.users = p.users /\ p1.sessions = p.sessions
       /\ p1.tokens = p.tokens /\ p1.exports = p.exports /\ p1.outbox = p.outbox
       /\ p1.jobs = p.jobs /\ p1.responses = p.responses
  BY <1>1, <1>3, <1>4, <1>9 DEF Store
<1> HIDE DEF m1, p1
<1>12. Removed(m1, p1, m.hosts, m.creds, m.colls, m.users, p.scans, p.obs)
  <2>1. Addressed(m1)
    BY <1>1, <1>11 DEF Meets, Addressed
  <2>2. QED
    BY <1>1, <1>6, <1>10, <1>11, <2>1 DEF Removed, Same
<1>13. k \in Store /\ Same(m1, k) /\ k.audit = A
  BY <1>11, <1>12, CascadeMeets
<1> HIDE DEF k
<1>14. Refs(m1, d)
  <2>1. Refs(m, d)
    BY DEF Meets
  <2>2. QED
    BY <1>7, <1>11, <2>1 DEF Refs
<1>15. Indexed(m1.obs, m1.dedup) /\ Addressed(m1) /\ Leased(m1) /\ Past(m1.scans, n)
  BY <1>7, <1>8, <1>11 DEF Meets, Addressed, Leased
<1>16. LogInOrder(k.audit, d, n) /\ GroupHolds(m1, k, d)
  BY <1>9, <1>11, <1>13 DEF Meets, GroupHolds
<1>17. Meets(m1, k, d, n)
  BY <1>11, <1>13, <1>14, <1>15, <1>16 DEF Meets
<1>18. QED
  BY <1>a, <1>b, <1>17 DEF Agreed

-------------------------------------------------------------------------------
(* Steps                                                                     *)

\* Stores that agree still do later, and when further identities have been drawn.
LEMMA Later ==
  ASSUME NEW m, NEW p, NEW d \in [DOMAIN Empty -> Nat], NEW e \in [DOMAIN Empty -> Nat],
         NEW n \in Nat, NEW k \in Nat, Meets(m, p, d, n), n <= k,
         \A t \in DOMAIN Empty : d[t] <= e[t], e.audit = d.audit,
         group = "retention" => \A h \in Hosts : h <= e.hosts => m.hosts[h] # None
  PROVE  Meets(m, p, e, k)
<1>1. /\ m \in Store /\ p \in Store
      /\ Hosts \subseteq Nat /\ Creds \subseteq Nat /\ Colls \subseteq Nat /\ Scheds \subseteq Nat
      /\ Users \subseteq Nat /\ Sessions \subseteq Nat /\ Scans \subseteq Nat /\ Obs \subseteq Nat
  BY StoreAssumption DEF Meets
<1>2. /\ d.hosts \in Nat /\ d.creds \in Nat /\ d.colls \in Nat /\ d.scheds \in Nat
      /\ d.users \in Nat /\ d.sessions \in Nat /\ d.scans \in Nat /\ d.obs \in Nat
      /\ e.hosts \in Nat /\ e.creds \in Nat /\ e.colls \in Nat /\ e.scheds \in Nat
      /\ e.users \in Nat /\ e.sessions \in Nat /\ e.scans \in Nat /\ e.obs \in Nat
      /\ d.hosts <= e.hosts /\ d.creds <= e.creds /\ d.colls <= e.colls /\ d.scheds <= e.scheds
      /\ d.users <= e.users /\ d.sessions <= e.sessions /\ d.scans <= e.scans /\ d.obs <= e.obs
  BY TableNames
<1>le. /\ \A x \in Hosts : x <= d.hosts => x <= e.hosts
       /\ \A x \in Creds : x <= d.creds => x <= e.creds
       /\ \A x \in Colls : x <= d.colls => x <= e.colls
       /\ \A x \in Scheds : x <= d.scheds => x <= e.scheds
       /\ \A x \in Users : x <= d.users => x <= e.users
       /\ \A x \in Sessions : x <= d.sessions => x <= e.sessions
       /\ \A x \in Scans : x <= d.scans => x <= e.scans
       /\ \A x \in Obs : x <= d.obs => x <= e.obs
  <2>1. \A x, i, j \in Nat : x <= i /\ i <= j => x <= j
    OBVIOUS
  <2>2. QED
    BY <1>1, <1>2, <2>1
<1>3. Refs(m, d)
  BY DEF Meets
<1>t. /\ m.hosts \in [Hosts -> OrNone(HostRow)] /\ m.members \in [Colls -> SUBSET Hosts]
      /\ m.scheds \in [Scheds -> OrNone(SchedRow)] /\ m.sessions \in [Sessions -> OrNone(SessionRow)]
      /\ m.outbox \in [Targets -> Seq(OrNone(DeliveryRow))] /\ m.colls \in [Colls -> OrNone(CollRow)]
      /\ m.baselines \in [Hosts -> OrNone(HostRecord)] /\ m.inventories \in [Hosts -> OrNone(HostRecord)]
      /\ m.tokens \in [Tokens -> OrNone(TokenRow)] /\ m.scans \in [Scans -> OrNone(ScanRow)]
      /\ m.obs \in [Obs -> OrNone(FindingRow)] /\ m.jobs \in [Jobs -> OrNone(JobRow)]
      /\ m.responses \in [Actions -> OrNone(ActionRow)]
  BY <1>1 DEF Store
<1>4. HostRefs(m.hosts, e) /\ MemberRefs(m.members, e) /\ ScheduleRefs(m.scheds, e)
  <2>1. HostRefs(m.hosts, d) /\ MemberRefs(m.members, d) /\ ScheduleRefs(m.scheds, d)
    BY <1>3 DEF Refs
  <2>2. HostRefs(m.hosts, e)
    BY <1>le, <1>t, <2>1 DEF HostRefs, OrNone, HostRow
  <2>3. MemberRefs(m.members, e)
    BY <1>le, <1>t, <2>1 DEF MemberRefs
  <2>4. ScheduleRefs(m.scheds, e)
    BY <1>le, <1>t, <2>1 DEF ScheduleRefs, OrNone, SchedRow
  <2>5. QED
    BY <2>2, <2>3, <2>4
<1>5. SessionRefs(m.sessions, e) /\ OutboxRefs(m.outbox, e)
  <2>1. SessionRefs(m.sessions, d) /\ OutboxRefs(m.outbox, d)
    BY <1>3 DEF Refs
  <2>2. \A t \in Targets : \A i \in DOMAIN m.outbox[t] : m.outbox[t][i] \in OrNone(DeliveryRow)
    BY <1>t
  <2>3. QED
    BY <1>le, <1>t, <2>1, <2>2 DEF SessionRefs, OutboxRefs, OrNone, SessionRow, DeliveryRow
<1>6. ASSUME NEW T, NEW D, NEW R, T \in [D -> OrNone(R)], \A r \in R : r.host \in Hosts,
             OfHosts(T, d)
      PROVE  OfHosts(T, e)
  BY <1>le, <1>6 DEF OfHosts, OrNone
<1>7. /\ \A r \in HostRecord : r.host \in Hosts
      /\ \A r \in TokenRow : r.host \in Hosts
      /\ \A r \in ScanRow : r.host \in Hosts
      /\ \A r \in FindingRow : r.host \in Hosts /\ r.scan \in OrNone(Scans)
      /\ \A r \in JobRow : r.host \in Hosts /\ r.scan \in OrNone(Scans)
      /\ \A r \in ActionRow : r.host \in Hosts
  BY DEF HostRecord, TokenRow, ScanRow, FindingRow, JobRow, ActionRow
<1>8. /\ OfHosts(m.baselines, e) /\ OfHosts(m.inventories, e) /\ OfHosts(m.tokens, e)
      /\ OfHosts(m.scans, e) /\ OfHosts(m.obs, e) /\ OfHosts(m.jobs, e) /\ OfHosts(m.responses, e)
  <2>1. /\ OfHosts(m.baselines, d) /\ OfHosts(m.inventories, d) /\ OfHosts(m.tokens, d)
        /\ OfHosts(m.scans, d) /\ OfHosts(m.obs, d) /\ OfHosts(m.jobs, d) /\ OfHosts(m.responses, d)
    BY <1>3 DEF Refs
  <2>2. OfHosts(m.baselines, e) /\ OfHosts(m.inventories, e)
    BY <1>6, <1>7, <1>t, <2>1
  <2>3. OfHosts(m.tokens, e) /\ OfHosts(m.scans, e)
    BY <1>6, <1>7, <1>t, <2>1
  <2>4. OfHosts(m.obs, e) /\ OfHosts(m.jobs, e) /\ OfHosts(m.responses, e)
    BY <1>6, <1>7, <1>t, <2>1
  <2>5. QED
    BY <2>2, <2>3, <2>4
<1>9. OfScans(m.obs, e) /\ OfScans(m.jobs, e)
  <2>1. OfScans(m.obs, d) /\ OfScans(m.jobs, d)
    BY <1>3 DEF Refs
  <2>2. QED
    BY <1>le, <1>7, <1>t, <2>1 DEF OfScans, OrNone
<1>10. /\ Numbered(m.colls, e.colls) /\ Numbered(m.obs, e.obs) /\ Numbered(m.scans, e.scans)
       /\ Numbered(m.scheds, e.scheds) /\ Numbered(m.sessions, e.sessions)
  <2>1. /\ Numbered(m.colls, d.colls) /\ Numbered(m.obs, d.obs) /\ Numbered(m.scans, d.scans)
        /\ Numbered(m.scheds, d.scheds) /\ Numbered(m.sessions, d.sessions)
    BY <1>3 DEF Refs
  <2>2. QED
    BY <1>le, <1>t, <2>1 DEF Numbered
<1>11. Refs(m, e)
  BY <1>3, <1>4, <1>5, <1>8, <1>9, <1>10 DEF Refs
<1>12. LogInOrder(p.audit, e, k)
  <2>1. LogInOrder(p.audit, d, n) /\ \A x \in p.audit : x.ts \in Nat
    BY <1>1 DEF Meets, Store, AuditRow
  <2>2. QED
    BY <2>1 DEF LogInOrder
<1>13. Past(m.scans, k)
  <2>1. Past(m.scans, n) /\ \A s \in Scans : m.scans[s] # None => m.scans[s].started \in Nat
    BY <1>t DEF Meets, OrNone, ScanRow
  <2>2. QED
    BY <2>1 DEF Past
<1>14. GroupHolds(m, p, e)
  BY DEF Meets, GroupHolds
<1>15. QED
  BY <1>11, <1>12, <1>13, <1>14 DEF Meets

\* Where the rows of each table are.
LEMMA EmptyTables ==
  /\ DOMAIN Empty.hosts = Hosts /\ DOMAIN Empty.creds = Creds /\ DOMAIN Empty.colls = Colls
  /\ DOMAIN Empty.scheds = Scheds /\ DOMAIN Empty.users = Users
  /\ DOMAIN Empty.sessions = Sessions /\ DOMAIN Empty.tokens = Tokens
  /\ DOMAIN Empty.scans = Scans /\ DOMAIN Empty.obs = Obs /\ DOMAIN Empty.exports = Targets
  /\ DOMAIN Empty.jobs = Jobs /\ DOMAIN Empty.responses = Actions
BY DEF Empty, NoRows

\* The stores meet at first.
LEMMA InitMeets ==
  Init => IInv
<1> SUFFICES ASSUME Init PROVE IInv
  OBVIOUS
<1> DEFINE z == [t \in DOMAIN Empty |-> 0]
<1>1. group \in Groups /\ mem = Empty /\ pg = Empty /\ now = 1 /\ drawn = z /\ last = None
  BY DEF Init
<1>2. Drawn
  <2>1. \A t \in Numbers : t \in DOMAIN Empty
    BY TableNames DEF Numbers
  <2>2. drawn = z /\ \A t \in DOMAIN Empty : drawn[t] = 0
    BY <1>1
  <2> HIDE DEF z
  <2>3. drawn \in [DOMAIN Empty -> Nat]
    BY <2>2 DEF z
  <2>4. QED
    BY <2>1, <2>2, <2>3 DEF Drawn
<1>3. Empty \in Store
  BY DEF Empty, Store, NoRows, OrNone
<1>4. /\ Empty.hosts = NoRows(Hosts) /\ Empty.creds = NoRows(Creds) /\ Empty.colls = NoRows(Colls)
      /\ Empty.members = [c \in Colls |-> {}] /\ Empty.scheds = NoRows(Scheds)
      /\ Empty.baselines = NoRows(Hosts) /\ Empty.inventories = NoRows(Hosts)
      /\ Empty.users = NoRows(Users) /\ Empty.sessions = NoRows(Sessions)
      /\ Empty.tokens = NoRows(Tokens) /\ Empty.scans = NoRows(Scans) /\ Empty.obs = NoRows(Obs)
      /\ Empty.exports = NoRows(Targets) /\ Empty.outbox = [t \in Targets |-> <<>>]
      /\ Empty.jobs = NoRows(Jobs) /\ Empty.responses = NoRows(Actions) /\ Empty.audit = {}
      /\ Empty.dedup = [h \in Hosts |-> NoRows(Keys)]
  BY DEF Empty
<1>5. Same(Empty, Empty)
  <2> DEFINE e == Empty
  <2>1. {} = Page({}, Newer, AuditCap)
    BY DEF Page
  <2>2. /\ HostsAgree(e.hosts, e.hosts, e.creds) /\ MembersAgree(e.members, e.members, e.colls, e.hosts)
        /\ SchedsAgree(e.scheds, e.scheds, e.hosts, e.colls) /\ SessionsAgree(e.sessions, e.sessions, e.users)
    BY <1>4 DEF HostsAgree, MembersAgree, SchedsAgree, SessionsAgree, UnlinkedRow, ScheduledRow,
       SignedInRow, NoRows
  <2>3. \A D, T, H : T = NoRows(D) => HostedAgree(T, T, D, H)
    BY DEF HostedAgree, HostedRow, NoRows
  <2>4. /\ FindingsAgree(e.obs, e.obs, e.hosts, e.scans) /\ JobsAgree(e.jobs, e.jobs, e.hosts, e.scans)
        /\ OutboxAgrees(e.outbox, e.outbox, e.obs)
    BY <1>4 DEF FindingsAgree, JobsAgree, OutboxAgrees, QueueAgrees, HostedRow, ScannedRow, NoRows
  <2>5. QED
    BY <1>4, <2>1, <2>2, <2>3, <2>4 DEF Same
<1>6. Refs(Empty, z)
  BY <1>4 DEF Refs, HostRefs, MemberRefs, ScheduleRefs, SessionRefs, OutboxRefs, OfHosts, OfScans,
     Numbered, OwnRecords, NoRows
<1>7. Indexed(Empty.obs, Empty.dedup) /\ Addressed(Empty) /\ Leased(Empty)
  BY <1>4 DEF Indexed, Addressed, Leased, HeldByLease, DueAtTime, NoRows
<1>8. LogInOrder(Empty.audit, z, 1) /\ Past(Empty.scans, 1)
  BY <1>4, FS_EmptySet DEF LogInOrder, Past, NoRows
<1>9. GroupHolds(Empty, Empty, z)
  <2>1. z.hosts = 0 /\ z.audit = 0 /\ AuditCap \in Nat
    BY TableNames, StoreAssumption
  <2>2. \A h \in Hosts : h <= 0 => Empty.hosts[h] # None
    <3>1. \A h \in Hosts : h \in Nat /\ h # 0
      BY StoreAssumption
    <3>2. QED
      BY <3>1
  <2>3. QED
    BY <1>4, <2>1, <2>2 DEF GroupHolds, NoRows
<1>10. QED
  BY <1>1, <1>2, <1>3, <1>5, <1>6, <1>7, <1>8, <1>9 DEF IInv, Meets, AnswersAgree

\* An identity that has been drawn is one of its table.
LEMMA KnownIds ==
  ASSUME Drawn, NEW t \in Numbers, NEW i \in Known(t)
  PROVE  i \in DOMAIN Empty[t] /\ i \in Nat /\ i <= drawn[t]
<1>1. drawn[t] \in Nat /\ 1..drawn[t] \subseteq DOMAIN Empty[t]
  BY TableNames DEF Drawn, Numbers
<1>2. QED
  BY <1>1 DEF Known

\* The next identity of a table, and what has been drawn with it.
Up(t) == [drawn EXCEPT ![t] = @ + 1]
\* A number that is drawn is above all that were; those of the other tables stay.
LEMMA NextIds ==
  ASSUME Drawn, NEW t \in Numbers, NEW i, i = drawn[t] + 1, i \in DOMAIN Empty[t]
  PROVE  /\ i \in Nat /\ ~(i <= drawn[t]) /\ Up(t)[t] = i /\ i <= Up(t)[t]
         /\ \A u \in DOMAIN Empty : u # t => Up(t)[u] = drawn[u]
         /\ \A u \in DOMAIN Empty : drawn[u] <= Up(t)[u]
         /\ Up(t) \in [DOMAIN Empty -> Nat]
         /\ \A u \in Numbers : 1..Up(t)[u] \subseteq DOMAIN Empty[u]
<1> DEFINE e == Up(t)
<1>1. /\ drawn \in [DOMAIN Empty -> Nat] /\ t \in DOMAIN Empty /\ drawn[t] \in Nat
      /\ \A u \in Numbers : u \in DOMAIN Empty /\ drawn[u] \in Nat /\ 1..drawn[u] \subseteq DOMAIN Empty[u]
  BY TableNames DEF Drawn, Numbers
<1>2. i \in Nat /\ ~(i <= drawn[t]) /\ i <= i /\ drawn[t] <= i
  BY <1>1
<1>3. e[t] = i /\ \A u \in DOMAIN Empty : u # t => e[u] = drawn[u]
  BY <1>1 DEF Up
<1>4. e \in [DOMAIN Empty -> Nat]
  BY <1>1, <1>2 DEF Up
<1> HIDE DEF e
<1>5. \A u \in DOMAIN Empty : drawn[u] <= e[u]
  <2>1. \A u \in DOMAIN Empty : drawn[u] \in Nat
    BY <1>1
  <2>2. QED
    BY <1>2, <1>3, <2>1
<1>6. ASSUME NEW u \in Numbers
      PROVE  1..e[u] \subseteq DOMAIN Empty[u]
  <2>1. CASE u = t
    <3>1. 1..i = 1..drawn[t] \cup {i}
      BY <1>1
    <3>2. QED
      BY <1>1, <1>3, <2>1, <3>1
  <2>2. CASE u # t
    BY <1>1, <1>3, <2>2
  <2>3. QED
    BY <2>1, <2>2
<1>7. QED
  BY <1>2, <1>3, <1>4, <1>5, <1>6 DEF e

\* What agrees goes on to agree when an identity has been drawn: a host, once it is there.
LEMMA Upwards ==
  ASSUME Drawn, NEW t \in Numbers, drawn[t] + 1 \in DOMAIN Empty[t], NEW m, NEW p, NEW n \in Nat,
         Meets(m, p, drawn, n),
         t = "hosts" /\ group = "retention" => m.hosts[drawn.hosts + 1] # None
  PROVE  Meets(m, p, Up(t), n)
<1> DEFINE i == drawn[t] + 1
           e == Up(t)
<1>1. /\ i \in Nat /\ e[t] = i /\ \A u \in DOMAIN Empty : u # t => e[u] = drawn[u]
      /\ \A u \in DOMAIN Empty : drawn[u] <= e[u]
      /\ e \in [DOMAIN Empty -> Nat] /\ drawn \in [DOMAIN Empty -> Nat] /\ drawn[t] \in Nat
  BY NextIds, TableNames DEF Drawn, Numbers
<1>2. e.audit = drawn.audit
  BY <1>1, TableNames DEF Numbers
<1>3. ASSUME group = "retention", NEW h \in Hosts, h <= e.hosts
      PROVE  m.hosts[h] # None
  <2>1. \A x \in Hosts : x <= drawn.hosts => m.hosts[x] # None
    BY <1>3 DEF Meets, GroupHolds
  <2>2. CASE t # "hosts"
    BY <1>1, <1>3, <2>1, <2>2, TableNames
  <2>3. CASE t = "hosts"
    <3>1. h \in Nat /\ drawn.hosts \in Nat /\ h <= drawn.hosts + 1
      BY <1>1, <1>3, <2>3, StoreAssumption
    <3>2. h <= drawn.hosts \/ h = drawn.hosts + 1
      BY <3>1
    <3>3. QED
      BY <1>3, <2>1, <2>3, <3>2
  <2>4. QED
    BY <2>2, <2>3
<1> HIDE DEF e
<1>4. QED
  BY <1>1, <1>2, <1>3, Later DEF e

\* Agreement after a step, of which it is known that the group stays.
LEMMA MeetsNext ==
  ASSUME group' = group, NEW m, NEW p, NEW d, NEW n, Meets(m, p, d, n),
         mem' = m, pg' = p, drawn' = d, now' = n
  PROVE  Meets(mem, pg, drawn, now)'
BY DEF Meets, GroupHolds

\* A call to which the stores answer as they may keeps the invariant.
MayDiffer(why, a, b) ==
  \/ why = "gone" /\ b # "ok"
  \/ why = "revoked" /\ a = "ok" /\ b = "not found"
  \/ why = "taken" /\ a # "ok" /\ b # "ok"
  \/ why = "no such user" /\ a = "not found" /\ b = "ok"

\* A call whose effects and answers agree keeps the invariant, whatever numbers it drew.
LEMMA AnsweredKeeps ==
  ASSUME IInv, NEW a, NEW b, NEW why, Answered(a, b, why),
         a.out = b.out \/ MayDiffer(why, a.out, b.out),
         NEW d, drawn' = d, Meets(a.db, b.db, d, now),
         d \in [DOMAIN Empty -> Nat], \A t \in Numbers : 1..d[t] \subseteq DOMAIN Empty[t]
  PROVE  IInv'
<1>1. /\ mem' = a.db /\ pg' = b.db /\ group' = group /\ now' = now
      /\ last' = IF a.out = b.out THEN None ELSE [mem |-> a.out, pg |-> b.out, why |-> why]
  BY DEF Answered
<1>2. group' \in Groups /\ now' \in Nat
  BY <1>1 DEF IInv
<1>3. Meets(mem, pg, drawn, now)'
  BY <1>1, MeetsNext
<1>4. Drawn'
  BY DEF Drawn
<1>5. AnswersAgree'
  <2>1. CASE a.out = b.out
    BY <1>1, <2>1 DEF AnswersAgree
  <2>2. CASE a.out # b.out
    <3> DEFINE r == last'
    <3>1. r.mem = a.out /\ r.pg = b.out /\ r.why = why
      BY <1>1, <2>2
    <3>2. CASE why = "gone" /\ b.out # "ok"
      BY <3>1, <3>2 DEF AnswersAgree
    <3>3. CASE why = "revoked" /\ a.out = "ok" /\ b.out = "not found"
      BY <3>1, <3>3 DEF AnswersAgree
    <3>4. CASE why = "taken" /\ a.out # "ok" /\ b.out # "ok"
      BY <3>1, <3>4 DEF AnswersAgree
    <3>5. CASE why = "no such user" /\ a.out = "not found" /\ b.out = "ok"
      BY <3>1, <3>5 DEF AnswersAgree
    <3>6. QED
      BY <2>2, <3>2, <3>3, <3>4, <3>5 DEF MayDiffer
  <2>3. QED
    BY <2>1, <2>2
<1>6. QED
  BY <1>2, <1>3, <1>4, <1>5 DEF IInv

\* A call that names rows: Postgres may turn it down when one of them is gone.
LEMMA CallKeeps ==
  ASSUME IInv, NEW refs, NEW a, NEW b, Call(refs, a, b), NEW gone,
         Agreed(a, b, drawn, now, gone),
         gone => \E r \in refs : r[2] # None /\ pg[r[1]][r[2]] = None
  PROVE  IInv'
<1>1. Answered(a, b, Why(refs)) /\ drawn' = drawn
  BY DEF Call
<1>2. a.out = b.out \/ MayDiffer(Why(refs), a.out, b.out)
  BY DEF Agreed, MayDiffer, Why, Exists
<1>3. /\ drawn \in [DOMAIN Empty -> Nat] /\ \A t \in Numbers : 1..drawn[t] \subseteq DOMAIN Empty[t]
      /\ Meets(a.db, b.db, drawn, now)
  BY DEF IInv, Drawn, Agreed
<1>4. QED
  BY <1>1, <1>2, <1>3, AnsweredKeeps

\* A call that draws an identity when it writes a row.
LEMMA MakeKeeps ==
  ASSUME IInv, NEW t \in Numbers, NEW i \in Fresh(t), NEW refs, NEW a, NEW b, Make(t, refs, a, b),
         NEW gone, Agreed(a, b, Up(t), now, gone),
         a.db[t] = mem[t] => Meets(a.db, b.db, drawn, now),
         gone => \E r \in refs : r[2] # None /\ pg[r[1]][r[2]] = None
  PROVE  IInv'
<1>1. Answered(a, b, Why(refs)) /\ drawn' = IF a.db[t] = mem[t] /\ b.db[t] = pg[t] THEN drawn ELSE Up(t)
  BY DEF Make, Up
<1>2. a.out = b.out \/ MayDiffer(Why(refs), a.out, b.out)
  BY DEF Agreed, MayDiffer, Why, Exists
<1>3. Drawn /\ i = drawn[t] + 1 /\ i \in DOMAIN Empty[t] /\ Meets(a.db, b.db, Up(t), now)
  BY DEF IInv, Fresh, Allowed, Agreed
<1>4. Up(t) \in [DOMAIN Empty -> Nat] /\ \A u \in Numbers : 1..Up(t)[u] \subseteq DOMAIN Empty[u]
  BY <1>3, NextIds
<1>5. drawn \in [DOMAIN Empty -> Nat] /\ \A u \in Numbers : 1..drawn[u] \subseteq DOMAIN Empty[u]
  BY <1>3 DEF Drawn
<1>6. CASE drawn' = Up(t)
  BY <1>1, <1>2, <1>3, <1>4, <1>6, AnsweredKeeps
<1>7. CASE a.db[t] = mem[t] /\ drawn' = drawn
  BY <1>1, <1>2, <1>5, <1>7, AnsweredKeeps
<1>8. QED
  BY <1>1, <1>6, <1>7

\* The identities that calls name.
LEMMA Ids ==
  ASSUME IInv
  PROVE  /\ \A i \in Known("hosts") : i \in Hosts /\ i <= drawn.hosts
         /\ \A i \in Known("creds") : i \in Creds /\ i <= drawn.creds
         /\ \A i \in Known("colls") : i \in Colls /\ i <= drawn.colls
         /\ \A i \in Known("scheds") : i \in Scheds /\ i <= drawn.scheds
         /\ \A i \in Known("users") : i \in Users /\ i <= drawn.users
         /\ \A i \in Known("sessions") : i \in Sessions /\ i <= drawn.sessions
         /\ \A i \in Known("tokens") : i \in Tokens
         /\ \A i \in Known("scans") : i \in Scans /\ i <= drawn.scans
         /\ \A i \in Known("obs") : i \in Obs /\ i <= drawn.obs
         /\ \A i \in Known("exports") : i \in Targets
         /\ \A i \in Known("jobs") : i \in Jobs
         /\ \A i \in Known("responses") : i \in Actions
<1>1. Drawn
  BY DEF IInv
<1>2. \A t \in Numbers : \A i \in Known(t) : i \in DOMAIN Empty[t] /\ i <= drawn[t]
  BY <1>1, KnownIds
<1>3. QED
  BY <1>2, EmptyTables DEF Numbers

\* And those that they draw.
LEMMA FreshIds ==
  ASSUME IInv, NEW t \in Numbers, NEW i \in Fresh(t)
  PROVE  /\ i = drawn[t] + 1 /\ i \in DOMAIN Empty[t] /\ i \in Nat
         /\ ~(i <= drawn[t]) /\ i <= Up(t)[t]
         /\ t # "hosts" \/ group # "retention" => Meets(mem, pg, Up(t), now)
         /\ \A u \in DOMAIN Empty : u # t => Up(t)[u] = drawn[u]
<1>1. Drawn /\ Meets(mem, pg, drawn, now) /\ now \in Nat
  BY DEF IInv
<1>2. i = drawn[t] + 1 /\ i \in DOMAIN Empty[t]
  BY DEF Fresh, Allowed
<1>3. QED
  BY <1>1, <1>2, NextIds, Upwards

\* The clock.
LEMMA TickKeeps ==
  ASSUME IInv, Tick
  PROVE  IInv'
<1>1. /\ Meets(mem, pg, drawn, now) /\ now \in Nat /\ Drawn /\ group \in Groups
      /\ now' = now + 1 /\ last' = None /\ group' = group /\ mem' = mem /\ pg' = pg /\ drawn' = drawn
  BY DEF IInv, Tick
<1>2. Meets(mem, pg, drawn, now + 1)
  <2>1. drawn \in [DOMAIN Empty -> Nat] /\ now + 1 \in Nat /\ now <= now + 1
    BY <1>1 DEF Drawn
  <2>2. \A t \in DOMAIN Empty : drawn[t] <= drawn[t]
    <3>1. \A t \in DOMAIN Empty : drawn[t] \in Nat
      BY <2>1
    <3>2. QED
      BY <3>1
  <2>3. group = "retention" => \A h \in Hosts : h <= drawn.hosts => mem.hosts[h] # None
    BY <1>1 DEF Meets, GroupHolds
  <2>4. QED
    BY <1>1, <2>1, <2>2, <2>3, Later
<1>3. Meets(mem, pg, drawn, now)'
  BY <1>1, <1>2, MeetsNext
<1>4. Drawn'
  BY <1>1 DEF Drawn
<1>5. AnswersAgree'
  BY <1>1 DEF AnswersAgree
<1>6. now' \in Nat
  BY <1>1
<1>7. QED
  BY <1>1, <1>3, <1>4, <1>5, <1>6 DEF IInv

\* A call that names one row.
LEMMA CallNames ==
  ASSUME IInv, NEW t, NEW i, i # None, NEW a, NEW b, Call({<<t, i>>}, a, b),
         Agreed(a, b, drawn, now, pg[t][i] = None)
  PROVE  IInv'
<1>1. pg[t][i] = None => \E r \in {<<t, i>>} : r[2] # None /\ pg[r[1]][r[2]] = None
  OBVIOUS
<1>2. QED
  BY <1>1, CallKeeps

\* CreateHost, of a host that may name a credential, keeps the invariant.
LEMMA CreateHostKeeps ==
  ASSUME IInv, CreateHost
  PROVE  IInv'
<1>1. PICK h \in Fresh("hosts"), name \in {None, "given"}, cred \in Live("creds") \cup {None},
           tags \in SUBSET Tags :
        Make("hosts", {}, M!CreateHost(mem, h, NewHost(name, cred, tags)),
                          P!CreateHost(pg, h, NewHost(name, cred, tags)))
  BY DEF CreateHost
<1> DEFINE x == NewHost(name, cred, tags)
           a == M!CreateHost(mem, h, x)
           b == P!CreateHost(pg, h, x)
<1>2. /\ Meets(mem, pg, drawn, now) /\ Drawn /\ now \in Nat
      /\ h = drawn.hosts + 1 /\ h \in Hosts /\ ~(h <= drawn.hosts)
  BY FreshIds, EmptyTables DEF IInv, Numbers
<1>3. cred # None => cred \in Creds /\ cred <= drawn.creds /\ pg.creds[cred] # None
  BY Ids DEF Live, Exists
<1>4. x \in HostRow /\ x.cred = cred
  BY <1>3 DEF NewHost, HostRow, OrNone
<1> HIDE DEF x
<1>5. Agreed(a, b, drawn, now, FALSE) /\ a.db.hosts[h] # None
  BY <1>2, <1>3, <1>4, CreateHostAgrees
<1>6. Agreed(a, b, Up("hosts"), now, FALSE)
  BY <1>2, <1>5, EmptyTables, Upwards DEF Agreed, Numbers
<1>7. Make("hosts", {}, a, b)
  BY <1>1 DEF x
<1> HIDE DEF a, b
<1>8. QED
  BY <1>5, <1>6, <1>7, MakeKeeps DEF Agreed, Numbers

\* UpdateHost of the row each store has keeps it.
LEMMA UpdateHostKeeps ==
  ASSUME IInv, UpdateHost
  PROVE  IInv'
<1>1. PICK h \in Known("hosts"), tags \in SUBSET Tags :
        /\ mem.hosts[h] # None
        /\ Call({}, M!UpdateHost(mem, h, [mem.hosts[h] EXCEPT !.key = None, !.tags = tags]),
                    P!UpdateHost(pg, h, [pg.hosts[h] EXCEPT !.key = None, !.tags = tags]))
  BY DEF UpdateHost, Exists, M!GetHost, M!Row, P!GetHost, P!Row
<1> DEFINE a == M!UpdateHost(mem, h, [mem.hosts[h] EXCEPT !.key = None, !.tags = tags])
           b == P!UpdateHost(pg, h, [pg.hosts[h] EXCEPT !.key = None, !.tags = tags])
<1>2. h \in Hosts /\ Meets(mem, pg, drawn, now)
  BY Ids DEF IInv
<1>3. Agreed(a, b, drawn, now, FALSE)
  BY <1>1, <1>2, UpdateHostAgrees
<1>4. Call({}, a, b)
  BY <1>1
<1> HIDE DEF a, b
<1>5. QED
  BY <1>3, <1>4, CallKeeps

\* The three narrow writes of a host keep it: whether it is online, unreachable, its SSH key.
LEMMA SetHostKeeps ==
  ASSUME IInv, SetHost
  PROVE  IInv'
<1>1. PICK h \in Known("hosts") :
       \/ \E os \in {None, "linux"}, name \in {None, "reported"} :
            Call({<<"hosts", h>>}, M!SetHostOnline(mem, h, os, name),
                                   P!SetHostOnline(pg, h, os, name))
       \/ Call({<<"hosts", h>>}, M!SetHostUnreachable(mem, h), P!SetHostUnreachable(pg, h))
       \/ Call({<<"hosts", h>>}, M!SetHostSSHHostKey(mem, h, "pinned"),
                                 P!SetHostSSHHostKey(pg, h, "pinned"))
  BY DEF SetHost
<1>2. Meets(mem, pg, drawn, now) /\ h \in Hosts
  BY Ids DEF IInv
<1>3. CASE \E os \in {None, "linux"}, name \in {None, "reported"} :
             Call({<<"hosts", h>>}, M!SetHostOnline(mem, h, os, name),
                                    P!SetHostOnline(pg, h, os, name))
  <2>1. PICK os \in OrNone({"linux"}), name \in OrNone({"reported"}) :
          Call({<<"hosts", h>>}, M!SetHostOnline(mem, h, os, name), P!SetHostOnline(pg, h, os, name))
    BY <1>3 DEF OrNone
  <2>2. Agreed(M!SetHostOnline(mem, h, os, name), P!SetHostOnline(pg, h, os, name), drawn, now, FALSE)
    BY <1>2, SetHostOnlineAgrees
  <2>3. QED
    BY <2>1, <2>2, CallKeeps
<1>4. CASE Call({<<"hosts", h>>}, M!SetHostUnreachable(mem, h), P!SetHostUnreachable(pg, h))
  BY <1>2, <1>4, SetHostUnreachableAgrees, CallKeeps
<1>5. CASE Call({<<"hosts", h>>}, M!SetHostSSHHostKey(mem, h, "pinned"),
                                 P!SetHostSSHHostKey(pg, h, "pinned"))
  BY <1>2, <1>5, SetHostSSHHostKeyAgrees, CallKeeps
<1>6. QED
  BY <1>1, <1>3, <1>4, <1>5

\* DeleteHost keeps it, though only Postgres takes the rows of the host along.
LEMMA DeleteHostKeeps ==
  ASSUME IInv, DeleteHost
  PROVE  IInv'
<1>1. PICK h \in Known("hosts") :
        group # "retention" /\ Call({<<"hosts", h>>}, M!DeleteHost(mem, h), P!DeleteHost(pg, h))
  BY DEF DeleteHost
<1>2. QED
  BY <1>1, Ids, DeleteHostAgrees, CallKeeps DEF IInv

\* Creating and deleting credentials keeps it.
LEMMA CredentialsKeep ==
  ASSUME IInv, Credentials
  PROVE  IInv'
<1>1. ASSUME NEW c \in Fresh("creds"),
             Make("creds", {}, M!CreateCredential(mem, c), P!CreateCredential(pg, c))
      PROVE  IInv'
  <2> DEFINE a == M!CreateCredential(mem, c)
             b == P!CreateCredential(pg, c)
  <2>1. Meets(mem, pg, drawn, now) /\ Drawn /\ now \in Nat /\ c \in Creds /\ ~(c <= drawn.creds)
        /\ c = drawn.creds + 1
    BY FreshIds, EmptyTables DEF IInv, Numbers
  <2>2. Agreed(a, b, drawn, now, FALSE)
    BY <2>1, CreateCredentialAgrees
  <2> HIDE DEF a, b
  <2>3. Agreed(a, b, Up("creds"), now, FALSE)
    BY <2>1, <2>2, EmptyTables, Upwards DEF Agreed, Numbers
  <2>4. QED
    BY <1>1, <2>2, <2>3, MakeKeeps DEF Agreed, Numbers, a, b
<1>2. ASSUME NEW c \in Known("creds"),
             Call({}, M!DeleteCredential(mem, c), P!DeleteCredential(pg, c))
      PROVE  IInv'
  BY <1>2, Ids, DeleteCredentialAgrees, CallKeeps DEF IInv
<1>3. QED
  BY <1>1, <1>2 DEF Credentials

\* Collections and their members: each of their methods keeps it.
LEMMA CollectionsKeep ==
  ASSUME IInv, Collections
  PROVE  IInv'
<1>0. Meets(mem, pg, drawn, now) /\ Drawn /\ now \in Nat
  BY DEF IInv
<1>1. ASSUME NEW c \in Fresh("colls"), NEW dynamic \in BOOLEAN, NEW match \in SUBSET Tags,
             Make("colls", {}, M!CreateCollection(mem, c, [dynamic |-> dynamic, match |-> match]),
                               P!CreateCollection(pg, c, [dynamic |-> dynamic, match |-> match]))
      PROVE  IInv'
  <2> DEFINE x == [dynamic |-> dynamic, match |-> match]
             a == M!CreateCollection(mem, c, x)
             b == P!CreateCollection(pg, c, x)
  <2>1. c \in Colls /\ ~(c <= drawn.colls) /\ c <= Up("colls").colls /\ Meets(mem, pg, Up("colls"), now)
    BY FreshIds, EmptyTables DEF Numbers
  <2>2. x \in CollRow
    BY DEF CollRow
  <2>3. Make("colls", {}, a, b)
    BY <1>1
  <2> HIDE DEF x
  <2>4. Agreed(a, b, Up("colls"), now, FALSE) /\ a.db.colls # mem.colls
    BY <1>0, <2>1, <2>2, CreateCollectionAgrees
  <2> HIDE DEF a, b
  <2>5. QED
    BY <2>3, <2>4, MakeKeeps DEF Numbers
<1>2. ASSUME NEW c \in Known("colls"), NEW match \in SUBSET Tags,
             Call({}, M!UpdateCollection(mem, c, [dynamic |-> TRUE, match |-> match]),
                      P!UpdateCollection(pg, c, [dynamic |-> TRUE, match |-> match]))
      PROVE  IInv'
  <2> DEFINE x == [dynamic |-> TRUE, match |-> match]
  <2>1. x \in CollRow /\ c \in Colls
    BY Ids DEF CollRow
  <2>2. Call({}, M!UpdateCollection(mem, c, x), P!UpdateCollection(pg, c, x))
    BY <1>2
  <2> HIDE DEF x
  <2>3. QED
    BY <1>0, <2>1, <2>2, UpdateCollectionAgrees, CallKeeps
<1>3. ASSUME NEW c \in Known("colls"),
             Call({}, M!DeleteCollection(mem, c), P!DeleteCollection(pg, c))
      PROVE  IInv'
  BY <1>0, <1>3, Ids, DeleteCollectionAgrees, CallKeeps
<1>4. ASSUME NEW c \in Known("colls"), NEW h \in Known("hosts"),
             Call({<<"colls", c>>, <<"hosts", h>>}, M!AddCollectionMember(mem, c, h),
                                                    P!AddCollectionMember(pg, c, h))
      PROVE  IInv'
  <2>1. c \in Colls /\ h \in Hosts /\ h <= drawn.hosts /\ c # None /\ h # None
    BY Ids, NoneIsNothing
  <2>2. Agreed(M!AddCollectionMember(mem, c, h), P!AddCollectionMember(pg, c, h), drawn, now,
               pg.colls[c] = None \/ pg.hosts[h] = None)
    BY <1>0, <2>1, AddCollectionMemberAgrees
  <2>3. pg.colls[c] = None \/ pg.hosts[h] = None
          => \E r \in {<<"colls", c>>, <<"hosts", h>>} : r[2] # None /\ pg[r[1]][r[2]] = None
    BY <2>1
  <2>4. QED
    BY <1>4, <2>2, <2>3, CallKeeps
<1>5. ASSUME NEW c \in Known("colls"), NEW h \in Known("hosts"),
             Call({}, M!RemoveCollectionMember(mem, c, h), P!RemoveCollectionMember(pg, c, h))
      PROVE  IInv'
  BY <1>0, <1>5, Ids, RemoveCollectionMemberAgrees, CallKeeps
<1>6. QED
  BY <1>1, <1>2, <1>3, <1>4, <1>5 DEF Collections

\* Schedules, which may name a host or a collection that is gone, keep it.
LEMMA SchedulesKeep ==
  ASSUME IInv, Schedules
  PROVE  IInv'
<1>0. Meets(mem, pg, drawn, now) /\ Drawn /\ now \in Nat
  BY DEF IInv
<1>1. ASSUME NEW s \in Fresh("scheds"), NEW h \in Known("hosts") \cup {None},
             NEW c \in Known("colls") \cup {None},
             Make("scheds", {<<"hosts", h>>, <<"colls", c>>},
                  M!CreateSchedule(mem, s, [host |-> h, coll |-> c, enabled |-> TRUE]),
                  P!CreateSchedule(pg, s, [host |-> h, coll |-> c, enabled |-> TRUE]))
      PROVE  IInv'
  <2> DEFINE x == [host |-> h, coll |-> c, enabled |-> TRUE]
             a == M!CreateSchedule(mem, s, x)
             b == P!CreateSchedule(pg, s, x)
  <2>1. /\ s \in Scheds /\ ~(s <= drawn.scheds) /\ s <= Up("scheds").scheds
        /\ Meets(mem, pg, Up("scheds"), now)
        /\ Up("scheds").hosts = drawn.hosts /\ Up("scheds").colls = drawn.colls
    BY FreshIds, EmptyTables, TableNames DEF Numbers
  <2>2. x \in SchedRow /\ x.host = h /\ x.coll = c
        /\ (h # None => h <= drawn.hosts) /\ (c # None => c <= drawn.colls)
    BY Ids DEF SchedRow, OrNone
  <2>3. mem.scheds[s] = None
    BY <1>0, <2>1 DEF Meets, Refs, Numbered, Store
  <2>4. Make("scheds", {<<"hosts", h>>, <<"colls", c>>}, a, b)
    BY <1>1
  <2> HIDE DEF x
  <2>5. /\ Agreed(a, b, Up("scheds"), now, Gone(pg.hosts, h) \/ Gone(pg.colls, c))
        /\ a.db.scheds # mem.scheds
    BY <2>1, <2>2, <2>3, CreateScheduleAgrees
  <2>6. Gone(pg.hosts, h) \/ Gone(pg.colls, c)
          => \E r \in {<<"hosts", h>>, <<"colls", c>>} : r[2] # None /\ pg[r[1]][r[2]] = None
    BY DEF Gone
  <2> HIDE DEF a, b
  <2>7. QED
    BY <2>4, <2>5, <2>6, MakeKeeps DEF Numbers
<1>2. ASSUME NEW s \in Known("scheds"), mem.scheds[s] # None,
             Call({<<"scheds", s>>}, M!UpdateSchedule(mem, s, [mem.scheds[s] EXCEPT !.enabled = FALSE]),
                                     P!UpdateSchedule(pg, s,
                                     [mem.scheds[s] EXCEPT !.enabled = FALSE]))
      PROVE  IInv'
  <2> DEFINE x == [mem.scheds[s] EXCEPT !.enabled = FALSE]
  <2>1. s \in Scheds /\ s # None
    BY Ids, StoreAssumption
  <2>2. x \in SchedRow /\ x.host = mem.scheds[s].host /\ x.coll = mem.scheds[s].coll
    <3>1. mem.scheds[s] \in SchedRow
      BY <1>0, <1>2, <2>1 DEF Meets, Store, OrNone
    <3>2. QED
      BY <3>1 DEF SchedRow
  <2>3. Call({<<"scheds", s>>}, M!UpdateSchedule(mem, s, x), P!UpdateSchedule(pg, s, x))
    BY <1>2
  <2> HIDE DEF x
  <2>4. Agreed(M!UpdateSchedule(mem, s, x), P!UpdateSchedule(pg, s, x), drawn, now, pg.scheds[s] = None)
    BY <1>0, <1>2, <2>1, <2>2, UpdateScheduleAgrees
  <2>5. QED
    BY <2>1, <2>3, <2>4, CallNames
<1>3. ASSUME NEW s \in Known("scheds"),
             Call({}, M!DeleteSchedule(mem, s), P!DeleteSchedule(pg, s))
      PROVE  IInv'
  BY <1>0, <1>3, Ids, DeleteScheduleAgrees, CallKeeps
<1>4. QED
  BY <1>1, <1>2, <1>3 DEF Schedules, Exists, M!GetSchedule, M!Row

\* Rules, baselines and inventories keep it.
LEMMA RecordsKeep ==
  ASSUME IInv, Records
  PROVE  IInv'
<1>0. Meets(mem, pg, drawn, now)
  BY DEF IInv
<1>1. ASSUME NEW h \in Known("hosts"), NEW data \in {"old", "new"},
             Call({<<"hosts", h>>}, M!SaveBaseline(mem, h, data), P!SaveBaseline(pg, h, data))
      PROVE  IInv'
  <2>1. h \in Hosts /\ h <= drawn.hosts /\ h # None
    BY Ids, NoneIsNothing
  <2>2. Agreed(M!SaveBaseline(mem, h, data), P!SaveBaseline(pg, h, data), drawn, now, pg.hosts[h] = None)
    BY <1>0, <2>1, SaveBaselineAgrees
  <2>3. QED
    BY <1>1, <2>1, <2>2, CallNames
<1>2. ASSUME NEW h \in Known("hosts"), NEW data \in {"old", "new"},
             Call({<<"hosts", h>>}, M!SaveInventory(mem, h, data), P!SaveInventory(pg, h, data))
      PROVE  IInv'
  <2>1. h \in Hosts /\ h <= drawn.hosts /\ h # None
    BY Ids, NoneIsNothing
  <2>2. Agreed(M!SaveInventory(mem, h, data), P!SaveInventory(pg, h, data), drawn, now, pg.hosts[h] = None)
    BY <1>0, <2>1, SaveInventoryAgrees
  <2>3. QED
    BY <1>2, <2>1, <2>2, CallNames
<1>3. ASSUME NEW h \in Known("hosts"), Call({}, M!DeleteBaseline(mem, h), P!DeleteBaseline(pg, h))
      PROVE  IInv'
  BY <1>0, <1>3, Ids, DeleteBaselineAgrees, CallKeeps
<1>4. ASSUME NEW r \in Rules, NEW data \in {"old", "new"},
             Call({}, M!UpsertRule(mem, r, [data |-> data, enabled |-> TRUE]),
                      P!UpsertRule(pg, r, [data |-> data, enabled |-> TRUE]))
      PROVE  IInv'
  <2> DEFINE x == [data |-> data, enabled |-> TRUE]
  <2>1. x \in RuleRow /\ Call({}, M!UpsertRule(mem, r, x), P!UpsertRule(pg, r, x))
    BY <1>4 DEF RuleRow
  <2> HIDE DEF x
  <2>2. QED
    BY <1>0, <2>1, UpsertRuleAgrees, CallKeeps
<1>5. ASSUME NEW r \in Rules, Call({}, M!DeleteRule(mem, r), P!DeleteRule(pg, r))
      PROVE  IInv'
  BY <1>0, <1>5, DeleteRuleAgrees, CallKeeps
<1>6. ASSUME NEW r \in Rules, NEW on \in BOOLEAN,
             Call({}, M!SetRuleEnabled(mem, r, on), P!SetRuleEnabled(pg, r, on))
      PROVE  IInv'
  BY <1>0, <1>6, SetRuleEnabledAgrees, CallKeeps
<1>7. QED
  BY <1>1, <1>2, <1>3, <1>4, <1>5, <1>6 DEF Records

\* Users and sessions keep it.
LEMMA AccountsKeep ==
  ASSUME IInv, Accounts
  PROVE  IInv'
<1>0. /\ Meets(mem, pg, drawn, now) /\ Drawn /\ now \in Nat /\ drawn \in [DOMAIN Empty -> Nat]
      /\ \A t \in Numbers : 1..drawn[t] \subseteq DOMAIN Empty[t]
      /\ mem \in Store /\ pg \in Store /\ pg.users = mem.users
      /\ mem.users \in [Users -> OrNone(UserRow)]
  BY DEF IInv, Drawn, Meets, Same, Store
<1>1. ASSUME NEW u \in Fresh("users"), NEW name \in Names,
             Answered(M!CreateUser(mem, u, [name |-> name, disabled |-> FALSE]),
                      P!CreateUser(pg, u, [name |-> name, disabled |-> FALSE]), "taken"),
             drawn' = [drawn EXCEPT !.users = @ + IF Exists(mem', "users", u) THEN 1 ELSE 0]
      PROVE  IInv'
  <2> DEFINE x == [name |-> name, disabled |-> FALSE]
             a == M!CreateUser(mem, u, x)
             b == P!CreateUser(pg, u, x)
  <2>1. u \in Users /\ ~(u <= drawn.users) /\ u = drawn.users + 1
    BY FreshIds, EmptyTables DEF Numbers
  <2>2. x \in UserRow
    BY DEF UserRow
  <2>3. Answered(a, b, "taken")
    BY <1>1
  <2> HIDE DEF x
  <2>4. Meets(a.db, b.db, drawn, now) /\ (a.out = b.out \/ MayDiffer("taken", a.out, b.out))
    BY <1>0, <2>1, <2>2, CreateUserAgrees DEF MayDiffer
  <2>5. Meets(a.db, b.db, Up("users"), now)
    BY <1>0, <2>1, <2>4, EmptyTables, Upwards DEF Numbers
  <2> HIDE DEF a, b
  <2>6. drawn' = drawn \/ drawn' = Up("users")
    <3>1. drawn.users \in Nat /\ drawn = [drawn EXCEPT !.users = drawn.users]
      BY <1>0, TableNames
    <3>2. CASE Exists(mem', "users", u)
      BY <1>1, <3>2 DEF Up
    <3>3. CASE ~Exists(mem', "users", u)
      <4>1. drawn' = [drawn EXCEPT !.users = drawn.users + 0]
        BY <1>1, <3>3
      <4>2. QED
        BY <3>1, <4>1
    <3>4. QED
      BY <3>2, <3>3
  <2>7. /\ Up("users") \in [DOMAIN Empty -> Nat]
        /\ \A t \in Numbers : 1..Up("users")[t] \subseteq DOMAIN Empty[t]
    BY <1>0, <2>1, EmptyTables, NextIds DEF Numbers
  <2>8. CASE drawn' = drawn
    BY <1>0, <2>3, <2>4, <2>8, AnsweredKeeps
  <2>9. CASE drawn' = Up("users")
    BY <2>3, <2>4, <2>5, <2>7, <2>9, AnsweredKeeps
  <2>10. QED
    BY <2>6, <2>8, <2>9
<1> DEFINE row == [name |-> CHOOSE n \in Names : TRUE, disabled |-> TRUE]
           edited(db, u) == IF Exists(db, "users", u) THEN [db.users[u] EXCEPT !.disabled = TRUE] ELSE row
<1>2. ASSUME NEW u \in Known("users"),
             Answered(M!UpdateUser(mem, u, edited(mem, u)), P!UpdateUser(pg, u, edited(pg, u)),
                      "no such user"),
             drawn' = drawn
      PROVE  IInv'
  <2>1. u \in Users
    BY Ids
  <2>2. edited(pg, u) = edited(mem, u)
    BY <1>0 DEF Exists
  <2>3. mem.users[u] # None => edited(mem, u) \in UserRow
    BY <1>0, <2>1 DEF Exists, OrNone, UserRow
  <2> HIDE DEF edited
  <2>4. PICK x : /\ mem.users[u] # None => x \in UserRow
                 /\ Answered(M!UpdateUser(mem, u, x), P!UpdateUser(pg, u, x), "no such user")
    BY <1>2, <2>2, <2>3
  <2> DEFINE a == M!UpdateUser(mem, u, x)
             b == P!UpdateUser(pg, u, x)
  <2>5. Meets(a.db, b.db, drawn, now) /\ (a.out = b.out \/ MayDiffer("no such user", a.out, b.out))
    <3>1. Meets(a.db, b.db, drawn, now) /\ UpdateTold(a, b)
      BY <1>0, <2>1, <2>4, UpdateUserAgrees
    <3> HIDE DEF a, b
    <3>2. QED
      BY <3>1 DEF UpdateTold, MayDiffer
  <2>6. Answered(a, b, "no such user")
    BY <2>4
  <2> HIDE DEF a, b
  <2>7. QED
    BY <1>0, <1>2, <2>5, <2>6, AnsweredKeeps
<1>3. ASSUME NEW u \in Known("users"), Call({}, M!DeleteUser(mem, u), P!DeleteUser(pg, u))
      PROVE  IInv'
  BY <1>0, <1>3, Ids, DeleteUserAgrees, CallKeeps
<1>4. ASSUME NEW s \in Fresh("sessions"), NEW u \in Known("users"),
             Make("sessions", {<<"users", u>>}, M!CreateSession(mem, s, u, now + 1),
                                                P!CreateSession(pg, s, u, now + 1))
      PROVE  IInv'
  <2> DEFINE a == M!CreateSession(mem, s, u, now + 1)
             b == P!CreateSession(pg, s, u, now + 1)
             e == Up("sessions")
  <2>1. /\ s \in Sessions /\ ~(s <= drawn.sessions) /\ s <= e.sessions /\ Meets(mem, pg, e, now)
        /\ e.users = drawn.users
    BY FreshIds, EmptyTables, TableNames DEF Numbers
  <2>2. u \in Users /\ u <= drawn.users /\ u # None
    BY Ids, NoneIsNothing
  <2>3. mem.sessions[s] = None
    BY <1>0, <2>1 DEF Meets, Refs, Numbered, Store
  <2>4. now + 1 \in Nat
    BY <1>0
  <2> HIDE DEF e
  <2>5. Agreed(a, b, e, now, pg.users[u] = None) /\ a.db.sessions # mem.sessions
    BY <2>1, <2>2, <2>3, <2>4, CreateSessionAgrees
  <2>6. pg.users[u] = None => \E r \in {<<"users", u>>} : r[2] # None /\ pg[r[1]][r[2]] = None
    BY <2>2
  <2>7. Make("sessions", {<<"users", u>>}, a, b)
    BY <1>4
  <2> HIDE DEF a, b
  <2>8. QED
    BY <2>5, <2>6, <2>7, MakeKeeps DEF Numbers, e
<1>5. ASSUME NEW s \in Known("sessions"), Call({}, M!DeleteSession(mem, s), P!DeleteSession(pg, s))
      PROVE  IInv'
  BY <1>0, <1>5, Ids, DeleteSessionAgrees, CallKeeps
<1>6. CASE Call({}, M!DeleteExpiredSessions(mem, now), P!DeleteExpiredSessions(pg, now))
  BY <1>0, <1>6, DeleteExpiredSessionsAgrees, CallKeeps
<1>7. QED
  BY <1>1, <1>2, <1>3, <1>4, <1>5, <1>6 DEF Accounts

\* Sensor tokens keep it.
LEMMA SensorTokensKeep ==
  ASSUME IInv, SensorTokens
  PROVE  IInv'
<1>0. /\ Meets(mem, pg, drawn, now) /\ Drawn /\ now \in Nat /\ drawn \in [DOMAIN Empty -> Nat]
      /\ \A t \in Numbers : 1..drawn[t] \subseteq DOMAIN Empty[t]
  BY DEF IInv, Drawn
<1>1. ASSUME NEW t \in Fresh("tokens"), NEW h \in Known("hosts"), NEW expires \in {None, now + 1},
             Make("tokens", {<<"hosts", h>>}, M!CreateSensorToken(mem, t, h, expires),
                                              P!CreateSensorToken(pg, t, h, expires))
      PROVE  IInv'
  <2> DEFINE a == M!CreateSensorToken(mem, t, h, expires)
             b == P!CreateSensorToken(pg, t, h, expires)
  <2>1. /\ t \in Tokens /\ h \in Hosts /\ h <= drawn.hosts /\ h # None /\ expires \in OrNone(Nat)
        /\ t = drawn.tokens + 1
    BY <1>0, FreshIds, Ids, EmptyTables, NoneIsNothing DEF OrNone, Numbers
  <2>2. Agreed(a, b, drawn, now, pg.hosts[h] = None)
    BY <1>0, <2>1, CreateSensorTokenAgrees
  <2>3. pg.hosts[h] = None => \E r \in {<<"hosts", h>>} : r[2] # None /\ pg[r[1]][r[2]] = None
    BY <2>1
  <2> HIDE DEF a, b
  <2>4. Agreed(a, b, Up("tokens"), now, pg.hosts[h] = None)
    BY <1>0, <2>1, <2>2, EmptyTables, Upwards DEF Agreed, Numbers
  <2>5. Meets(a.db, b.db, drawn, now)
    BY <2>2 DEF Agreed
  <2>6. Make("tokens", {<<"hosts", h>>}, a, b)
    BY <1>1 DEF a, b
  <2>7. QED
    BY <2>3, <2>4, <2>5, <2>6, MakeKeeps DEF Numbers
<1>2. ASSUME NEW t \in Known("tokens"), NEW h \in Known("hosts"),
             Answered(M!RevokeSensorToken(mem, h, t), P!RevokeSensorToken(pg, h, t),
                      IF Exists(pg, "tokens", t) THEN "revoked" ELSE "gone"),
             drawn' = drawn
      PROVE  IInv'
  <2> DEFINE a == M!RevokeSensorToken(mem, h, t)
             b == P!RevokeSensorToken(pg, h, t)
             why == IF pg.tokens[t] # None THEN "revoked" ELSE "gone"
  <2>1. t \in Tokens /\ h \in Hosts
    BY Ids
  <2>2. /\ Meets(a.db, b.db, drawn, now)
        /\ \/ a.out = b.out
           \/ pg.tokens[t] # None /\ a.out = "ok" /\ b.out = "not found"
           \/ pg.tokens[t] = None /\ b.out = "not found"
    BY <1>0, <2>1, RevokeSensorTokenAgrees
  <2>3. Answered(a, b, why)
    BY <1>2 DEF Exists
  <2>4. a.out = b.out \/ MayDiffer(why, a.out, b.out)
    BY <2>2 DEF MayDiffer
  <2> HIDE DEF a, b, why
  <2>5. QED
    BY <1>0, <1>2, <2>2, <2>3, <2>4, AnsweredKeeps
<1>3. ASSUME NEW h \in Known("hosts"), NEW t \in Known("tokens"),
             Call({}, M!RevokeOtherSensorTokens(mem, h, t), P!RevokeOtherSensorTokens(pg, h, t))
      PROVE  IInv'
  <2>1. Meets(M!Revoked(mem, h, t), P!Revoke(pg, h, Tokens \ {t}), drawn, now)
    BY <1>0, Ids, RevokedAgree
  <2>2. Agreed(M!RevokeOtherSensorTokens(mem, h, t), P!RevokeOtherSensorTokens(pg, h, t), drawn, now, FALSE)
    BY <2>1 DEF Agreed, M!RevokeOtherSensorTokens, P!RevokeOtherSensorTokens, M!Ok, P!Ok
  <2>3. QED
    BY <1>3, <2>2, CallKeeps
<1>4. ASSUME NEW h \in Known("hosts"),
             Call({}, M!RevokeSensorTokens(mem, h), P!RevokeSensorTokens(pg, h))
      PROVE  IInv'
  <2>1. Tokens \ {None} = Tokens
    BY NoneIsNothing
  <2>2. Meets(M!Revoked(mem, h, None), P!Revoke(pg, h, Tokens), drawn, now)
    BY <1>0, <2>1, Ids, RevokedAgree
  <2>3. Agreed(M!RevokeSensorTokens(mem, h), P!RevokeSensorTokens(pg, h), drawn, now, FALSE)
    BY <2>2 DEF Agreed, M!RevokeSensorTokens, P!RevokeSensorTokens, M!Ok, P!Ok
  <2>4. QED
    BY <1>4, <2>3, CallKeeps
<1>5. QED
  BY <1>1, <1>2, <1>3, <1>4 DEF SensorTokens

\* Creating a scan and updating it keep it.
LEMMA ScanRowsKeep ==
  ASSUME IInv, ScanRows
  PROVE  IInv'
<1>0. Meets(mem, pg, drawn, now) /\ Drawn /\ now \in Nat
  BY DEF IInv
<1>1. ASSUME NEW s \in Fresh("scans"), NEW h \in Known("hosts"),
             Make("scans", {<<"hosts", h>>}, M!CreateScan(mem, s, h, now), P!CreateScan(pg, s, h, now))
      PROVE  IInv'
  <2> DEFINE a == M!CreateScan(mem, s, h, now)
             b == P!CreateScan(pg, s, h, now)
             e == Up("scans")
  <2>1. /\ s \in Scans /\ ~(s <= drawn.scans) /\ s <= e.scans /\ Meets(mem, pg, e, now)
        /\ e.hosts = drawn.hosts
    BY FreshIds, EmptyTables, TableNames DEF Numbers
  <2>2. h \in Hosts /\ h <= drawn.hosts /\ h # None
    BY Ids, NoneIsNothing
  <2> HIDE DEF e
  <2>3. Agreed(a, b, e, now, pg.hosts[h] = None) /\ a.db.scans # mem.scans
    BY <1>0, <2>1, <2>2, CreateScanAgrees
  <2>4. pg.hosts[h] = None => \E r \in {<<"hosts", h>>} : r[2] # None /\ pg[r[1]][r[2]] = None
    BY <2>2
  <2>5. Make("scans", {<<"hosts", h>>}, a, b)
    BY <1>1
  <2> HIDE DEF a, b
  <2>6. QED
    BY <2>3, <2>4, <2>5, MakeKeeps DEF Numbers, e
<1>2. ASSUME NEW s \in Known("scans"), NEW status \in {"ok", "failed"}, mem.scans[s] # None,
             Call({<<"scans", s>>}, M!UpdateScan(mem, s, [mem.scans[s] EXCEPT !.status = status]),
                                    P!UpdateScan(pg, s, [mem.scans[s] EXCEPT !.status = status]))
      PROVE  IInv'
  <2> DEFINE a == M!UpdateScan(mem, s, [mem.scans[s] EXCEPT !.status = status])
             b == P!UpdateScan(pg, s, [mem.scans[s] EXCEPT !.status = status])
  <2>1. s \in Scans /\ s # None
    BY Ids, NoneIsNothing
  <2>2. Agreed(a, b, drawn, now, pg.scans[s] = None)
    BY <1>0, <1>2, <2>1, UpdateScanAgrees
  <2>3. Call({<<"scans", s>>}, a, b)
    BY <1>2
  <2> HIDE DEF a, b
  <2>4. QED
    BY <2>1, <2>2, <2>3, CallNames
<1>3. QED
  BY <1>1, <1>2 DEF ScanRows, Exists, M!GetScan, M!Row

\* The queue of scan jobs keeps it: enqueueing, claiming, renewing, completing, failing.
LEMMA ScanJobsKeep ==
  ASSUME IInv, ScanJobs
  PROVE  IInv'
<1>0. Meets(mem, pg, drawn, now) /\ Drawn /\ now \in Nat /\ now + 1 \in Nat
  BY DEF IInv
<1>1. ASSUME NEW j \in Fresh("jobs"), NEW h \in Known("hosts"),
             Make("jobs", {<<"hosts", h>>}, M!EnqueueScanJob(mem, j, h, now),
                                            P!EnqueueScanJob(pg, j, h, now))
      PROVE  IInv'
  <2> DEFINE a == M!EnqueueScanJob(mem, j, h, now)
             b == P!EnqueueScanJob(pg, j, h, now)
  <2>1. /\ j \in Jobs /\ h \in Hosts /\ h <= drawn.hosts /\ h # None /\ j = drawn.jobs + 1
    BY <1>0, FreshIds, Ids, EmptyTables, NoneIsNothing DEF Numbers
  <2>2. Agreed(a, b, drawn, now, pg.hosts[h] = None)
    BY <1>0, <2>1, EnqueueScanJobAgrees
  <2>3. pg.hosts[h] = None => \E r \in {<<"hosts", h>>} : r[2] # None /\ pg[r[1]][r[2]] = None
    BY <2>1
  <2>4. Make("jobs", {<<"hosts", h>>}, a, b)
    BY <1>1
  <2> HIDE DEF a, b
  <2>5. Agreed(a, b, Up("jobs"), now, pg.hosts[h] = None)
    BY <1>0, <2>1, <2>2, EmptyTables, Upwards DEF Agreed, Numbers
  <2>6. QED
    BY <2>2, <2>3, <2>4, <2>5, MakeKeeps DEF Numbers, Agreed
<1>2. ASSUME NEW w \in Workers, NEW j \in M!NextJobs(mem, now) \cap P!NextJobs(pg, now),
             Call({}, M!ClaimScanJob(mem, j, w, now), P!ClaimScanJob(pg, j, w, now))
      PROVE  IInv'
  <2>1. j \in Jobs /\ pg.jobs[j] # None
    BY DEF P!NextJobs, P!ClaimableJobs, P!First, P!Exists
  <2>2. Agreed(M!ClaimScanJob(mem, j, w, now), P!ClaimScanJob(pg, j, w, now), drawn, now, FALSE)
    BY <1>0, <2>1, ClaimScanJobAgrees
  <2>3. QED
    BY <1>2, <2>2, CallKeeps
<1>3. ASSUME NEW j \in Known("jobs")
      PROVE  j \in Jobs /\ j # None
  BY Ids, StoreAssumption
<1>4. ASSUME NEW w \in Workers, NEW j \in Known("jobs"),
             Call({<<"jobs", j>>}, M!RenewScanJobLease(mem, j, w, now + 1),
                                   P!RenewScanJobLease(pg, j, w, now + 1))
      PROVE  IInv'
  BY <1>0, <1>3, <1>4, RenewScanJobLeaseAgrees, CallNames
<1>5. ASSUME NEW w \in Workers, NEW j \in Known("jobs"), NEW s \in Live("scans") \cup {None},
             Call({<<"jobs", j>>}, M!CompleteScanJob(mem, j, w, s), P!CompleteScanJob(pg, j, w, s))
      PROVE  IInv'
  <2>1. s \in OrNone(Scans) /\ (s # None => s <= drawn.scans /\ pg.scans[s] # None)
    BY Ids DEF OrNone, Live, Exists
  <2>2. QED
    BY <1>0, <1>3, <1>5, <2>1, CompleteScanJobAgrees, CallNames
<1>6. ASSUME NEW w \in Workers, NEW j \in Known("jobs"), NEW terminal \in BOOLEAN,
             Call({<<"jobs", j>>}, M!FailScanJob(mem, j, w, now + 1, terminal),
                                   P!FailScanJob(pg, j, w, now + 1, terminal))
      PROVE  IInv'
  BY <1>0, <1>3, <1>6, FailScanJobAgrees, CallNames
<1>7. QED
  BY <1>1, <1>2, <1>4, <1>5, <1>6 DEF ScanJobs

\* Response actions keep it, from their creation to the end of their run.
LEMMA ResponsesKeep ==
  ASSUME IInv, Responses
  PROVE  IInv'
<1>0. Meets(mem, pg, drawn, now) /\ Drawn /\ now \in Nat /\ now + 1 \in Nat
  BY DEF IInv
<1>1. ASSUME NEW a \in Fresh("responses"), NEW h \in Known("hosts"), NEW u \in Names,
             Make("responses", {<<"hosts", h>>}, M!CreateResponseAction(mem, a, h, u),
                                                 P!CreateResponseAction(pg, a, h, u))
      PROVE  IInv'
  <2> DEFINE x == M!CreateResponseAction(mem, a, h, u)
             y == P!CreateResponseAction(pg, a, h, u)
  <2>1. /\ a \in Actions /\ h \in Hosts /\ h <= drawn.hosts /\ h # None /\ a = drawn.responses + 1
    BY <1>0, FreshIds, Ids, EmptyTables, NoneIsNothing DEF Numbers
  <2>2. Agreed(x, y, drawn, now, pg.hosts[h] = None)
    BY <1>0, <2>1, CreateResponseActionAgrees
  <2>3. pg.hosts[h] = None => \E r \in {<<"hosts", h>>} : r[2] # None /\ pg[r[1]][r[2]] = None
    BY <2>1
  <2>4. Make("responses", {<<"hosts", h>>}, x, y)
    BY <1>1
  <2> HIDE DEF x, y
  <2>5. Agreed(x, y, Up("responses"), now, pg.hosts[h] = None)
    BY <1>0, <2>1, <2>2, EmptyTables, Upwards DEF Agreed, Numbers
  <2>6. QED
    BY <2>2, <2>3, <2>4, <2>5, MakeKeeps DEF Numbers, Agreed
<1>2. ASSUME NEW a \in Known("responses")
      PROVE  a \in Actions /\ a # None
  BY Ids, StoreAssumption
<1>3. ASSUME NEW a \in Known("responses"), NEW u \in Names,
             Call({<<"responses", a>>}, M!ApproveResponseAction(mem, a, u),
                                        P!ApproveResponseAction(pg, a, u))
      PROVE  IInv'
  BY <1>0, <1>2, <1>3, ApproveResponseActionAgrees, CallNames
<1>4. ASSUME NEW a \in Known("responses"), NEW u \in Names,
             Call({<<"responses", a>>}, M!RejectResponseAction(mem, a, u),
                                        P!RejectResponseAction(pg, a, u))
      PROVE  IInv'
  BY <1>0, <1>2, <1>4, RejectResponseActionAgrees, CallNames
<1>5. ASSUME NEW w \in Workers, NEW a \in M!NextActions(mem, now) \cap P!NextActions(pg, now),
             Call({}, M!ClaimResponseAction(mem, a, w, now), P!ClaimResponseAction(pg, a, w, now))
      PROVE  IInv'
  <2>1. a \in Actions /\ pg.responses[a] # None
    BY DEF P!NextActions, P!ClaimableActions, P!First, P!Exists
  <2>2. Agreed(M!ClaimResponseAction(mem, a, w, now), P!ClaimResponseAction(pg, a, w, now), drawn, now, FALSE)
    BY <1>0, <2>1, ClaimResponseActionAgrees
  <2>3. QED
    BY <1>5, <2>2, CallKeeps
<1>6. ASSUME NEW w \in Workers, NEW a \in Known("responses"),
             Call({<<"responses", a>>}, M!RenewResponseActionLease(mem, a, w, now + 1),
                                        P!RenewResponseActionLease(pg, a, w, now + 1))
      PROVE  IInv'
  BY <1>0, <1>2, <1>6, RenewResponseActionLeaseAgrees, CallNames
<1>7. ASSUME NEW w \in Workers, NEW a \in Known("responses"),
             Call({<<"responses", a>>}, M!CompleteResponseAction(mem, a, w),
                                        P!CompleteResponseAction(pg, a, w))
      PROVE  IInv'
  BY <1>0, <1>2, <1>7, CompleteResponseActionAgrees, CallNames
<1>8. ASSUME NEW w \in Workers, NEW a \in Known("responses"),
             Call({<<"responses", a>>}, M!FailResponseAction(mem, a, w), P!FailResponseAction(pg, a, w))
      PROVE  IInv'
  BY <1>0, <1>2, <1>8, FailResponseActionAgrees, CallNames
<1>9. QED
  BY <1>1, <1>3, <1>4, <1>5, <1>6, <1>7, <1>8 DEF Responses

\* Assessments of findings keep the invariant.
LEMMA AssessmentsKeep ==
  ASSUME IInv, Assessments
  PROVE  IInv'
<1>0. Meets(mem, pg, drawn, now)
  BY DEF IInv
<1>1. ASSUME NEW o \in Known("obs")
      PROVE  o \in Obs /\ o # None
  BY Ids, NoneIsNothing
<1>2. ASSUME NEW o \in Known("obs"), NEW a \in DOMAIN Disposition,
             Call({<<"obs", o>>}, M!ApplyObservationAction(mem, o, a),
                                  P!ApplyObservationAction(pg, o, a))
      PROVE  IInv'
  BY <1>0, <1>1, <1>2, ApplyObservationActionAgrees, CallNames
<1>3. ASSUME NEW o \in Known("obs"),
             Call({<<"obs", o>>}, M!SetObservationStatus(mem, o, "resolved"),
                                  P!SetObservationStatus(pg, o, "resolved"))
      PROVE  IInv'
  BY <1>0, <1>1, <1>3, SetObservationStatusAgrees, CallNames
<1>4. ASSUME NEW o \in Known("obs"),
             Call({<<"obs", o>>}, M!SetObservationVerdict(mem, o, "true_positive"),
                                  P!SetObservationVerdict(pg, o, "true_positive"))
      PROVE  IInv'
  BY <1>0, <1>1, <1>4, SetObservationVerdictAgrees, CallNames
<1>5. {"close_inconclusive"} \subseteq DOMAIN Disposition
  BY DEF Disposition
<1>6. QED
  BY <1>2, <1>3, <1>4, <1>5 DEF Assessments

\* Changes of export targets keep the invariant.
LEMMA ExportTargetsKeep ==
  ASSUME IInv, ExportTargets
  PROVE  IInv'
<1>0. Meets(mem, pg, drawn, now) /\ Drawn /\ now \in Nat /\ group = "exports"
  BY DEF IInv, ExportTargets
<1>1. ASSUME NEW t \in Fresh("exports"), NEW on \in BOOLEAN,
             Make("exports", {}, M!CreateExportTarget(mem, t, on), P!CreateExportTarget(pg, t, on))
      PROVE  IInv'
  <2> DEFINE a == M!CreateExportTarget(mem, t, on)
             b == P!CreateExportTarget(pg, t, on)
  <2>1. t \in Targets /\ t = drawn.exports + 1
    BY <1>0, FreshIds, EmptyTables DEF Numbers
  <2>2. Agreed(a, b, drawn, now, FALSE)
    BY <1>0, <2>1, CreateExportTargetAgrees
  <2>3. Make("exports", {}, a, b)
    BY <1>1
  <2> HIDE DEF a, b
  <2>4. Agreed(a, b, Up("exports"), now, FALSE)
    BY <1>0, <2>1, <2>2, EmptyTables, Upwards DEF Agreed, Numbers
  <2>5. QED
    BY <2>2, <2>3, <2>4, MakeKeeps DEF Numbers, Agreed
<1>2. ASSUME NEW t \in Known("exports"), NEW on \in BOOLEAN,
             Call({}, M!UpdateExportTarget(mem, t, on), P!UpdateExportTarget(pg, t, on))
      PROVE  IInv'
  <2>1. Agreed(M!UpdateExportTarget(mem, t, on), P!UpdateExportTarget(pg, t, on), drawn, now, FALSE)
    BY <1>0, Ids, UpdateExportTargetAgrees
  <2>2. QED
    BY <1>2, <2>1, CallKeeps
<1>3. ASSUME NEW t \in Known("exports"),
             Call({}, M!DeleteExportTarget(mem, t), P!DeleteExportTarget(pg, t))
      PROVE  IInv'
  <2>1. Agreed(M!DeleteExportTarget(mem, t), P!DeleteExportTarget(pg, t), drawn, now, FALSE)
    BY <1>0, Ids, DeleteExportTargetAgrees
  <2>2. QED
    BY <1>3, <2>1, CallKeeps
<1>4. QED
  BY <1>1, <1>2, <1>3 DEF ExportTargets

\* What is done to deliveries keeps the invariant.
LEMMA ExportDeliveriesKeep ==
  ASSUME IInv, ExportDeliveries
  PROVE  IInv'
<1>0. Meets(mem, pg, drawn, now) /\ now \in Nat /\ now + 1 \in Nat
  BY DEF IInv
<1>1. ASSUME NEW w \in Workers, NEW d \in M!NextDeliveries(mem, now) \cap P!NextDeliveries(pg, now),
             Call({}, M!ClaimExportDelivery(mem, d, w, now), P!ClaimExportDelivery(pg, d, w, now))
      PROVE  IInv'
  <2>1. Agreed(M!ClaimExportDelivery(mem, d, w, now), P!ClaimExportDelivery(pg, d, w, now), drawn, now, FALSE)
    BY <1>0, ClaimExportDeliveryAgrees
  <2>2. QED
    BY <1>1, <2>1, CallKeeps
<1>2. ASSUME NEW w \in Workers, NEW d \in P!Deliveries(pg),
             Call({}, M!RenewExportDeliveryLease(mem, d, w, now + 1),
                      P!RenewExportDeliveryLease(pg, d, w, now + 1))
      PROVE  IInv'
  <2>1. Agreed(M!RenewExportDeliveryLease(mem, d, w, now + 1), P!RenewExportDeliveryLease(pg, d, w, now + 1),
               drawn, now, FALSE)
    BY <1>0, RenewExportDeliveryLeaseAgrees
  <2>2. QED
    BY <1>2, <2>1, CallKeeps
<1>3. ASSUME NEW w \in Workers, NEW d \in P!Deliveries(pg),
             Call({}, M!CompleteExportDelivery(mem, d, w), P!CompleteExportDelivery(pg, d, w))
      PROVE  IInv'
  <2>1. Agreed(M!CompleteExportDelivery(mem, d, w), P!CompleteExportDelivery(pg, d, w), drawn, now, FALSE)
    BY <1>0, CompleteExportDeliveryAgrees
  <2>2. QED
    BY <1>3, <2>1, CallKeeps
<1>4. ASSUME NEW w \in Workers, NEW d \in P!Deliveries(pg), NEW terminal \in BOOLEAN,
             Call({}, M!FailExportDelivery(mem, d, w, now + 1, terminal),
                      P!FailExportDelivery(pg, d, w, now + 1, terminal))
      PROVE  IInv'
  <2>1. Agreed(M!FailExportDelivery(mem, d, w, now + 1, terminal),
               P!FailExportDelivery(pg, d, w, now + 1, terminal), drawn, now, FALSE)
    BY <1>0, FailExportDeliveryAgrees
  <2>2. QED
    BY <1>4, <2>1, CallKeeps
<1>5. ASSUME NEW d \in P!Deliveries(pg),
             Call({}, M!RetryExportDelivery(mem, d, now), P!RetryExportDelivery(pg, d, now))
      PROVE  IInv'
  <2>1. Agreed(M!RetryExportDelivery(mem, d, now), P!RetryExportDelivery(pg, d, now), drawn, now, FALSE)
    BY <1>0, RetryExportDeliveryAgrees
  <2>2. QED
    BY <1>5, <2>1, CallKeeps
<1>6. QED
  BY <1>1, <1>2, <1>3, <1>4, <1>5 DEF ExportDeliveries

\* An appended event keeps the invariant.
LEMMA LogKeeps ==
  ASSUME IInv, Log
  PROVE  IInv'
<1>0. /\ Meets(mem, pg, drawn, now) /\ now \in Nat /\ drawn \in [DOMAIN Empty -> Nat]
      /\ \A t \in Numbers : 1..drawn[t] \subseteq DOMAIN Empty[t]
  BY DEF IInv, Drawn
<1> DEFINE e == drawn.audit + 1
           a == M!AppendAudit(mem, e, now)
           b == P!AppendAudit(pg, e, now)
           d == [drawn EXCEPT !.audit = e]
<1>1. /\ Answered(a, b, "none") /\ drawn' = d
      /\ group = "retention" => e <= AuditCap
  BY DEF Log
<1>2. Agreed(a, b, d, now, FALSE)
  BY <1>0, <1>1, AppendAuditAgrees
<1>3. drawn.audit \in Nat /\ e \in Nat
  BY <1>0, TableNames
<1>4. d \in [DOMAIN Empty -> Nat] /\ \A t \in Numbers : d[t] = drawn[t]
  BY <1>0, <1>3 DEF Numbers
<1>5. \A t \in Numbers : 1..d[t] \subseteq DOMAIN Empty[t]
  BY <1>0, <1>4
<1>6. Meets(a.db, b.db, d, now) /\ a.out = b.out
  BY <1>2 DEF Agreed
<1> HIDE DEF a, b, d
<1>7. QED
  BY <1>1, <1>4, <1>5, <1>6, AnsweredKeeps

\* The deletion of what is old keeps the invariant.
LEMMA RetentionKeeps ==
  ASSUME IInv, Retention
  PROVE  IInv'
<1>0. /\ Meets(mem, pg, drawn, now) /\ now \in Nat /\ drawn.audit \in Nat /\ group = "retention"
  BY TableNames DEF IInv, Drawn, Retention
<1>1. PICK ages \in [{"obs", "scans", "audit", "archive"} -> 0..1] :
             Call({}, M!ApplyRetention(mem, ages, now), P!ApplyRetention(pg, ages, now))
  BY DEF Retention
<1>2. ages \in [{"obs", "scans", "audit", "archive"} -> Nat]
  OBVIOUS
<1>3. Agreed(M!ApplyRetention(mem, ages, now), P!ApplyRetention(pg, ages, now), drawn, now, FALSE)
  BY <1>0, <1>2, ApplyRetentionAgrees
<1>4. QED
  BY <1>1, <1>3, CallKeeps

\* The identity of a finding is drawn when a store has it afterwards.
Drew(o, a, b) ==
  [drawn EXCEPT !.obs =
     @ + IF o \in Allowed("obs") /\ (Exists(a.db, "obs", o) \/ Exists(b.db, "obs", o)) THEN 1 ELSE 0]
Sighting(o, h, k, s) ==
  LET a == M!UpsertObservation(mem, o, h, k, s, now)
      b == P!UpsertObservation(pg, o, h, k, s, now)
  IN /\ o \in Allowed("obs") \/ mem.dedup[h][k] # None
     /\ group = "exports" => h \in Live("hosts")
     /\ Answered(a, b, Why({<<"hosts", h>>}))
     /\ drawn' = Drew(o, a, b)

\* A sighting of a finding keeps the invariant.
LEMMA UpsertObservationKeeps ==
  ASSUME IInv, UpsertObservation
  PROVE  IInv'
<1>0. /\ Meets(mem, pg, drawn, now) /\ now \in Nat /\ Drawn /\ drawn \in [DOMAIN Empty -> Nat]
      /\ \A t \in Numbers : 1..drawn[t] \subseteq DOMAIN Empty[t]
      /\ drawn.obs \in Nat
  BY TableNames DEF IInv, Drawn
<1> DEFINE o == drawn.obs + 1
<1>1. PICK h \in Known("hosts"), k \in Keys, s \in Live("scans") \cup {None} :
        Sighting(o, h, k, s)
  <2>1. PICK i \in {o}, h \in Known("hosts"), k \in Keys, s \in Live("scans") \cup {None} :
          Sighting(i, h, k, s)
    BY ZenonT(40) DEF UpsertObservation, Sighting, Drew
  <2>2. QED
    BY <2>1
<1> DEFINE a == M!UpsertObservation(mem, o, h, k, s, now)
           b == P!UpsertObservation(pg, o, h, k, s, now)
           why == Why({<<"hosts", h>>})
<1>s. /\ o \in Allowed("obs") \/ mem.dedup[h][k] # None
      /\ group = "exports" => h \in Live("hosts")
      /\ Answered(a, b, why)
      /\ drawn' = Drew(o, a, b)
  BY <1>1 DEF Sighting
<1>2. /\ h \in Hosts /\ h <= drawn.hosts /\ h # None
      /\ s \in OrNone(Scans) /\ (s # None => s <= drawn.scans /\ pg.scans[s] # None)
      /\ group = "exports" => pg.hosts[h] # None
  <2>1. h \in Hosts /\ h <= drawn.hosts /\ h # None
    BY Ids, NoneIsNothing
  <2>2. s \in OrNone(Scans) /\ (s # None => s <= drawn.scans /\ pg.scans[s] # None)
    BY Ids DEF OrNone, Live, Exists
  <2>3. group = "exports" => pg.hosts[h] # None
    BY <1>s DEF Live, Exists
  <2>4. QED
    BY <2>1, <2>2, <2>3
<1>3. ASSUME a.out = b.out \/ (pg.hosts[h] = None /\ b.out # "ok")
      PROVE  a.out = b.out \/ MayDiffer(why, a.out, b.out)
  <2>1. pg.hosts[h] = None => why = "gone"
    BY <1>2 DEF Why, Exists
  <2> HIDE DEF a, b, why
  <2>2. QED
    BY <1>3, <2>1 DEF MayDiffer
<1>4. CASE mem.dedup[h][k] # None
  <2>1. /\ Agreed(a, b, drawn, now, pg.hosts[h] = None)
        /\ \A i \in Obs : /\ a.db.obs[i] = None <=> mem.obs[i] = None
                          /\ b.db.obs[i] = None <=> pg.obs[i] = None
    BY <1>0, <1>2, <1>4, UpsertFoundAgrees
  <2>2. o \in Allowed("obs") => /\ o \in Obs /\ mem.obs[o] = None /\ pg.obs[o] = None
    <3>1. o \in Allowed("obs") => o \in Obs
      BY EmptyTables DEF Allowed
    <3>2. ASSUME o \in Obs
          PROVE  mem.obs[o] = None
      <4>1. mem.obs \in [Obs -> OrNone(FindingRow)] /\ Numbered(mem.obs, drawn.obs)
        BY <1>0 DEF Meets, Refs, Store
      <4>2. ~(o <= drawn.obs)
        BY <1>0
      <4> HIDE DEF o
      <4>3. QED
        BY <3>2, <4>1, <4>2 DEF Numbered
    <3>3. ASSUME o \in Obs, mem.obs[o] = None
          PROVE  pg.obs[o] = None
      BY <1>0, <3>3 DEF Meets, Same, FindingsAgree, ScannedRow, HostedRow
    <3>4. QED
      BY <3>1, <3>2, <3>3
  <2>3. drawn' = drawn
    <3>1. ~(o \in Allowed("obs") /\ (Exists(a.db, "obs", o) \/ Exists(b.db, "obs", o)))
      <4> HIDE DEF a, b, o
      <4>1. QED
        BY <2>1, <2>2 DEF Exists
    <3>2. drawn' = [drawn EXCEPT !.obs = @ + 0]
      <4> HIDE DEF a, b, o
      <4>1. QED
        BY <1>s, <3>1 DEF Drew
    <3>3. drawn.obs + 0 = drawn.obs
      BY <1>0
    <3>4. QED
      BY <1>0, <3>2, <3>3
  <2>4. a.out = b.out \/ MayDiffer(why, a.out, b.out)
    BY <1>3, <2>1 DEF Agreed
  <2>5. Meets(a.db, b.db, drawn, now) /\ Answered(a, b, why)
    BY <1>s, <2>1 DEF Agreed
  <2> HIDE DEF a, b, why
  <2>6. QED
    BY <1>0, <2>3, <2>4, <2>5, AnsweredKeeps
<1>5. CASE mem.dedup[h][k] = None
  <2> DEFINE e == Up("obs")
  <2>1. o \in Allowed("obs") /\ o \in Fresh("obs")
    BY <1>s, <1>5 DEF Fresh
  <2>2. "obs" \in Numbers /\ o \in DOMAIN Empty["obs"]
    BY <2>1 DEF Numbers, Allowed
  <2>3. /\ o \in Obs /\ ~(o <= drawn.obs) /\ o <= e.obs /\ Meets(mem, pg, e, now)
        /\ e.hosts = drawn.hosts /\ e.scans = drawn.scans
    BY <2>1, <2>2, FreshIds, EmptyTables, TableNames
  <2>4. e \in [DOMAIN Empty -> Nat] /\ \A u \in Numbers : 1..e[u] \subseteq DOMAIN Empty[u]
    BY <1>0, <2>2, NextIds
  <2>5. Agreed(a, b, e, now, pg.hosts[h] = None) /\ a.db.obs[o] # None
    <3> HIDE DEF e, o
    <3>1. QED
      BY <1>0, <1>2, <1>5, <2>3, UpsertNewAgrees
  <2>6. drawn' = e
    <3>1. o \in Allowed("obs") /\ Exists(a.db, "obs", o)
      BY <2>1, <2>5 DEF Exists
    <3>2. drawn' = [drawn EXCEPT !.obs = @ + 1]
      <4> HIDE DEF a, b, o
      <4>1. QED
        BY <1>s, <3>1 DEF Drew
    <3>3. QED
      BY <3>2 DEF Up
  <2>7. a.out = b.out \/ MayDiffer(why, a.out, b.out)
    BY <1>3, <2>5 DEF Agreed
  <2>8. Meets(a.db, b.db, e, now) /\ Answered(a, b, why)
    BY <1>s, <2>5 DEF Agreed
  <2> HIDE DEF a, b, e, why
  <2>9. QED
    BY <1>0, <2>4, <2>6, <2>7, <2>8, AnsweredKeeps
<1>6. QED
  BY <1>4, <1>5

-------------------------------------------------------------------------------
(* The invariant                                                             *)

\* Every call keeps the invariant.
LEMMA StepKeeps ==
  ASSUME IInv, [Next]_vars
  PROVE  IInv'
<1>1. CASE Tick
  BY <1>1, TickKeeps
<1>2. CASE CreateHost
  BY <1>2, CreateHostKeeps
<1>3. CASE UpdateHost
  BY <1>3, UpdateHostKeeps
<1>4. CASE SetHost
  BY <1>4, SetHostKeeps
<1>5. CASE DeleteHost
  BY <1>5, DeleteHostKeeps
<1>6. CASE Credentials
  BY <1>6, CredentialsKeep
<1>7. CASE Collections
  BY <1>7, CollectionsKeep
<1>8. CASE Schedules
  BY <1>8, SchedulesKeep
<1>9. CASE Records
  BY <1>9, RecordsKeep
<1>10. CASE Accounts
  BY <1>10, AccountsKeep
<1>11. CASE SensorTokens
  BY <1>11, SensorTokensKeep
<1>12. CASE ScanRows
  BY <1>12, ScanRowsKeep
<1>13. CASE ScanJobs
  BY <1>13, ScanJobsKeep
<1>14. CASE UpsertObservation
  BY <1>14, UpsertObservationKeeps
<1>15. CASE Assessments
  BY <1>15, AssessmentsKeep
<1>16. CASE ExportTargets
  BY <1>16, ExportTargetsKeep
<1>17. CASE ExportDeliveries
  BY <1>17, ExportDeliveriesKeep
<1>18. CASE Log
  BY <1>18, LogKeeps
<1>19. CASE Retention
  BY <1>19, RetentionKeeps
<1>20. CASE Responses
  BY <1>20, ResponsesKeep
<1>21. CASE UNCHANGED vars
  <2>1. /\ group' = group /\ mem' = mem /\ pg' = pg /\ now' = now /\ drawn' = drawn /\ last' = last
    BY <1>21 DEF vars
  <2>2. group' \in Groups /\ now' \in Nat
    BY <2>1 DEF IInv
  <2>3. Meets(mem, pg, drawn, now)'
    BY <2>1, MeetsNext DEF IInv
  <2>4. Drawn'
    BY <2>1 DEF IInv, Drawn
  <2>5. AnswersAgree'
    BY <2>1 DEF IInv, AnswersAgree
  <2>6. QED
    BY <2>2, <2>3, <2>4, <2>5 DEF IInv
<1>22. QED
  BY <1>1, <1>2, <1>3, <1>4, <1>5, <1>6, <1>7, <1>8, <1>9, <1>10, <1>11, <1>12, <1>13, <1>14,
     <1>15, <1>16, <1>17, <1>18, <1>19, <1>20, <1>21 DEF Next

\* The stores go on holding the same, whatever is called.
THEOREM StoresMeet == Spec => []IInv
<1>1. Init => IInv
  BY InitMeets
<1>2. IInv /\ [Next]_vars => IInv'
  BY StepKeeps
<1>3. QED
  BY <1>1, <1>2, PTL DEF Spec

\* AnswersAgree: the two stores answer every call alike, but for the reasons that it names.
THEOREM StoresAnswerAlike == Spec => []AnswersAgree
<1>1. IInv => AnswersAgree
  BY DEF IInv
<1>2. QED
  BY <1>1, StoresMeet, PTL

\* StateAgrees: the tables of Memory are those of Postgres, as clients see them.
THEOREM StoresAgree == Spec => []StateAgrees
<1>1. IInv => StateAgrees
  BY SameMeansAgreement DEF IInv, Meets
<1>2. QED
  BY <1>1, StoresMeet, PTL

-------------------------------------------------------------------------------
(* Reads                                                                     *)

\* When nothing in Memory has lost its parent, the tables are the same.
LEMMA WholeTables ==
  ASSUME IInv, P!Cascade(mem) = mem
  PROVE  /\ mem \in Store /\ pg \in Store /\ now \in Nat
         /\ pg.hosts = mem.hosts /\ pg.colls = mem.colls /\ pg.members = mem.members
         /\ pg.users = mem.users /\ pg.sessions = mem.sessions /\ pg.tokens = mem.tokens
         /\ pg.scans = mem.scans /\ pg.obs = mem.obs /\ pg.exports = mem.exports
         /\ pg.outbox = mem.outbox /\ pg.responses = mem.responses
         /\ \A j \in Jobs : Undated(mem.jobs[j]) = Undated(pg.jobs[j])
         /\ \A s \in Sessions : mem.sessions[s] # None => mem.users[mem.sessions[s].user] # None
         /\ Addressed(mem) /\ Leased(mem) /\ LogInOrder(pg.audit, drawn, now)
<1>1. Meets(mem, pg, drawn, now) /\ now \in Nat
  BY DEF IInv
<1>2. mem \in Store /\ pg \in Store /\ Same(mem, pg) /\ Addressed(mem)
  BY <1>1 DEF Meets
<1>3. ASSUME NEW s \in Sessions, mem.sessions[s] # None
      PROVE  mem.users[mem.sessions[s].user] # None
  <2>1. mem.sessions = SessionTable(mem)
    BY <1>2, CascadeTables
  <2>2. mem.sessions[s] = SignedInRow(mem.sessions[s], mem.users)
    BY <2>1 DEF SessionTable
  <2>3. mem.sessions[s].user \in Users
    BY <1>2, <1>3 DEF Store, OrNone, SessionRow
  <2>4. QED
    BY <1>3, <2>2, <2>3, NoneIsNothing DEF SignedInRow, Gone
<1>4. QED
  BY <1>1, <1>2, <1>3, CascadeIsPostgres DEF Meets

\* CollectionHosts.
LEMMA CollectionHostsAgree ==
  ASSUME IInv, P!Cascade(mem) = mem, NEW c \in Colls
  PROVE  M!CollectionHosts(mem, c) = P!CollectionHosts(pg, c)
<1>1. /\ mem \in Store /\ pg.hosts = mem.hosts /\ pg.colls = mem.colls /\ pg.members = mem.members
  BY WholeTables
<1>2. CASE mem.colls[c] = None
  BY <1>1, <1>2 DEF M!CollectionHosts, P!CollectionHosts, M!Exists, P!Exists
<1>3. CASE mem.colls[c] # None
  <2>1. mem.colls[c].dynamic \in BOOLEAN
    BY <1>1, <1>3 DEF Store, OrNone, CollRow
  <2>2. CASE mem.colls[c].dynamic
    BY <1>1, <1>3, <2>2
       DEF M!CollectionHosts, P!CollectionHosts, M!Exists, P!Exists, M!TagsMatch
  <2>3. CASE ~mem.colls[c].dynamic
    BY <1>1, <1>3, <2>3 DEF M!CollectionHosts, P!CollectionHosts, M!Exists, P!Exists
  <2>4. QED
    BY <2>2, <2>3
<1>4. QED
  BY <1>2, <1>3

\* SessionUser, but at the instant of the expiry.
LEMMA SessionUserAgrees ==
  ASSUME IInv, P!Cascade(mem) = mem, NEW s \in Sessions,
         M!SessionUser(mem, s, now) # P!SessionUser(pg, s, now)
  PROVE  Exists(mem, "sessions", s) /\ mem.sessions[s].expires = now
<1>1. /\ mem \in Store /\ now \in Nat /\ pg.sessions = mem.sessions
      /\ mem.sessions[s] # None => mem.users[mem.sessions[s].user] # None
  BY WholeTables
<1>2. mem.sessions[s] # None => mem.sessions[s].expires \in Nat
  BY <1>1 DEF Store, OrNone, SessionRow
<1>3. CASE mem.sessions[s] = None
  BY <1>1, <1>3 DEF M!SessionUser, P!SessionUser, M!Exists, P!Exists
<1>4. CASE mem.sessions[s] # None
  <2>1. CASE mem.sessions[s].expires > now
    BY <1>1, <1>2, <1>4, <2>1 DEF M!SessionUser, P!SessionUser, M!Exists, P!Exists
  <2>2. CASE now > mem.sessions[s].expires
    BY <1>1, <1>2, <1>4, <2>2 DEF M!SessionUser, P!SessionUser, M!Exists, P!Exists
  <2>3. QED
    BY <1>1, <1>2, <1>4, <2>1, <2>2 DEF Exists
<1>5. QED
  BY <1>3, <1>4

\* SensorTokenValid.
LEMMA SensorTokenValidAgrees ==
  ASSUME IInv, P!Cascade(mem) = mem, NEW h \in Hosts, NEW t \in Tokens
  PROVE  M!SensorTokenValid(mem, h, t, now) = P!SensorTokenValid(pg, h, t, now)
<1> DEFINE r == mem.tokens[t]
<1>1. mem \in Store /\ now \in Nat /\ pg.tokens = mem.tokens
  BY WholeTables
<1>2. r # None => r.revoked \in BOOLEAN /\ r.expires \in OrNone(Nat)
  BY <1>1 DEF Store, OrNone, TokenRow
<1>3. M!SensorTokenValid(mem, h, t, now) <=>
        r # None /\ r.host = h /\ ~r.revoked /\ (r.expires = None \/ now < r.expires)
  BY DEF M!SensorTokenValid, M!Exists
<1>4. P!SensorTokenValid(pg, h, t, now) <=>
        r # None /\ r.host = h /\ ~r.revoked /\ (r.expires = None \/ r.expires > now)
  BY <1>1 DEF P!SensorTokenValid
<1>5. r # None => (r.expires = None \/ now < r.expires <=> r.expires = None \/ r.expires > now)
  BY <1>1, <1>2 DEF OrNone
<1>6. M!SensorTokenValid(mem, h, t, now) <=> P!SensorTokenValid(pg, h, t, now)
  <2> HIDE DEF r
  <2>1. QED
    BY <1>3, <1>4, <1>5
<1>7. /\ M!SensorTokenValid(mem, h, t, now) \in BOOLEAN
      /\ P!SensorTokenValid(pg, h, t, now) \in BOOLEAN
  BY DEF M!SensorTokenValid, P!SensorTokenValid, M!Exists
<1>8. QED
  BY <1>6, <1>7

\* The limit a method takes for the one it is given.
LEMMA ClampedLimit ==
  ASSUME NEW n \in 0..(MaxLimit + 1)
  PROVE  /\ M!Clamp(n) = Clamp(n) /\ P!Clamp(n) = Clamp(n) /\ Clamp(n) > 0
         /\ P!AuditLimit(n) = AuditLimit(n) /\ AuditLimit(n) > 0
BY StoreAssumption DEF Clamp, M!Clamp, P!Clamp, AuditLimit, P!AuditLimit

\* ListObservations: the page after a row that the previous page ended with.
LEMMA ListObservationsAgree ==
  ASSUME IInv, P!Cascade(mem) = mem, NEW f, NEW n \in 0..(MaxLimit + 1), NEW before,
         before = None \/ \E o \in Obs : mem.obs[o] # None /\ before = [id |-> o, seen |-> mem.obs[o].seen]
  PROVE  M!ListObservations(mem, f, before, n) = P!ListObservations(pg, f, before, n)
<1>1. mem \in Store /\ pg.obs = mem.obs /\ n \in Nat
  BY WholeTables, StoreAssumption
<1>2. \A o \in Obs : o \in Nat /\ (mem.obs[o] # None => mem.obs[o].seen \in Nat)
  BY <1>1, StoreAssumption DEF Store, OrNone, FindingRow
<1>3. before # None => before.id \in Nat /\ before.seen \in Nat
  BY <1>2
<1> DEFINE Skipped(o) == \/ \E c \in DOMAIN f : mem.obs[o][c] # f[c]
                         \/ /\ before # None
                            /\ \/ mem.obs[o].seen > before.seen
                               \/ mem.obs[o].seen = before.seen /\ o >= before.id
           Listed(o) == /\ \A c \in DOMAIN f : mem.obs[o][c] = f[c]
                        /\ before # None => \/ mem.obs[o].seen < before.seen
                                            \/ mem.obs[o].seen = before.seen /\ o < before.id
           MNewer(a, b) == IF mem.obs[a].seen = mem.obs[b].seen THEN a > b
                           ELSE mem.obs[a].seen > mem.obs[b].seen
           PNewer(a, b) == \/ mem.obs[a].seen > mem.obs[b].seen
                           \/ mem.obs[a].seen = mem.obs[b].seen /\ a > b
           S == {o \in Obs : mem.obs[o] # None /\ ~Skipped(o)}
           T == {o \in Obs : mem.obs[o] # None /\ Listed(o)}
<1>4. ASSUME NEW o \in Obs, mem.obs[o] # None
      PROVE  Listed(o) <=> ~Skipped(o)
  <2>1. (\A c \in DOMAIN f : mem.obs[o][c] = f[c]) <=> ~\E c \in DOMAIN f : mem.obs[o][c] # f[c]
    OBVIOUS
  <2>2. before # None =>
          ((\/ mem.obs[o].seen < before.seen
            \/ mem.obs[o].seen = before.seen /\ o < before.id)
           <=> ~(\/ mem.obs[o].seen > before.seen
                 \/ mem.obs[o].seen = before.seen /\ o >= before.id))
    BY <1>2, <1>3, <1>4
  <2>3. QED
    BY <2>1, <2>2
<1>5. ASSUME NEW a \in Obs, NEW b \in Obs, mem.obs[a] # None, mem.obs[b] # None
      PROVE  MNewer(a, b) <=> PNewer(a, b)
  BY <1>2, <1>5
<1>6. M!ListObservations(mem, f, before, n)
        = IF n > 0 THEN {x \in S : Cardinality({y \in S : MNewer(y, x)}) < n} ELSE S
  BY <1>1, SameCount DEF M!ListObservations, M!Page, M!Exists
<1>7. P!ListObservations(pg, f, before, n)
        = IF n > 0 THEN {x \in T : Cardinality({y \in T : PNewer(y, x)}) < n} ELSE T
  <2> DEFINE Q == pg.obs
             QNewer(a, b) == \/ Q[a].seen > Q[b].seen
                             \/ Q[a].seen = Q[b].seen /\ a > b
             R == {o \in Obs : /\ Q[o] # None
                               /\ \A c \in DOMAIN f : Q[o][c] = f[c]
                               /\ before # None => \/ Q[o].seen < before.seen
                                                   \/ Q[o].seen = before.seen /\ o < before.id}
  <2>1. P!ListObservations(pg, f, before, n)
          = IF n > 0 THEN {x \in R : P!Cardinality({y \in R : QNewer(y, x)}) < n} ELSE R
    BY <1>1 DEF P!ListObservations, P!Page, P!Exists
  <2>2. Q = mem.obs
    BY <1>1
  <2> HIDE DEF Q
  <2>3. R = T /\ \A a, b : QNewer(a, b) <=> PNewer(a, b)
    BY <2>2
  <2> HIDE DEF R, QNewer, T, PNewer
  <2>4. QED
    BY <2>1, <2>3, SameCount
<1>8. S = T
  <2> HIDE DEF Skipped, Listed
  <2>1. QED
    BY <1>4
<1>9. \A x \in S : {y \in S : MNewer(y, x)} = {y \in T : PNewer(y, x)}
  <2> HIDE DEF Skipped, Listed, MNewer, PNewer
  <2>1. QED
    BY <1>5, <1>8
<1> HIDE DEF S, T, MNewer, PNewer
<1>10. QED
  BY <1>6, <1>7, <1>8, <1>9

\* ListAuditPage: Memory lists in the order of the appends, Postgres by time and identity.
LEMMA ListAuditPageAgrees ==
  ASSUME IInv, P!Cascade(mem) = mem, Cardinality(pg.audit) <= AuditCap,
         NEW before \in mem.audit \cup {None}, NEW n \in 0..(MaxLimit + 1)
  PROVE  M!ListAuditPage(mem, before, AuditLimit(n)) = P!ListAuditPage(pg, before, n)
<1>1. /\ mem \in Store /\ pg \in Store /\ LogInOrder(pg.audit, drawn, now)
      /\ mem.audit = Page(pg.audit, Newer, AuditCap) /\ AuditLimit(n) > 0
  BY WholeTables, StoreAssumption DEF AuditLimit, IInv, Meets, Same
<1>2. IsFiniteSet(pg.audit) /\ \A e \in pg.audit : e.id \in Nat /\ e.ts \in Nat
  BY <1>1 DEF LogInOrder, Store, AuditRow
<1>3. mem.audit = pg.audit
  BY <1>1, <1>2, NewestPage, FewAreNewest, StoreAssumption
<1> DEFINE D == mem.audit
           Skipped(e) == before # None /\ (e.ts > before.ts \/ (e.ts = before.ts /\ e.id >= before.id))
           PNewer(a, b) == a.ts > b.ts \/ (a.ts = b.ts /\ a.id > b.id)
           S == {e \in D : ~Skipped(e)}
           T == {e \in D : before # None => PNewer(before, e)}
<1>4. \A a, b \in D : PNewer(a, b) <=> a.id > b.id
  <2> SUFFICES ASSUME NEW a \in D, NEW b \in D
               PROVE  PNewer(a, b) <=> a.id > b.id
    OBVIOUS
  <2>1. /\ a.id \in Nat /\ b.id \in Nat /\ a.ts \in Nat /\ b.ts \in Nat
        /\ a.id = b.id => a = b
        /\ a.id < b.id => a.ts <= b.ts
        /\ b.id < a.id => b.ts <= a.ts
    BY <1>1, <1>2, <1>3 DEF LogInOrder
  <2>2. a.id = b.id => a.ts = b.ts
    BY <2>1
  <2>3. QED
    BY <2>1, <2>2
<1>5. before # None => before.id \in Nat /\ before.ts \in Nat
  BY <1>2, <1>3
<1>6. S = T
  <2>1. ASSUME NEW e \in D, before # None
        PROVE  PNewer(before, e) <=> ~(e.ts > before.ts \/ (e.ts = before.ts /\ e.id >= before.id))
    <3>1. e.id \in Nat /\ e.ts \in Nat /\ before.id \in Nat /\ before.ts \in Nat
      BY <1>2, <1>3, <1>5, <2>1
    <3>2. QED
      BY <3>1
  <2>2. QED
    BY <2>1
<1>7. M!ListAuditPage(mem, before, AuditLimit(n))
        = {x \in S : Cardinality({y \in S : y.id > x.id}) < AuditLimit(n)}
  <2>1. M!ListAuditPage(mem, before, AuditLimit(n))
          = {x \in S : M!Cardinality({y \in S : y.id > x.id}) < AuditLimit(n)}
    BY <1>1 DEF M!ListAuditPage, M!Page
  <2> HIDE DEF S
  <2>2. QED
    BY <2>1, SameCount
<1>8. P!ListAuditPage(pg, before, n) = {x \in T : Cardinality({y \in T : PNewer(y, x)}) < AuditLimit(n)}
  BY <1>1, <1>3, SameCount, ClampedLimit DEF P!ListAuditPage, P!Page
<1>9. \A x \in S : {y \in S : y.id > x.id} = {y \in T : PNewer(y, x)}
  <2>1. S \subseteq D
    OBVIOUS
  <2> HIDE DEF S, T, PNewer, D
  <2>2. QED
    BY <1>4, <1>6, <2>1
<1> HIDE DEF S, T, PNewer
<1>10. QED
  BY <1>6, <1>7, <1>8, <1>9

\* The jobs of the two stores, but for the due times of those that have failed for good.
LEMMA SameJobs ==
  ASSUME IInv, P!Cascade(mem) = mem, NEW j \in Jobs
  PROVE  /\ mem.jobs[j] \in OrNone(JobRow)
         /\ HeldByLease(mem.jobs[j]) /\ DueAtTime(mem.jobs[j])
         /\ mem.jobs[j] = None <=> pg.jobs[j] = None
         /\ mem.jobs[j] # None =>
              /\ pg.jobs[j].host = mem.jobs[j].host /\ pg.jobs[j].status = mem.jobs[j].status
              /\ pg.jobs[j].lease = mem.jobs[j].lease
              /\ pg.jobs[j].status # "failed" => pg.jobs[j].due = mem.jobs[j].due
<1>1. /\ mem \in Store /\ pg \in Store /\ Leased(mem)
      /\ Undated(mem.jobs[j]) = Undated(pg.jobs[j])
  BY WholeTables
<1>2. mem.jobs[j] \in OrNone(JobRow) /\ pg.jobs[j] \in OrNone(JobRow)
  BY <1>1 DEF Store
<1>3. HeldByLease(mem.jobs[j]) /\ DueAtTime(mem.jobs[j])
  BY <1>1 DEF Leased
<1>4. \/ mem.jobs[j] = None /\ pg.jobs[j] = None
      \/ /\ mem.jobs[j] # None /\ pg.jobs[j] # None
         /\ pg.jobs[j].host = mem.jobs[j].host /\ pg.jobs[j].status = mem.jobs[j].status
         /\ pg.jobs[j].lease = mem.jobs[j].lease
         /\ mem.jobs[j].status # "failed" => pg.jobs[j].due = mem.jobs[j].due
  <2> DEFINE r == mem.jobs[j]
             q == pg.jobs[j]
  <2>1. r \in OrNone(JobRow) /\ q \in OrNone(JobRow) /\ Undated(r) = Undated(q)
    BY <1>1, <1>2
  <2> HIDE DEF r, q
  <2>2. \/ r = None /\ q = None
        \/ /\ r # None /\ q # None
           /\ r.host = q.host /\ r.status = q.status /\ r.attempts = q.attempts
           /\ r.worker = q.worker /\ r.lease = q.lease /\ r.scan = q.scan
           /\ r.status # "failed" => r.due = q.due
    BY <2>1, UndatedRows
  <2>3. QED
    BY <2>2 DEF r, q
<1>5. QED
  BY <1>2, <1>3, <1>4

\* ListScanJobs.
LEMMA ListScanJobsAgree ==
  ASSUME IInv, P!Cascade(mem) = mem, NEW h \in Hosts \cup {None}, NEW n \in 0..(MaxLimit + 1)
  PROVE  M!ListScanJobs(mem, h, Clamp(n)) = P!ListScanJobs(pg, h, n)
<1> DEFINE S == {j \in Jobs : mem.jobs[j] # None /\ h \in {None, mem.jobs[j].host}}
           T == {j \in Jobs : pg.jobs[j] # None /\ (h # None => pg.jobs[j].host = h)}
<1>1. S = T
  BY SameJobs
<1>2. M!ListScanJobs(mem, h, Clamp(n)) = {x \in S : Cardinality({y \in S : y > x}) < Clamp(n)}
  BY SameCount, ClampedLimit DEF M!ListScanJobs, M!Page, M!Exists
<1>3. P!ListScanJobs(pg, h, n) = {x \in T : Cardinality({y \in T : y > x}) < Clamp(n)}
  BY SameCount, ClampedLimit DEF P!ListScanJobs, P!Page, P!Exists
<1> HIDE DEF S, T
<1>4. QED
  BY <1>1, <1>2, <1>3

\* ListResponseActions.
LEMMA ListResponseActionsAgree ==
  ASSUME IInv, P!Cascade(mem) = mem, NEW h \in Hosts \cup {None}, NEW n \in 0..(MaxLimit + 1)
  PROVE  M!ListResponseActions(mem, h, n) = P!ListResponseActions(pg, h, n)
<1> DEFINE R == mem.responses
           S == {a \in Actions : R[a] # None /\ h \in {None, R[a].host}}
           T == {a \in Actions : R[a] # None /\ (h # None => R[a].host = h)}
<1>1. S = T
  OBVIOUS
<1>2. pg.responses = R
  BY WholeTables
<1>3. M!ListResponseActions(mem, h, n) = {x \in S : Cardinality({y \in S : y > x}) < Clamp(n)}
  BY SameCount, ClampedLimit DEF M!ListResponseActions, M!Page, M!Exists
<1>4. P!ListResponseActions(pg, h, n) = {x \in T : Cardinality({y \in T : y > x}) < Clamp(n)}
  BY <1>2, SameCount, ClampedLimit DEF P!ListResponseActions, P!Page, P!Exists
<1> HIDE DEF S, T
<1>5. QED
  BY <1>1, <1>3, <1>4

\* The jobs that a worker may claim.
LEMMA ClaimableJobsAgree ==
  ASSUME IInv, P!Cascade(mem) = mem
  PROVE  M!ClaimableJobs(mem, now) = P!ClaimableJobs(pg, now)
<1> DEFINE Late(r) == \/ r.status = "queued" /\ ~(r.due > now)
                      \/ r.status = "running" /\ r.lease # None /\ ~(r.lease > now)
           Due(r) == (r.status = "queued" /\ r.due <= now) \/ (r.status = "running" /\ r.lease <= now)
<1>1. now \in Nat
  BY WholeTables
<1>2. ASSUME NEW j \in Jobs
      PROVE  mem.jobs[j] # None /\ Late(mem.jobs[j]) <=> pg.jobs[j] # None /\ Due(pg.jobs[j])
  <2> DEFINE r == mem.jobs[j]
             q == pg.jobs[j]
  <2>1. /\ r \in OrNone(JobRow) /\ HeldByLease(r) /\ DueAtTime(r) /\ (r = None <=> q = None)
        /\ r # None => /\ q.status = r.status /\ q.lease = r.lease
                       /\ q.status # "failed" => q.due = r.due
    BY SameJobs
  <2> HIDE DEF r, q
  <2>2. r # None => r.due \in OrNone(Nat) /\ r.lease \in OrNone(Nat)
    BY <2>1 DEF OrNone, JobRow
  <2>3. r # None => (Late(r) <=> Due(q))
    <3>1. CASE r.status = "queued"
      BY <1>1, <2>1, <2>2, <3>1 DEF DueAtTime, OrNone
    <3>2. CASE r.status = "running"
      BY <1>1, <2>1, <2>2, <3>2 DEF HeldByLease, OrNone
    <3>3. QED
      BY <2>1, <3>1, <3>2
  <2> HIDE DEF Late, Due
  <2>4. r # None /\ Late(r) <=> q # None /\ Due(q)
    BY <2>1, <2>3
  <2>5. QED
    BY <2>4 DEF r, q
<1>3. M!ClaimableJobs(mem, now) = {j \in Jobs : mem.jobs[j] # None /\ Late(mem.jobs[j])}
  BY DEF M!ClaimableJobs, M!Exists
<1>4. P!ClaimableJobs(pg, now) = {j \in Jobs : pg.jobs[j] # None /\ Due(pg.jobs[j])}
  BY DEF P!ClaimableJobs, P!Exists
<1> HIDE DEF Late, Due
<1>5. QED
  BY <1>2, <1>3, <1>4

\* The deliveries that a worker may claim: a target has deliveries only while it exists.
LEMMA ClaimableDeliveriesAgree ==
  ASSUME IInv, P!Cascade(mem) = mem
  PROVE  M!ClaimableDeliveries(mem, now) = P!ClaimableDeliveries(pg, now)
<1> DEFINE row(d) == mem.outbox[d[1]][d[2]]
           Late(d) == /\ mem.exports[d[1]] # None /\ mem.exports[d[1]].enabled
                      /\ \/ row(d).status = "queued" /\ ~(row(d).due > now)
                         \/ row(d).status = "delivering" /\ row(d).lease # None /\ ~(row(d).lease > now)
           Due(d) == /\ mem.exports[d[1]].enabled
                     /\ \/ row(d).status = "queued" /\ row(d).due <= now
                        \/ row(d).status = "delivering" /\ row(d).lease <= now
<1>1. /\ mem \in Store /\ now \in Nat /\ pg.outbox = mem.outbox /\ pg.exports = mem.exports
      /\ Addressed(mem) /\ Leased(mem) /\ Meets(mem, pg, drawn, now)
  BY WholeTables DEF IInv
<1>2. P!Deliveries(pg) = M!Deliveries(mem)
  BY <1>1 DEF P!Deliveries, M!Deliveries
<1>3. ASSUME NEW d \in M!Deliveries(mem)
      PROVE  Late(d) <=> Due(d)
  <2>1. /\ d[1] \in Targets /\ d[2] \in DOMAIN mem.outbox[d[1]] /\ row(d) \in DeliveryRow
        /\ row(d) # None /\ HeldByLease(row(d))
    BY <1>1, <1>2, <1>3, DeliveryRows
  <2>2. mem.exports[d[1]] # None
    BY <1>1, <2>1 DEF Addressed
  <2>3. row(d).due \in Nat /\ row(d).lease \in OrNone(Nat)
    BY <2>1 DEF DeliveryRow
  <2>4. row(d).status = "delivering" => row(d).lease \in Nat /\ row(d).lease # None
    BY <2>1, <2>3 DEF HeldByLease, OrNone
  <2> HIDE DEF row
  <2>5. QED
    BY <1>1, <2>2, <2>3, <2>4
<1>4. M!ClaimableDeliveries(mem, now) = {d \in M!Deliveries(mem) : Late(d)}
  BY DEF M!ClaimableDeliveries, M!Delivery, M!Exists
<1>5. P!ClaimableDeliveries(pg, now) = {d \in M!Deliveries(mem) : Due(d)}
  <2> DEFINE Q == pg.outbox
             X == pg.exports
  <2>1. P!ClaimableDeliveries(pg, now) =
          {d \in P!Deliveries(pg) :
             /\ X[d[1]].enabled
             /\ \/ Q[d[1]][d[2]].status = "queued" /\ Q[d[1]][d[2]].due <= now
                \/ Q[d[1]][d[2]].status = "delivering" /\ Q[d[1]][d[2]].lease <= now}
    BY DEF P!ClaimableDeliveries, P!Delivery
  <2>2. Q = mem.outbox /\ X = mem.exports
    BY <1>1
  <2> HIDE DEF Q, X
  <2>3. QED
    BY <1>2, <2>1, <2>2
<1> HIDE DEF Late, Due
<1>6. QED
  BY <1>3, <1>4, <1>5

\* The actions that a worker may claim.
LEMMA ClaimableActionsAgree ==
  ASSUME IInv, P!Cascade(mem) = mem
  PROVE  M!ClaimableActions(mem, now) = P!ClaimableActions(pg, now)
<1> DEFINE R == mem.responses
           Late(r) == r.status = "approved" \/ (r.status = "running" /\ r.lease # None /\ ~(r.lease > now))
           Due(r) == r.status = "approved" \/ (r.status = "running" /\ r.lease <= now)
<1>1. mem \in Store /\ now \in Nat /\ pg.responses = R /\ Leased(mem)
  BY WholeTables
<1>2. ASSUME NEW a \in Actions, R[a] # None
      PROVE  Late(R[a]) <=> Due(R[a])
  <2>1. R[a].lease \in OrNone(Nat) /\ (R[a].status = "running" => R[a].lease # None)
    BY <1>1, <1>2 DEF Store, OrNone, ActionRow, Leased, HeldByLease
  <2> HIDE DEF R
  <2>2. QED
    BY <1>1, <2>1 DEF OrNone
<1>3. M!ClaimableActions(mem, now) = {a \in Actions : R[a] # None /\ Late(R[a])}
  BY DEF M!ClaimableActions, M!Exists
<1>4. P!ClaimableActions(pg, now) = {a \in Actions : R[a] # None /\ Due(R[a])}
  <2> HIDE DEF R
  <2>1. QED
    BY <1>1 DEF P!ClaimableActions, P!Exists
<1> HIDE DEF Late, Due, R
<1>5. QED
  BY <1>2, <1>3, <1>4

\* What the two list.
LEMMA ListedAlike ==
  IInv => ReadsAgree
<1> SUFFICES ASSUME IInv, P!Cascade(mem) = mem
             PROVE  ReadsAgree
  BY DEF ReadsAgree
<1>1. \A c \in Colls : M!CollectionHosts(mem, c) = P!CollectionHosts(pg, c)
  BY CollectionHostsAgree
<1>2. \A s \in Sessions : M!SessionUser(mem, s, now) # P!SessionUser(pg, s, now)
        => Exists(mem, "sessions", s) /\ mem.sessions[s].expires = now
  BY SessionUserAgrees
<1>3. \A h \in Hosts, t \in Tokens :
        M!SensorTokenValid(mem, h, t, now) = P!SensorTokenValid(pg, h, t, now)
  BY SensorTokenValidAgrees
<1>4. ASSUME NEW n \in 0..(MaxLimit + 1), NEW f, NEW o \in {i \in Obs : Exists(mem, "obs", i)} \cup {None}
      PROVE  LET before == IF o = None THEN None ELSE [id |-> o, seen |-> mem.obs[o].seen]
             IN M!ListObservations(mem, f, before, n) = P!ListObservations(pg, f, before, n)
  <2> DEFINE before == IF o = None THEN None ELSE [id |-> o, seen |-> mem.obs[o].seen]
  <2>1. before = None \/ \E i \in Obs : mem.obs[i] # None /\ before = [id |-> i, seen |-> mem.obs[i].seen]
    BY DEF Exists
  <2> HIDE DEF before
  <2>2. M!ListObservations(mem, f, before, n) = P!ListObservations(pg, f, before, n)
    BY <2>1, ListObservationsAgree
  <2>3. QED
    BY <2>2 DEF before
<1>5. \A n \in 0..(MaxLimit + 1) : Cardinality(pg.audit) <= AuditCap =>
        \A before \in mem.audit \cup {None} :
          M!ListAuditPage(mem, before, AuditLimit(n)) = P!ListAuditPage(pg, before, n)
  BY ListAuditPageAgrees
<1>6. \A n \in 0..(MaxLimit + 1) : \A h \in Hosts \cup {None} :
        /\ M!ListScanJobs(mem, h, Clamp(n)) = P!ListScanJobs(pg, h, n)
        /\ M!ListResponseActions(mem, h, n) = P!ListResponseActions(pg, h, n)
  BY ListScanJobsAgree, ListResponseActionsAgree
<1>7. QED
  BY <1>1, <1>2, <1>3, <1>4, <1>5, <1>6, ClaimableJobsAgree, ClaimableDeliveriesAgree,
     ClaimableActionsAgree DEF ReadsAgree

\* ReadsAgree: without rows whose parent is gone the two list the same.
THEOREM StoresListAlike == Spec => []ReadsAgree
BY ListedAlike, StoresMeet, PTL

===============================================================================
