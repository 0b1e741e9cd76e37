---------------------------- MODULE CausesProofs ----------------------------
(***************************************************************************)
(* Proofs about Causes, for every set of calls, of causes and of statuses. *)
(*                                                                         *)
(* Causes adds to Connector why calls end and takes no step that Connector *)
(* does not take (CausesImplements), so IInv holds with causes too.  What  *)
(* the search of cause_map returns follows from LeastElement: the first    *)
(* row that matches, if one does, and a row of the table in any case.      *)
(*                                                                         *)
(* CInv relates the reasons of each call to its legs.  Most handlers       *)
(* cannot disturb it, because they only make calls fade: no leg comes up,  *)
(* no INVITE starts to wait, and what the MSC has begun to clear stays so; *)
(* and they only make the other calls wane: a caller is refused only when  *)
(* its MNCC leg goes too.  Each handler has a lemma that says so; the      *)
(* handlers that store or use a cause have one about the reasons as well.  *)
(***************************************************************************)
EXTENDS Causes, ConnectorProofs, LeastNumber

Cause  == {cause_map[i][2] : i \in 1 .. Rows}
Status == {cause_map[i][1] : i \in 1 .. Rows}

ReasonRec == [sip     : MscCause \cup {"unset"},
              mncc    : Cause \cup {"unset"},
              given   : MscCause \cup {"none"},
              refused : Status \cup {0},
              failed  : PeerStatus \cup {0},
              told    : Cause \cup {"unset", "none"}]

\* The INVITE of the peer is not answered yet: sip_release_call would refuse it.
Ringing(k) == k.orig = "SIP" /\ k.sip = "DLG_CNFD"

\* The MSC has begun to clear the call, or does not know it.
Cleaned(k) == k.msc \in {"NONE", "DISC"}

\* Status st is the one for cause x.
StatusFor(x, st) == \E i \in 1 .. Rows : FirstMatch(2, x, i) /\ st = cause_map[i][1]

\* Call k and its reasons s:
\*   while the caller can still be refused nothing has been stored, and no RTP_CONNECT is
\*   on its way whose failure would refuse it before the MSC gives its cause;
\*   once it was refused the MSC cannot give another cause;
\*   the cause of the MNCC leg is that of the peer's status, in the leg and in what the
\*   MSC was told.
ReasonOK(k, s) ==
    /\ s \in ReasonRec
    /\ Ringing(k) => /\ k.txn = {} /\ "RTP_CONNECT" \notin k.req
                     /\ s.sip = "unset" /\ s.given = "none"
    /\ s.refused # 0 => StatusFor(s.given, s.refused)
    /\ s.refused # 0 /\ HasMncc(k) => k.rel /\ Cleaned(k)
    /\ s.failed # 0 /\ HasMncc(k) => /\ s.mncc = status2cause(s.failed)
                                     /\ s.told = s.mncc

CInv == /\ IInv
        /\ reason \in [CallId -> ReasonRec]
        /\ \A c \in CallId : ReasonOK(calls[c], reason[c])

\* Every event of one call, with its cause or status, is one of Connector's.
LEMMA CausesCallStep ==
    ASSUME NEW c \in CallId,
           \/ \E x \in MscCause : DiscInd(c, x) \/ RelInd(c, x) \/ RejInd(c, x)
           \/ \E st \in PeerStatus : InviteFails(c, st)
           \/ \E ok \in BOOLEAN : InviteOk(c, ok) \/ RtpConnect(c, ok)
           \/ PeerEnds(c) \/ RtpCreate(c) \/ NoOtherLeg(c) \/ SetUp(c) \/ NoCause(c)
           \/ \E fate \in {"malformed", "no_audio", "routed"} : CallerInvites(c, fate)
    PROVE  mncc_data(c) \/ nua_callback(c) \/ CmdTimeout(c) \/ MscDropsCall(c)
<1>1. CASE \E x \in MscCause : DiscInd(c, x) \/ RelInd(c, x) \/ RejInd(c, x)
    BY <1>1 DEF DiscInd, RelInd, RejInd, mncc_data
<1>2. CASE \E st \in PeerStatus : InviteFails(c, st)
    BY <1>2 DEF InviteFails, nua_callback
<1>3. CASE \E ok \in BOOLEAN : InviteOk(c, ok) \/ RtpConnect(c, ok)
    BY <1>3 DEF InviteOk, RtpConnect, nua_callback, mncc_data
<1>4. CASE PeerEnds(c)
    BY <1>4 DEF PeerEnds, nua_callback
<1>5. CASE RtpCreate(c) \/ NoOtherLeg(c) \/ SetUp(c)
    BY <1>5 DEF RtpCreate, NoOtherLeg, SetUp, mncc_data
<1>6. CASE NoCause(c)
    BY <1>6 DEF NoCause, mncc_data, nua_callback
<1>7. CASE \E fate \in {"malformed", "no_audio", "routed"} : CallerInvites(c, fate)
    BY <1>7 DEF CallerInvites, nua_callback
<1>8. QED BY <1>1, <1>2, <1>3, <1>4, <1>5, <1>6, <1>7

\* Every step with reasons is a step of the event loop, or leaves it alone.
LEMMA CausesStep == [CausesNext]_cvars => [Next]_vars
<1> SUFFICES ASSUME [CausesNext]_cvars PROVE [Next]_vars
    OBVIOUS
<1>1. CASE UNCHANGED cvars
    BY <1>1 DEF cvars, vars
<1>2. CASE Connection \/ VtyShows
    BY <1>2 DEF Connection, VtyShows, Next
<1>3. QED BY <1>1, <1>2, CausesCallStep DEF CausesNext, Next

\* The connector with causes implements the connector without.
THEOREM CausesImplements == CausesSpec => Spec
BY CausesStep, PTL DEF CausesSpec, CausesInit, Spec

-----------------------------------------------------------------------------
(* The table and its search.                                               *)

\* The table has rows.
LEMMA RowsType == Rows \in Nat /\ 1 <= Rows
BY DEF Rows, cause_map

\* From every row on there is a first match, which the last row is if there is no other.
LEMMA MatchFrom ==
    ASSUME NEW col, NEW v, NEW i \in 1 .. Rows
    PROVE  \E m \in i .. Rows : /\ m = Rows \/ cause_map[m][col] = v
                                /\ \A j \in i .. m - 1 : cause_map[j][col] # v
<1> DEFINE S == {m \in i .. Rows : m = Rows \/ cause_map[m][col] = v}
<1>1. S \subseteq Nat /\ Rows \in S
    BY RowsType
<1>2. PICK m \in S : \A n \in S : m <= n
    BY <1>1, LeastElement
<1>3. m \in i .. Rows /\ (m = Rows \/ cause_map[m][col] = v)
    OBVIOUS
<1>4. \A j \in i .. m - 1 : j \in i .. Rows /\ ~(m <= j)
    BY <1>3, RowsType
<1>5. QED BY <1>2, <1>3, <1>4

\* The loop finds the first match.
LEMMA SearchFinds ==
    ASSUME NEW col, NEW v
    PROVE  Search(col, v) \in 1 .. Rows /\ FirstMatch(col, v, Search(col, v))
<1> DEFINE Hit(m) == cause_map[m][col] = v
           First(i, m) == /\ m \in i .. Rows
                          /\ m = Rows \/ Hit(m)
                          /\ \A j \in i .. m - 1 : ~ Hit(j)
           f == CHOOSE g : g = [i \in 1 .. Rows |->
                    IF i = Rows THEN Rows ELSE IF Hit(i) THEN i ELSE g[i + 1]]
           e == [i \in 1 .. Rows |-> CHOOSE m : First(i, m)]
<1>1. \A i \in 1 .. Rows : First(i, e[i])
    <2> SUFFICES ASSUME NEW i \in 1 .. Rows PROVE First(i, e[i])
        OBVIOUS
    <2>1. \E m : First(i, m)
        <3>1. PICK m \in i .. Rows : /\ m = Rows \/ cause_map[m][col] = v
                                     /\ \A j \in i .. m - 1 : cause_map[j][col] # v
            BY MatchFrom, Zenon
        <3>2. QED BY <3>1
    <2> HIDE DEF First
    <2>2. First(i, CHOOSE m : First(i, m))
        BY <2>1
    <2>3. QED BY <2>2
<1>2. Search(col, v) = f[1]
    BY Zenon DEF Search
<1> HIDE DEF Hit, e
<1>3. \A i \in 1 .. Rows : \A m, n : First(i, m) /\ First(i, n) => m = n
    BY RowsType
<1>4. \A i \in 1 .. Rows : e[i] = IF i = Rows THEN Rows ELSE IF Hit(i) THEN i ELSE e[i + 1]
    <2> SUFFICES ASSUME NEW i \in 1 .. Rows
                 PROVE  e[i] = IF i = Rows THEN Rows ELSE IF Hit(i) THEN i ELSE e[i + 1]
        OBVIOUS
    <2>1. CASE i = Rows
        BY <1>1, <2>1, RowsType
    <2>2. CASE i # Rows /\ Hit(i)
        BY <1>1, <1>3, <2>2, RowsType
    <2>3. CASE i # Rows /\ ~ Hit(i)
        <3>1. i + 1 \in 1 .. Rows /\ First(i + 1, e[i + 1])
            BY <1>1, <2>3, RowsType
        <3>2. First(i, e[i + 1])
            BY <2>3, <3>1, RowsType
        <3>3. QED BY <1>1, <1>3, <2>3, <3>2
    <2>4. QED BY <2>1, <2>2, <2>3
<1>5. e = [i \in 1 .. Rows |-> IF i = Rows THEN Rows ELSE IF Hit(i) THEN i ELSE e[i + 1]]
    <2>1. e = [i \in 1 .. Rows |-> e[i]]
        BY DEF e
    <2> HIDE DEF First
    <2>2. QED BY <1>4, <2>1
<1>6. f = [i \in 1 .. Rows |-> IF i = Rows THEN Rows ELSE IF Hit(i) THEN i ELSE f[i + 1]]
    BY <1>5, Zenon
<1> HIDE DEF f
<1>7. f[1] = e[1]
    <2> DEFINE D == {n \in 0 .. Rows - 1 : f[Rows - n] # e[Rows - n]}
    <2>1. SUFFICES D = {}
        <3>1. Rows - 1 \in 0 .. Rows - 1 /\ Rows - (Rows - 1) = 1
            BY RowsType
        <3>2. QED BY <3>1
    <2>2. SUFFICES ASSUME D # {} PROVE FALSE
        OBVIOUS
    <2>3. PICK n \in D : \A m \in D : n <= m
        <3>1. D \subseteq Nat
            BY RowsType
        <3> HIDE DEF D
        <3>2. QED BY <2>2, <3>1, LeastElement
    <2> DEFINE i == Rows - n
    <2>4. i \in 1 .. Rows /\ n \in Nat /\ f[i] # e[i]
        BY RowsType
    <2>5. i # Rows /\ ~ Hit(i) /\ f[i + 1] # e[i + 1]
        BY <1>4, <1>6, <2>4
    <2>6. n - 1 \in 0 .. Rows - 1 /\ Rows - (n - 1) = i + 1
        BY <2>4, <2>5, RowsType
    <2>7. n - 1 \in D
        BY <2>5, <2>6
    <2>8. QED BY <2>3, <2>4, <2>7
<1>8. First(1, f[1])
    BY <1>1, <1>7, RowsType
<1>9. QED BY <1>2, <1>8 DEF FirstMatch, Hit

\* No row is for a leg without a cause.
LEMMA NoRowUnset == \A i \in 1 .. Rows : cause_map[i][2] # "unset" /\ cause_map[i][2] # "none"
<1>1. Rows = 43
    BY DEF Rows, cause_map
<1>2. QED BY <1>1 DEF cause_map

\* The search yields causes and statuses of the table, and for a cause the status of its
\* first row.
LEMMA MapTypes ==
    /\ \A st : status2cause(st) \in Cause
    /\ \A x : cause2status(x) \in Status /\ StatusFor(x, cause2status(x))
BY SearchFinds DEF status2cause, cause2status, Cause, Status, StatusFor

\* A leg without a cause gets the status of a call to which the MSC gave no cause.
LEMMA UnsetStatus == StatusFor("none", cause2status("unset"))
<1>1. PICK i \in 1 .. Rows : FirstMatch(2, "unset", i) /\ cause2status("unset") = cause_map[i][1]
    BY MapTypes DEF StatusFor
<1>2. i = Rows
    BY <1>1, NoRowUnset DEF FirstMatch
<1>3. FirstMatch(2, "none", i)
    BY <1>2, NoRowUnset, RowsType DEF FirstMatch
<1>4. QED BY <1>1, <1>3 DEF StatusFor

-----------------------------------------------------------------------------
(* What handlers do to the reasons.                                        *)

\* A call without history has stored nothing and told nobody.
LEMMA NoReasonFields ==
    /\ NoReason \in ReasonRec
    /\ NoReason.sip = "unset" /\ NoReason.given = "none"
    /\ NoReason.refused = 0 /\ NoReason.failed = 0
BY DEF NoReason, ReasonRec

\* sip_release_call: the refusal is the status of the cause stored in the SIP leg, and
\* nothing else changes.
LEMMA RefuseFields ==
    ASSUME NEW s \in ReasonRec
    PROVE  LET t == Refuse(s) IN
           /\ t \in ReasonRec
           /\ t.sip = s.sip /\ t.mncc = s.mncc /\ t.given = s.given /\ t.failed = s.failed
           /\ t.told = s.told
           /\ t.refused = cause2status(s.sip)
BY MapTypes DEF Refuse, ReasonRec

\* mncc_fill_header: the MSC is told the cause of the MNCC leg, and nothing else changes.
LEMMA FillFields ==
    ASSUME NEW s \in ReasonRec
    PROVE  LET t == mncc_fill_header(s) IN
           /\ t \in ReasonRec
           /\ t.sip = s.sip /\ t.mncc = s.mncc /\ t.given = s.given /\ t.failed = s.failed
           /\ t.refused = s.refused
           /\ t.told = s.mncc
BY DEF mncc_fill_header, ReasonRec

\* A cause of the MSC is stored in the SIP leg; the first one is remembered as given.
LEMMA GiveFields ==
    ASSUME NEW s \in ReasonRec, NEW x \in MscCause
    PROVE  LET t == Give(s, x) IN
           /\ t \in ReasonRec
           /\ t.mncc = s.mncc /\ t.failed = s.failed /\ t.refused = s.refused /\ t.told = s.told
           /\ t.sip = x
           /\ t.given = IF s.given = "none" THEN x ELSE s.given
BY DEF Give, ReasonRec

\* Causes die with their legs.
LEMMA KeepFields ==
    ASSUME NEW s \in ReasonRec, NEW l
    PROVE  LET t == KeepCauses(l, s) IN
           /\ t \in ReasonRec
           /\ t.given = s.given /\ t.failed = s.failed /\ t.refused = s.refused /\ t.told = s.told
           /\ t.sip = IF HasSip(l) THEN s.sip ELSE "unset"
           /\ t.mncc = IF HasMncc(l) THEN s.mncc ELSE "unset"
BY DEF KeepCauses, ReasonRec

\* What the MSC is told is the cause of the MNCC leg.
LEMMA FillGood ==
    ASSUME NEW k, NEW s, ReasonOK(k, s)
    PROVE  ReasonOK(k, mncc_fill_header(s))
BY FillFields DEF ReasonOK

\* So it is with a release that may find the MSC not to be told.
LEMMA TellGood ==
    ASSUME NEW k, NEW l, NEW s, ReasonOK(k, s)
    PROVE  ReasonOK(k, TellMsc(l, s))
BY FillGood DEF TellMsc

-----------------------------------------------------------------------------
(* What handlers do to the calls, as far as the reasons depend on it.      *)

\* From k to l no leg comes up, no INVITE starts to wait, what the MSC has begun to clear
\* stays that way.
Fades(k, l) ==
    /\ Ringing(l) => /\ Ringing(k)
                     /\ l.txn \subseteq k.txn
                     /\ "RTP_CONNECT" \in l.req => "RTP_CONNECT" \in k.req
    /\ HasMncc(l) => HasMncc(k) /\ (k.rel => l.rel)
    /\ Cleaned(k) => Cleaned(l)

\* And a caller is refused only together with the MNCC leg.
Wanes(k, l) == Fades(k, l) /\ (Ringing(k) /\ ~HasSip(l) => ~HasMncc(l))

\* A call that is left alone fades and wanes.
LEMMA FadesSame == \A k : Fades(k, k) /\ Wanes(k, k)
BY DEF Fades, Wanes, Ringing, HasSip

\* Fading composes, so that a handler is dealt with call by call of its helpers.
LEMMA FadesTrans == \A k, l, m : Fades(k, l) /\ Fades(l, m) => Fades(k, m)
BY DEF Fades

\* A leg that is freed takes its cause along, and that is all.
LEMMA KeepGood ==
    ASSUME NEW k, NEW l, NEW s, ReasonOK(k, s), Fades(k, l)
    PROVE  ReasonOK(l, KeepCauses(l, s))
<1>1. s \in ReasonRec
    BY DEF ReasonOK
<1> DEFINE t == KeepCauses(l, s)
<1>2. /\ t \in ReasonRec
      /\ t.given = s.given /\ t.failed = s.failed /\ t.refused = s.refused /\ t.told = s.told
      /\ t.sip = IF HasSip(l) THEN s.sip ELSE "unset"
      /\ t.mncc = IF HasMncc(l) THEN s.mncc ELSE "unset"
    BY <1>1, KeepFields
<1> HIDE DEF t
<1>3. ReasonOK(l, t)
    BY <1>2 DEF ReasonOK, Fades
<1>4. QED BY <1>3 DEF t

\* A caller that is refused before the MSC gave a cause is told the default.
LEMMA RefuseGood ==
    ASSUME NEW k, NEW l, NEW s, ReasonOK(k, s), Wanes(k, l)
    PROVE  ReasonOK(l, KeepCauses(l, RefuseIfDropped(k, l, s)))
<1>1. s \in ReasonRec
    BY DEF ReasonOK
<1>2. CASE ~(Ringing(k) /\ ~HasSip(l))
    BY <1>2, KeepGood DEF RefuseIfDropped, Ringing, Wanes
<1>3. CASE Ringing(k) /\ ~HasSip(l)
    <2> DEFINE r == Refuse(s)  t == KeepCauses(l, r)
    <2>1. /\ r \in ReasonRec /\ r.given = s.given /\ r.refused = cause2status(s.sip)
          /\ s.given = "none" /\ s.sip = "unset" /\ ~HasMncc(l) /\ ~Ringing(l)
        BY <1>1, <1>3, RefuseFields DEF ReasonOK, Wanes, Ringing, HasSip
    <2> HIDE DEF r
    <2>2. t \in ReasonRec /\ t.given = r.given /\ t.refused = r.refused
        BY <2>1, KeepFields
    <2> HIDE DEF t
    <2>3. ReasonOK(l, t)
        BY <2>1, <2>2, UnsetStatus DEF ReasonOK
    <2>4. QED BY <1>3, <2>3 DEF RefuseIfDropped, Ringing, t, r
<1>4. QED BY <1>2, <1>3

\* The cause of the MSC is stored before the SIP leg is released.
LEMMA GiveGood ==
    ASSUME NEW k, NEW l, NEW s, NEW x \in MscCause, ReasonOK(k, s), Fades(k, l),
           HasMncc(k), ~(k.rel /\ Cleaned(k)),
           Ringing(k) => ~HasSip(l) /\ (HasMncc(l) => l.rel /\ Cleaned(l))
    PROVE  ReasonOK(l, KeepCauses(l, RefuseIfDropped(k, l, Give(s, x))))
<1> DEFINE g == Give(s, x)
<1>1. s \in ReasonRec /\ s.refused = 0
    BY DEF ReasonOK
<1>2. /\ g \in ReasonRec
      /\ g.mncc = s.mncc /\ g.failed = s.failed /\ g.refused = 0 /\ g.told = s.told
      /\ g.sip = x
      /\ g.given = IF s.given = "none" THEN x ELSE s.given
    BY <1>1, GiveFields
<1> HIDE DEF g
<1>3. CASE ~Ringing(k)
    <2>1. ReasonOK(k, g)
        BY <1>2, <1>3 DEF ReasonOK
    <2>2. QED BY <1>3, <2>1, KeepGood DEF RefuseIfDropped, Ringing, g
<1>4. CASE Ringing(k)
    <2> DEFINE r == Refuse(g)  t == KeepCauses(l, r)
    <2>1. /\ r \in ReasonRec /\ r.given = g.given /\ r.refused = cause2status(x)
          /\ r.mncc = g.mncc /\ r.failed = g.failed /\ r.told = g.told
        BY <1>2, RefuseFields
    <2>2. g.given = x /\ ~HasSip(l) /\ ~Ringing(l) /\ (HasMncc(l) => l.rel /\ Cleaned(l))
        BY <1>2, <1>4 DEF ReasonOK, Ringing, HasSip
    <2> HIDE DEF r
    <2>3. /\ t \in ReasonRec /\ t.given = r.given /\ t.refused = r.refused
          /\ t.failed = r.failed /\ t.told = r.told /\ (HasMncc(l) => t.mncc = r.mncc)
        BY <2>1, KeepFields
    <2> HIDE DEF t
    <2>4. ReasonOK(l, t)
        <3>1. StatusFor(t.given, t.refused)
            BY <2>1, <2>2, <2>3, MapTypes
        <3>2. QED BY <1>2, <2>1, <2>2, <2>3, <3>1 DEF ReasonOK, Fades
    <2>5. QED BY <1>4, <2>2, <2>4 DEF RefuseIfDropped, Ringing, t, r, g
<1>5. QED BY <1>3, <1>4

\* The status of the peer is stored as a cause before the MNCC leg is released.
LEMMA FailedGood ==
    ASSUME NEW k, NEW l, NEW s, NEW st \in PeerStatus, ReasonOK(k, s), Fades(k, l),
           HasMncc(l) => conn' = "READY" /\ (k.mncc # "INITIAL" \/ k.orig = "SIP"),
           NEW t, t = IF HasMncc(k)
                      THEN TellMsc(k, [[s EXCEPT !.failed = st] EXCEPT !.mncc = status2cause(st)])
                      ELSE [s EXCEPT !.failed = st]
    PROVE  ReasonOK(l, KeepCauses(l, t))
<1> DEFINE f == [s EXCEPT !.failed = st]
           g == [f EXCEPT !.mncc = status2cause(st)]
<1>1. s \in ReasonRec
    BY DEF ReasonOK
<1>2. /\ f \in ReasonRec /\ f.failed = st
      /\ f.sip = s.sip /\ f.given = s.given /\ f.refused = s.refused
    BY <1>1 DEF ReasonRec
<1> HIDE DEF f
<1>3. /\ g \in ReasonRec /\ g.failed = st /\ g.mncc = status2cause(st)
      /\ g.sip = s.sip /\ g.given = s.given /\ g.refused = s.refused
    BY <1>2, MapTypes DEF ReasonRec
<1> HIDE DEF g
<1>4. /\ t \in ReasonRec /\ t.failed = st
      /\ t.sip = s.sip /\ t.given = s.given /\ t.refused = s.refused
      /\ HasMncc(l) => t.mncc = status2cause(st) /\ t.told = status2cause(st)
    <2>1. CASE HasMncc(l)
        <3>1. t = mncc_fill_header(g)
            BY <2>1 DEF TellMsc, Fades, f, g
        <3>2. QED BY <1>3, <3>1, FillFields
    <2>2. CASE HasMncc(k) /\ ~HasMncc(l)
        <3>1. t = TellMsc(k, g)
            BY <2>2 DEF f, g
        <3>2. t = g \/ t = mncc_fill_header(g)
            BY <3>1 DEF TellMsc
        <3>3. QED BY <1>3, <2>2, <3>2, FillFields
    <2>3. CASE ~HasMncc(k) /\ ~HasMncc(l)
        BY <1>2, <2>3 DEF f
    <2>4. QED BY <2>1, <2>2, <2>3
<1> DEFINE u == KeepCauses(l, t)
<1>5. /\ u \in ReasonRec
      /\ u.given = t.given /\ u.failed = t.failed /\ u.refused = t.refused /\ u.told = t.told
      /\ u.sip = IF HasSip(l) THEN t.sip ELSE "unset"
      /\ u.mncc = IF HasMncc(l) THEN t.mncc ELSE "unset"
    BY <1>4, KeepFields
<1> HIDE DEF u
<1>6. ReasonOK(l, u)
    BY <1>4, <1>5 DEF ReasonOK, Fades
<1>7. QED BY <1>6 DEF u

-----------------------------------------------------------------------------
(* How handlers end.                                                       *)

\* The handler has ended after call c was k.
Ended(c, k) == /\ Fades(k, calls'[c])
               /\ HasMncc(calls'[c]) => calls'[c].sip = k.sip
               /\ \A d \in CallId \ {c} : Wanes(calls[d], calls'[d])

\* What IInv says of one call.
LEMMA CallBase == IInv => \A c \in CallId : Base(calls[c]) /\ calls[c] \in CallRec
BY DEF IInv, Good, Base

\* A call that is gone has faded.
LEMMA NoCallFades == \A k : Fades(k, NoCall) /\ ~HasMncc(NoCall)
BY NoCallFields DEF Fades, Ringing, HasMncc, Cleaned

\* sip_release_call refuses the caller whose INVITE waits.
LEMMA ReleaseSipFades ==
    ASSUME NEW k \in CallRec
    PROVE  LET l == release_other_sip(k) IN
           /\ l \in CallRec
           /\ Fades(k, l)
           /\ Ringing(k) => ~HasSip(l)
           /\ HasMncc(l) <=> HasMncc(k)
<1> USE DEF HasMncc, HasSip, Fades, Ringing, Cleaned
<1>2. CASE ~HasSip(k)
    BY <1>2 DEF release_other_sip
<1>3. CASE HasSip(k) /\ k.sip = "DLG_CNFD" /\ k.orig = "MNCC"
    BY <1>3, CancelFields DEF release_other_sip, sip_release_call
<1>4. CASE k.sip = "INITIAL" \/ (k.sip = "DLG_CNFD" /\ k.orig # "MNCC")
    BY <1>4, DropSipFields DEF release_other_sip, sip_release_call
<1>5. CASE k.sip \in {"CONNECTED", "HOLD"}
    BY <1>5, ByeFields DEF release_other_sip, sip_release_call
<1>6. QED BY <1>2, <1>3, <1>4, <1>5 DEF CallRec, SipState

\* The SIP leg goes: fading.
LEMMA DropSipFades ==
    ASSUME NEW k \in CallRec
    PROVE  Fades(k, DropSip(k))
BY DropSipFields DEF Fades, Ringing, HasMncc, Cleaned

\* The MNCC leg goes: fading.
LEMMA FreeMnccFades ==
    ASSUME NEW k \in CallRec
    PROVE  Fades(k, mncc_leg_release(k)) /\ ~HasMncc(mncc_leg_release(k))
BY FreeMnccFields DEF Fades, Ringing, HasMncc, HasSip, Cleaned

\* The MSC forgets the call: fading.
LEMMA MscGoneFades ==
    ASSUME NEW k \in CallRec
    PROVE  Fades(k, MscGone(k))
BY MscGoneFields DEF Fades, Ringing, HasMncc, Cleaned

\* A request to the MSC: fading, unless it is RTP_CONNECT for a caller that still waits.
LEMMA AskFades ==
    ASSUME NEW k \in CallRec, NEW m \in MscRequest, m # "RTP_CONNECT" \/ ~Ringing(k)
    PROVE  Fades(k, Ask(k, m))
BY AskFields DEF Fades, Ringing, HasMncc, Cleaned

\* The connection is lost: fading, and no MNCC leg is left.
LEMMA DisconnectFades ==
    ASSUME NEW k \in CallRec
    PROVE  Fades(k, app_mncc_disconnected(k)) /\ ~HasMncc(app_mncc_disconnected(k))
<1> DEFINE r == release_other_sip(k)
           d == mncc_leg_release(r)
<1>1. CASE ~HasMncc(k)
    BY <1>1, MscGoneFades, MscGoneFields DEF app_mncc_disconnected, HasMncc
<1>2. CASE HasMncc(k)
  <2>1. Fades(k, r) /\ r \in CallRec
      BY ReleaseSipFades
  <2> HIDE DEF r
  <2>2. Fades(r, d) /\ ~HasMncc(d) /\ d \in CallRec
      BY <2>1, FreeMnccFades, FreeMnccFields
  <2> HIDE DEF d
  <2>3. Fades(d, MscGone(d)) /\ ~HasMncc(MscGone(d))
      BY <2>2, MscGoneFades, MscGoneFields DEF HasMncc
  <2>4. Fades(k, MscGone(d))
      BY <2>1, <2>2, <2>3, FadesTrans
  <2>5. QED BY <1>2, <2>3, <2>4 DEF app_mncc_disconnected, d, r
<1>3. QED BY <1>1, <1>2

\* A handler that ends normally leaves its call as it made it.
LEMMA EndedDone ==
    ASSUME IInv, NEW c \in CallId, NEW k, Done(c, k)
    PROVE  Ended(c, k) /\ calls'[c] = k /\ conn' = conn
BY FadesSame DEF IInv, Done, Ended

\* A write that fails takes every MNCC leg along.
LEMMA EndedFail ==
    ASSUME IInv, NEW c \in CallId, NEW k \in CallRec,
           WriteFails(c, k) \/ WriteFailsLegUsed(c, k)
    PROVE  Ended(c, k) /\ ~HasMncc(calls'[c]) /\ conn' = "DISCONNECTED"
<1>1. CASE close_connection(c, k)
  <2>1. conn' = "DISCONNECTED"
        /\ \A d \in CallId : calls'[d] = app_mncc_disconnected(IF d = c THEN k ELSE calls[d])
      BY <1>1 DEF close_connection
  <2>2. Fades(k, calls'[c]) /\ ~HasMncc(calls'[c])
      BY <2>1, DisconnectFades
  <2>3. \A d \in CallId \ {c} : Wanes(calls[d], calls'[d])
      BY <2>1, CallBase, DisconnectFades DEF Wanes
  <2>4. QED BY <2>1, <2>2, <2>3 DEF Ended
<1>2. CASE Restart("use_after_free")
    BY <1>2, NoCallFades DEF Restart, Ended, Wanes
<1>3. QED BY <1>1, <1>2 DEF WriteFails, WriteFailsLegUsed

\* mncc_call_leg_release: the leg that stays is in release and the MSC was told.
LEMMA EndedRelease ==
    ASSUME IInv, NEW c \in CallId, NEW k \in CallRec, release_mncc(c, k)
    PROVE  /\ Ended(c, k)
           /\ HasMncc(calls'[c]) => conn' = "READY" /\ (k.mncc # "INITIAL" \/ k.orig # "MNCC")
<1>2. CASE Done(c, mncc_leg_release(k))
    <2>1. calls'[c] = mncc_leg_release(k) /\ \A d \in CallId \ {c} : calls'[d] = calls[d]
        BY <1>2 DEF Done, IInv
    <2>2. QED BY <2>1, FreeMnccFades, FadesSame DEF Ended
<1>3. CASE conn = "READY" /\ Done(c, mncc_call_leg_release(k))
    <2> DEFINE l == mncc_call_leg_release(k)
    <2>1. /\ calls'[c] = l /\ conn' = "READY"
          /\ \A d \in CallId \ {c} : calls'[d] = calls[d]
        BY <1>3 DEF Done, IInv
    <2>2. /\ Fades(k, l)
          /\ HasMncc(l) => l.sip = k.sip
          /\ HasMncc(l) => k.mncc # "INITIAL" \/ k.orig # "MNCC"
        <3> DEFINE rk == [k EXCEPT !.rel = TRUE]
        <3>1. /\ rk \in CallRec /\ rk.rel
              /\ rk.orig = k.orig /\ rk.mncc = k.mncc /\ rk.sip = k.sip
              /\ rk.txn = k.txn /\ rk.msc = k.msc /\ rk.req = k.req
            BY DEF CallRec
        <3> HIDE DEF rk
        <3>2. CASE k.mncc # "INITIAL"
            <4>1. l = start_cmd_timer(rk, "REL_IND")
                BY <3>2 DEF mncc_call_leg_release, rk
            <4>2. QED
                BY <3>1, <3>2, <4>1, StartTimerFields
                   DEF Wanted, Fades, Ringing, HasMncc, Cleaned
        <3>3. CASE k.mncc = "INITIAL" /\ k.orig = "MNCC"
            <4> DEFINE a == Ask(k, "REJ_REQ")
            <4>1. a \in CallRec /\ Fades(k, a)
                BY AskFields, AskFades DEF MscRequest
            <4> HIDE DEF a
            <4>2. l = mncc_leg_release(a)
                BY <3>3 DEF mncc_call_leg_release, a
            <4>3. QED BY <4>1, <4>2, FreeMnccFades, FadesTrans
        <3>4. CASE k.mncc = "INITIAL" /\ k.orig # "MNCC"
            <4> DEFINE t == start_cmd_timer(rk, "REL_CNF")
            <4>1. t \in CallRec /\ Fades(k, t) /\ t.sip = k.sip
                BY <3>1, StartTimerFields DEF Wanted, Fades, Ringing, HasMncc, Cleaned
            <4> HIDE DEF t
            <4>2. l = Ask(t, "REL_REQ")
                BY <3>4 DEF mncc_call_leg_release, t, rk
            <4>3. Fades(t, Ask(t, "REL_REQ")) /\ Ask(t, "REL_REQ").sip = t.sip
                BY <4>1, AskFades, AskFields DEF MscRequest
            <4> HIDE DEF l
            <4>4. QED BY <3>4, <4>1, <4>2, <4>3, FadesTrans
        <3>5. QED BY <3>2, <3>3, <3>4
    <2> HIDE DEF l
    <2>3. QED BY <2>1, <2>2, FadesSame DEF Ended
<1>4. CASE WriteFailsLegUsed(c, k) \/ WriteFails(c, k)
    BY <1>4, EndedFail
<1>5. QED BY <1>2, <1>3, <1>4 DEF release_mncc

-----------------------------------------------------------------------------
(* Every handler but those that make a call.                               *)

\* Every caller that is refused loses its MNCC leg too.
StepWanes == \A d \in CallId : Wanes(calls[d], calls'[d])

\* The same, but call c may lose its SIP leg alone.
Moves(c) == /\ Fades(calls[c], calls'[c])
            /\ \A d \in CallId \ {c} : Wanes(calls[d], calls'[d])

\* A handler that makes its call fade moves it; it makes all calls wane unless it refuses
\* a caller and leaves its MNCC leg.
LEMMA EndedMoves ==
    ASSUME NEW c \in CallId, NEW k, Fades(calls[c], k), Ended(c, k)
    PROVE  /\ Moves(c)
           /\ (Ringing(calls[c]) /\ HasMncc(k) => HasSip(k)) => StepWanes
<1>1. Moves(c)
    BY FadesTrans DEF Ended, Moves
<1>2. ASSUME Ringing(calls[c]) /\ HasMncc(k) => HasSip(k)
      PROVE  Wanes(calls[c], calls'[c])
    BY <1>1, <1>2 DEF Moves, Wanes, Ended, Fades, HasSip
<1>3. QED BY <1>1, <1>2 DEF Moves, StepWanes

\* The handler ends with the MNCC leg freed.
LEMMA FreedWanes ==
    ASSUME IInv, NEW c \in CallId, NEW k \in CallRec, Fades(calls[c], k),
           Done(c, mncc_leg_release(k))
    PROVE  StepWanes /\ ~HasMncc(calls'[c]) /\ calls'[c].sip = k.sip
<1> DEFINE l == mncc_leg_release(k)
<1>1. Fades(k, l) /\ ~HasMncc(l) /\ l.sip = k.sip
    BY FreeMnccFades, FreeMnccFields
<1> HIDE DEF l
<1>2. Fades(calls[c], l) /\ Ended(c, l) /\ calls'[c] = l
    BY <1>1, FadesTrans, EndedDone DEF l
<1>3. QED BY <1>1, <1>2, EndedMoves

\* check_rel_ind, check_rej_ind: the SIP leg is released first, unless the MNCC leg was
\* in release.
LEMMA RelIndWanes ==
    ASSUME IInv, NEW c \in CallId, check_rel_ind(c)
    PROVE  /\ StepWanes /\ ~HasMncc(calls'[c])
           /\ ~calls[c].rel => (Ringing(calls[c]) => ~HasSip(calls'[c]))
<1> DEFINE v == calls[c]
           g == MscGone(v)
           r == release_other_sip(g)
<1>1. v \in CallRec
    BY DEF IInv
<1>2. Done(c, mncc_leg_release(IF g.rel THEN g ELSE r))
    BY DEF check_rel_ind
<1>3. g \in CallRec /\ Fades(v, g) /\ (Ringing(v) => Ringing(g)) /\ g.rel = v.rel
    BY <1>1, MscGoneFields, MscGoneFades DEF Ringing
<1> HIDE DEF g
<1>4. r \in CallRec /\ Fades(g, r) /\ (Ringing(g) => ~HasSip(r))
    BY <1>3, ReleaseSipFades
<1> HIDE DEF r, v
<1>5. Fades(v, r)
    BY <1>3, <1>4, FadesTrans
<1>6. QED BY <1>2, <1>3, <1>4, <1>5, FreedWanes DEF HasSip, v

\* check_rej_ind ends both legs together.
LEMMA RejIndWanes ==
    ASSUME IInv, NEW c \in CallId, check_rej_ind(c)
    PROVE  /\ StepWanes /\ ~HasMncc(calls'[c])
           /\ Ringing(calls[c]) => ~HasSip(calls'[c])
<1> DEFINE v == calls[c]
           g == MscGone(v)
           r == release_other_sip(g)
<1>1. v \in CallRec
    BY DEF IInv
<1>2. Done(c, mncc_leg_release(r))
    BY DEF check_rej_ind
<1>3. g \in CallRec /\ Fades(v, g) /\ (Ringing(v) => Ringing(g))
    BY <1>1, MscGoneFields, MscGoneFades DEF Ringing
<1> HIDE DEF g
<1>4. r \in CallRec /\ Fades(g, r) /\ (Ringing(g) => ~HasSip(r))
    BY <1>3, ReleaseSipFades
<1> HIDE DEF r, v
<1>5. Fades(v, r)
    BY <1>3, <1>4, FadesTrans
<1>6. QED BY <1>2, <1>3, <1>4, <1>5, FreedWanes DEF HasSip, v

\* REL_CNF, the timer, and a call the MSC drops on its own.
LEMMA FreedByOther ==
    ASSUME IInv, NEW c \in CallId, check_rel_cnf(c) \/ CmdTimeout(c) \/ MscDropsCall(c)
    PROVE  StepWanes
<1> DEFINE v == calls[c]
           g == MscGone(v)
           r == release_other_sip(v)
<1>1. v \in CallRec
    BY DEF IInv
<1>2. Done(c, mncc_leg_release(g)) \/ Done(c, mncc_leg_release(r)) \/ Done(c, g)
    BY DEF check_rel_cnf, CmdTimeout, cmd_timeout, MscDropsCall
<1>3. g \in CallRec /\ Fades(v, g) /\ (Ringing(v) => HasSip(g))
    BY <1>1, MscGoneFields, MscGoneFades DEF Ringing, HasSip
<1>4. r \in CallRec /\ Fades(v, r)
    BY <1>1, ReleaseSipFades
<1> HIDE DEF g, r
<1>5. QED BY <1>2, <1>3, <1>4, FreedWanes, EndedDone, EndedMoves

\* check_disc_ind: the caller is refused, with the MNCC leg in release, or the connection
\* is lost.
LEMMA DiscIndMoves ==
    ASSUME IInv, NEW c \in CallId, check_disc_ind(c)
    PROVE  /\ Moves(c)
           /\ conn' = "READY" => /\ Ringing(calls[c]) => ~HasSip(calls'[c])
                                 /\ calls'[c].rel /\ Cleaned(calls'[c])
           /\ conn' # "READY" => StepWanes
<1> DEFINE v == calls[c]
           t == start_cmd_timer(v, "REL_CNF")
           k == [t EXCEPT !.rel = TRUE, !.msc = "DISC"]
           a == Ask(k, "REL_REQ")
           r == release_other_sip(a)
<1>1. v \in CallRec /\ Base(v) /\ HasMncc(v) /\ conn = "READY"
    BY CallBase DEF check_disc_ind, ForLeg, FromMsc
<1>2. Done(c, r) \/ WriteFailsLegUsed(c, k)
    BY DEF check_disc_ind
<1>3. /\ t \in CallRec /\ t.mncc = v.mncc /\ t.orig = v.orig /\ t.sip = v.sip
      /\ t.txn = v.txn /\ t.req = v.req
    BY <1>1, StartTimerFields DEF Wanted
<1> HIDE DEF t
<1>4. /\ k \in CallRec /\ k.mncc = v.mncc /\ k.orig = v.orig /\ k.sip = v.sip
      /\ k.txn = v.txn /\ k.req = v.req /\ k.rel /\ k.msc = "DISC"
    BY <1>3 DEF CallRec, MscState
<1> HIDE DEF k
<1>5. Fades(v, k) /\ (Ringing(v) => Ringing(k) /\ HasSip(k)) /\ HasMncc(k)
    BY <1>1, <1>4 DEF Fades, Ringing, HasMncc, HasSip, Cleaned
<1>6. /\ a \in CallRec /\ Fades(k, a) /\ (Ringing(k) => Ringing(a)) /\ HasMncc(a)
      /\ a.rel /\ Cleaned(a)
    <2>1. Fades(k, a)
        BY <1>4, AskFades DEF MscRequest
    <2>2. QED BY <1>4, <1>5, <2>1, AskFields DEF MscRequest, Ringing, HasMncc, Cleaned
<1> HIDE DEF a
<1>7. r \in CallRec /\ Fades(a, r) /\ (Ringing(a) => ~HasSip(r)) /\ HasMncc(r)
    BY <1>6, ReleaseSipFades
<1> HIDE DEF r, v
<1>8. Fades(v, r) /\ r.rel /\ Cleaned(r)
    BY <1>5, <1>6, <1>7, FadesTrans DEF Fades
<1>9. CASE Done(c, r)
    <2>1. Ended(c, r) /\ calls'[c] = r /\ conn' = "READY"
        BY <1>1, <1>9, EndedDone
    <2>2. QED BY <1>5, <1>6, <1>7, <1>8, <2>1, EndedMoves DEF v
<1>10. CASE WriteFailsLegUsed(c, k)
    <2>1. Ended(c, k) /\ conn' = "DISCONNECTED"
        BY <1>4, <1>10, EndedFail
    <2>2. QED BY <1>5, <2>1, EndedMoves DEF v
<1>11. QED BY <1>2, <1>9, <1>10
\* While its INVITE waits a caller has no transaction and no RTP_CONNECT under way.
LEMMA NothingUnderWay ==
    ASSUME CInv, NEW c \in CallId, Ringing(calls[c])
    PROVE  calls[c].txn = {} /\ "RTP_CONNECT" \notin calls[c].req
BY DEF CInv, ReasonOK

\* The answer of the MSC to a request leaves legs and origin alone.
LEMMA AnsweredFades ==
    ASSUME NEW k \in CallRec, NEW m
    PROVE  /\ Answered(k, m) \in CallRec
           /\ Fades(k, Answered(k, m))
           /\ Answered(k, m).sip = k.sip /\ Answered(k, m).orig = k.orig
           /\ Answered(k, m).mncc = k.mncc
BY AnsweredFields DEF Fades, Ringing, HasMncc, Cleaned

\* The reply to an RTP message for a leg that is gone or in release.
LEMMA RejectWanes ==
    ASSUME IInv, NEW c \in CallId, NEW k \in CallRec, Fades(calls[c], k), k.sip = calls[c].sip,
           RejectRtp(c, k)
    PROVE  StepWanes
<1> DEFINE a == Ask(k, "REJ_REQ")
<1>1. Fades(k, a) /\ a.sip = k.sip
    BY AskFades, AskFields DEF MscRequest
<1>2. Done(c, a) \/ WriteFails(c, k)
    BY DEF RejectRtp
<1> HIDE DEF a
<1>3. Fades(calls[c], a)
    BY <1>1, FadesTrans
<1>4. Ended(c, a) \/ Ended(c, k)
    BY <1>2, EndedDone, EndedFail
<1>5. QED BY <1>1, <1>3, <1>4, EndedMoves DEF Ringing, HasSip

\* check_rtp_create: only a mobile originated call may be released here.
LEMMA RtpCreateWanes ==
    ASSUME IInv, NEW c \in CallId, check_rtp_create(c)
    PROVE  StepWanes
<1> DEFINE v == calls[c]
           k == Answered(v, "RTP_CREATE")
           s == stop_cmd_timer(k, "RTP_CREATE")
           p == [s EXCEPT !.mncc = "PROCEEDING"]
           i == [p EXCEPT !.sip = "INITIAL", !.nh = TRUE]
<1>1. v \in CallRec
    BY DEF IInv
<1>2. \/ RejectRtp(c, k)
      \/ HasMncc(k) /\ k.orig = "MNCC" /\ continue_mo_call(c, s)
      \/ Done(c, s)
    BY DEF check_rtp_create, mncc_find_leg_not_released
<1>3. k \in CallRec /\ Fades(v, k) /\ k.sip = v.sip /\ k.orig = v.orig /\ k.mncc = v.mncc
    BY <1>1, AnsweredFades
<1> HIDE DEF k
<1>4. /\ s \in CallRec /\ s.sip = k.sip /\ s.orig = k.orig /\ s.mncc = k.mncc
      /\ s.rel = k.rel /\ s.msc = k.msc /\ s.txn = k.txn /\ s.req = k.req
    BY <1>3, StopTimerFields
<1> HIDE DEF s
<1>5. Fades(k, s)
    BY <1>4 DEF Fades, Ringing, HasMncc, Cleaned
<1>6. Fades(v, s)
    BY <1>3, <1>5, FadesTrans
<1>7. CASE RejectRtp(c, k)
    BY <1>3, <1>7, RejectWanes
<1>8. CASE Done(c, s)
    BY <1>3, <1>4, <1>6, <1>8, EndedDone, EndedMoves DEF Ringing, HasSip
<1>9. CASE HasMncc(k) /\ k.orig = "MNCC" /\ continue_mo_call(c, s)
    <2>1. Done(c, nua_invite(i)) \/ release_mncc(c, p) \/ WriteFailsLegUsed(c, s)
        BY <1>9 DEF continue_mo_call, route_to_sip, sip_create_remote_leg
    <2>2. /\ p \in CallRec /\ p.mncc = "PROCEEDING" /\ p.orig = "MNCC"
          /\ p.rel = s.rel /\ p.msc = s.msc
        BY <1>4, <1>9 DEF CallRec, MnccState
    <2> HIDE DEF p
    <2>3. /\ i \in CallRec /\ i.mncc = "PROCEEDING" /\ i.orig = "MNCC"
          /\ i.rel = s.rel /\ i.msc = s.msc
        BY <2>2 DEF CallRec, SipState
    <2> HIDE DEF i
    <2>4. Fades(s, p) /\ Fades(s, nua_invite(i))
        BY <1>4, <1>9, <2>2, <2>3, InviteFields DEF Fades, Ringing, HasMncc, Cleaned
    <2>5. Fades(v, p) /\ Fades(v, nua_invite(i)) /\ ~Ringing(v)
        BY <1>3, <1>6, <1>9, <2>4, FadesTrans DEF Ringing
    <2>6. Ended(c, nua_invite(i)) \/ Ended(c, p) \/ Ended(c, s)
        BY <1>4, <2>1, <2>2, EndedDone, EndedRelease, EndedFail
    <2>7. QED BY <1>6, <2>5, <2>6, EndedMoves
<1>10. QED BY <1>2, <1>7, <1>8, <1>9

\* check_rtp_connect: no RTP_CONNECT comes back while the INVITE waits.
LEMMA RtpConnectWanes ==
    ASSUME CInv, NEW c \in CallId, NEW ok, check_rtp_connect(c, ok)
    PROVE  StepWanes
<1> DEFINE v == calls[c]
           k == Answered(v, "RTP_CONNECT")
           r == release_other_sip(k)
<1>1. IInv /\ v \in CallRec /\ ~Ringing(v)
    BY NothingUnderWay DEF CInv, IInv, check_rtp_connect
<1>2. RejectRtp(c, k) \/ Done(c, k) \/ release_mncc(c, r)
    BY DEF check_rtp_connect
<1>3. k \in CallRec /\ Fades(v, k) /\ k.sip = v.sip
    BY <1>1, AnsweredFades
<1> HIDE DEF k
<1>4. r \in CallRec /\ Fades(k, r)
    BY <1>3, ReleaseSipFades
<1> HIDE DEF r
<1>5. Fades(v, r)
    BY <1>3, <1>4, FadesTrans
<1>6. CASE RejectRtp(c, k)
    BY <1>1, <1>3, <1>6, RejectWanes
<1>7. CASE Done(c, k) \/ release_mncc(c, r)
    BY <1>1, <1>3, <1>4, <1>5, <1>7, EndedDone, EndedRelease, EndedMoves
<1>8. QED BY <1>2, <1>6, <1>7

\* check_stp_cmpl_ind, check_cnf_ind, check_dtmf: the legs stay.
LEMMA SameLegsWanes ==
    ASSUME IInv, NEW c \in CallId, check_stp_cmpl_ind(c) \/ check_cnf_ind(c) \/ check_dtmf(c)
    PROVE  StepWanes
<1> DEFINE v == calls[c]
<1>1. v \in CallRec
    BY DEF IInv
<1>2. CASE check_stp_cmpl_ind(c)
    <2> DEFINE k == Answered(v, "SETUP_RSP")
               s == stop_cmd_timer(k, "SETUP_COMPL_IND")
               l == [s EXCEPT !.mncc = "CONNECTED", !.msc = "TALK"]
    <2>1. Done(c, l) /\ HasMncc(v) /\ v.msc = "SETUP"
        BY <1>2 DEF check_stp_cmpl_ind, ForLeg
    <2>2. /\ k \in CallRec /\ k.orig = v.orig /\ k.mncc = v.mncc /\ k.rel = v.rel
          /\ k.sip = v.sip /\ k.txn = v.txn /\ k.req = v.req \ {"SETUP_RSP"}
        BY <1>1, AnsweredFields
    <2> HIDE DEF k
    <2>3. /\ s \in CallRec /\ s.orig = k.orig /\ s.mncc = k.mncc /\ s.rel = k.rel
          /\ s.sip = k.sip /\ s.txn = k.txn /\ s.req = k.req
        BY <2>2, StopTimerFields
    <2> HIDE DEF s
    <2>4. /\ l.orig = v.orig /\ l.rel = v.rel /\ l.sip = v.sip /\ l.txn = v.txn
          /\ l.req = v.req \ {"SETUP_RSP"}
        BY <2>2, <2>3 DEF CallRec
    <2> HIDE DEF l
    <2>5. Fades(v, l) /\ (Ringing(v) => HasSip(l))
        BY <2>1, <2>4 DEF Fades, Ringing, HasMncc, HasSip, Cleaned
    <2>6. QED BY <2>1, <2>5, EndedDone, EndedMoves
<1>3. CASE check_cnf_ind(c)
    <2> DEFINE a == Answered(v, "SETUP_REQ")
               k == start_cmd_timer(a, "RTP_CREATE")
               q == Ask(k, "RTP_CREATE")
    <2>1. Done(c, q) \/ WriteFails(c, k)
        BY <1>3 DEF check_cnf_ind
    <2>2. a \in CallRec /\ Fades(v, a) /\ a.sip = v.sip
        BY <1>1, AnsweredFades
    <2> HIDE DEF a
    <2>3. k \in CallRec /\ Fades(a, k) /\ k.sip = a.sip
        BY <2>2, StartTimerFields DEF Wanted, Fades, Ringing, HasMncc, Cleaned
    <2> HIDE DEF k
    <2>4. q \in CallRec /\ Fades(k, q) /\ q.sip = k.sip
        BY <2>3, AskFades, AskFields DEF MscRequest
    <2> HIDE DEF q
    <2>5. Fades(v, k) /\ Fades(v, q)
        BY <2>2, <2>3, <2>4, FadesTrans
    <2>6. Ended(c, q) \/ Ended(c, k)
        BY <2>1, <2>3, EndedDone, EndedFail
    <2>7. QED BY <2>2, <2>3, <2>4, <2>5, <2>6, EndedMoves DEF Ringing, HasSip
<1>4. CASE check_dtmf(c)
    <2>1. Ended(c, v)
        BY <1>1, <1>4, EndedDone, EndedFail DEF check_dtmf
    <2>2. QED BY <2>1, FadesSame, EndedMoves DEF Ringing, HasSip
<1>5. QED BY <1>2, <1>3, <1>4

\* check_alrt_ind, check_stp_cnf, check_retrieve_ind, check_hold_ind: the MNCC leg is
\* released only without a SIP leg.
LEMMA AnswerWanes ==
    ASSUME IInv, NEW c \in CallId, check_alrt_ind(c) \/ check_stp_cnf(c)
    PROVE  StepWanes
<1> DEFINE v == calls[c]
           k == [v EXCEPT !.msc = "TALK"]
           q == Ask(k, "RTP_CONNECT")
           a == [q EXCEPT !.mncc = "CONNECTED"]
           b == sip_connect_call(a)
<1>1. v \in CallRec /\ HasMncc(v) /\ v.msc = "SETUP"
    BY DEF IInv, check_alrt_ind, check_stp_cnf, ForLeg
<1>2. \/ Done(c, v) \/ (release_mncc(c, v) /\ ~HasSip(v))
      \/ release_mncc(c, k) /\ ~HasSip(k)
      \/ Done(c, b) \/ WriteFailsLegUsed(c, k)
    BY DEF check_alrt_ind, check_stp_cnf
<1>3. /\ k \in CallRec /\ k.mncc = v.mncc /\ k.orig = v.orig /\ k.sip = v.sip /\ k.rel = v.rel
      /\ k.txn = v.txn /\ k.req = v.req
    BY <1>1 DEF CallRec, MscState
<1> HIDE DEF k
<1>4. Fades(v, k) /\ (Ringing(v) => HasSip(k))
    BY <1>1, <1>3 DEF Fades, Ringing, HasMncc, HasSip, Cleaned
<1>5. q \in CallRec /\ q.rel = k.rel
    BY <1>3, AskFields DEF MscRequest
<1> HIDE DEF q
<1>6. b.sip = "CONNECTED" /\ b.rel = q.rel
    BY <1>5 DEF sip_connect_call, CallRec
<1> HIDE DEF b
<1>7. Fades(v, b) /\ HasSip(b)
    BY <1>1, <1>3, <1>5, <1>6 DEF Fades, Ringing, HasMncc, HasSip, Cleaned
<1>8. Ended(c, v) \/ Ended(c, k) \/ Ended(c, b)
    BY <1>1, <1>2, <1>3, EndedDone, EndedRelease, EndedFail
<1>9. QED BY <1>4, <1>7, <1>8, FadesSame, EndedMoves DEF Ringing, HasSip

\* check_hold_ind and check_retrieve_ind.
LEMMA HoldWanes ==
    ASSUME IInv, NEW c \in CallId, check_hold_ind(c) \/ check_retrieve_ind(c)
    PROVE  StepWanes
<1> DEFINE v == calls[c]
<1>1. v \in CallRec /\ HasMncc(v) /\ v.msc \in {"TALK", "HELD"}
    BY DEF IInv, check_hold_ind, check_retrieve_ind, ForLeg
<1>2. CASE check_hold_ind(c)
    <2> DEFINE i == nua_invite(v)
               h == [i EXCEPT !.sip = "HOLD"]
               d == [h EXCEPT !.mncc = "HOLD", !.msc = "HELD"]
    <2>1. Done(c, v) \/ WriteFails(c, v) \/ Done(c, d) \/ WriteFailsLegUsed(c, h)
        BY <1>2 DEF check_hold_ind, sip_hold_call
    <2>2. i \in CallRec /\ i.rel = v.rel /\ i.mncc = v.mncc /\ i.msc = v.msc
        BY <1>1, InviteFields
    <2> HIDE DEF i
    <2>3. /\ h \in CallRec /\ h.sip = "HOLD" /\ h.rel = v.rel /\ h.mncc = v.mncc
          /\ h.msc = v.msc
        BY <2>2 DEF CallRec, SipState
    <2> HIDE DEF h
    <2>4. d.sip = "HOLD" /\ d.rel = v.rel
        BY <2>3 DEF CallRec
    <2> HIDE DEF d
    <2>5. Fades(v, h) /\ Fades(v, d) /\ HasSip(h) /\ HasSip(d)
        BY <1>1, <2>3, <2>4 DEF Fades, Ringing, HasMncc, HasSip, Cleaned
    <2>6. Ended(c, v) \/ Ended(c, d) \/ Ended(c, h)
        BY <1>1, <2>1, <2>3, EndedDone, EndedFail
    <2>7. QED BY <2>5, <2>6, FadesSame, EndedMoves DEF Ringing, HasSip
<1>3. CASE check_retrieve_ind(c)
    <2> DEFINE k == [v EXCEPT !.msc = "TALK"]
               i == nua_invite(k)
               r == [i EXCEPT !.sip = "CONNECTED"]
               d == [r EXCEPT !.mncc = "CONNECTED"]
               e == Ask(d, "RTP_CONNECT")
    <2>1. \/ release_mncc(c, k) \/ WriteFailsLegUsed(c, k)
          \/ Done(c, e) \/ WriteFailsLegUsed(c, r)
        BY <1>3 DEF check_retrieve_ind, sip_retrieve_call
    <2>2. /\ k \in CallRec /\ k.mncc = v.mncc /\ k.orig = v.orig /\ k.sip = v.sip
          /\ k.rel = v.rel /\ k.txn = v.txn /\ k.req = v.req
        BY <1>1 DEF CallRec, MscState
    <2> HIDE DEF k
    <2>3. Fades(v, k) /\ (Ringing(v) => HasSip(k))
        BY <1>1, <2>2 DEF Fades, Ringing, HasMncc, HasSip, Cleaned
    <2>4. i \in CallRec /\ i.rel = v.rel
        BY <2>2, InviteFields
    <2> HIDE DEF i
    <2>5. r \in CallRec /\ r.sip = "CONNECTED" /\ r.rel = v.rel
        BY <2>4 DEF CallRec, SipState
    <2> HIDE DEF r
    <2>6. d \in CallRec /\ d.sip = "CONNECTED" /\ d.rel = v.rel
        BY <2>5 DEF CallRec, MnccState
    <2> HIDE DEF d
    <2>7. e.sip = "CONNECTED" /\ e.rel = v.rel
        BY <2>6, AskFields DEF MscRequest
    <2> HIDE DEF e
    <2>8. Fades(v, r) /\ Fades(v, e) /\ HasSip(r) /\ HasSip(e)
        BY <1>1, <2>5, <2>7 DEF Fades, Ringing, HasMncc, HasSip, Cleaned
    <2>9. Ended(c, k) \/ Ended(c, e) \/ Ended(c, r)
        BY <2>1, <2>2, <2>5, EndedDone, EndedRelease, EndedFail
    <2>10. QED BY <2>3, <2>8, <2>9, EndedMoves
<1>4. QED BY <1>2, <1>3

-----------------------------------------------------------------------------
(* Events of sofia-sip.                                                    *)

\* The answers to CANCEL and BYE: no caller whose INVITE waits was sent one.
LEMMA ByeWanes ==
    ASSUME CInv, NEW c \in CallId, nua_r_bye(c) \/ nua_r_cancel(c)
    PROVE  StepWanes
<1>1. IInv /\ calls[c] \in CallRec /\ ~Ringing(calls[c])
    BY NothingUnderWay DEF CInv, IInv, nua_r_bye, nua_r_cancel
<1>2. Done(c, DropSip(calls[c]))
    BY DEF nua_r_bye, nua_r_cancel
<1>3. QED BY <1>1, <1>2, DropSipFades, EndedDone, EndedMoves

\* The peer ends the call: its SIP leg goes, then the MNCC leg is released.
LEMMA HangupMoves ==
    ASSUME IInv, NEW c \in CallId, NEW k \in CallRec, Fades(calls[c], k), k.mncc = calls[c].mncc,
           k.orig = calls[c].orig, release_other_mncc(c, DropSip(k))
    PROVE  /\ Moves(c)
           /\ HasMncc(calls'[c]) =>
                  conn' = "READY" /\ (calls[c].mncc # "INITIAL" \/ calls[c].orig = "SIP")
<1> DEFINE d == DropSip(k)
<1>1. d \in CallRec /\ Fades(k, d) /\ d.mncc = k.mncc /\ (HasMncc(k) => d.orig = k.orig)
    BY DropSipFades, DropSipFields
<1>2. (HasMncc(d) /\ release_mncc(c, d)) \/ (~HasMncc(d) /\ Done(c, d))
    BY DEF release_other_mncc
<1> HIDE DEF d
<1>3. Fades(calls[c], d)
    BY <1>1, FadesTrans
<1>4. CASE ~HasMncc(d) /\ Done(c, d)
    BY <1>3, <1>4, EndedDone, EndedMoves
<1>5. CASE HasMncc(d) /\ release_mncc(c, d)
    <2>1. /\ Ended(c, d)
          /\ HasMncc(calls'[c]) => conn' = "READY" /\ (d.mncc # "INITIAL" \/ d.orig # "MNCC")
        BY <1>1, <1>5, EndedRelease
    <2>2. Moves(c)
        BY <1>3, <2>1, EndedMoves
    <2>3. HasMncc(k) /\ d.orig = calls[c].orig /\ d.mncc = calls[c].mncc
        BY <1>1, <1>5 DEF HasMncc
    <2>4. calls[c].orig \in {"MNCC", "SIP"}
        BY <1>1, <1>5, CallBase DEF Base, HasMncc, CallRec, LegType
    <2>5. QED BY <2>1, <2>2, <2>3, <2>4
<1>6. QED BY <1>2, <1>4, <1>5

\* The peer hangs up or gives up: nua_i_bye and nua_i_cancel.
LEMMA PeerEndsMoves ==
    ASSUME IInv, NEW c \in CallId, nua_i_bye(c) \/ nua_i_cancel(c)
    PROVE  Moves(c)
<1>1. calls[c] \in CallRec /\ release_other_mncc(c, DropSip(calls[c]))
    BY DEF IInv, nua_i_bye, nua_i_cancel
<1>2. QED BY <1>1, FadesSame, HangupMoves

\* A response to an INVITE of ours is not for a caller.
LEMMA ConfirmFades ==
    ASSUME IInv, NEW c \in CallId, InviteAnswered(calls[c])
    PROVE  LET k == Confirmed(calls[c]) IN
           /\ k \in CallRec /\ Fades(calls[c], k) /\ ~Ringing(k) /\ ~Ringing(calls[c])
           /\ k.mncc = calls[c].mncc /\ k.orig = calls[c].orig
<1> DEFINE v == calls[c]
           k == Confirmed(v)
<1>1. v \in CallRec /\ ~Ringing(v) /\ (v.orig = "SIP" => v.sip \in {"CONNECTED", "HOLD"})
    BY CallBase DEF Base, InviteAnswered, Ringing
<1>2. /\ k \in CallRec /\ k.orig = v.orig /\ k.mncc = v.mncc /\ k.rel = v.rel /\ k.msc = v.msc
      /\ v.sip # "INITIAL" => k.sip = v.sip
    BY <1>1 DEF Confirmed, CallRec, SipState
<1> HIDE DEF k
<1>3. ~Ringing(k)
    BY <1>1, <1>2 DEF Ringing
<1>4. Fades(v, k)
    BY <1>2, <1>3 DEF Fades, HasMncc, Cleaned
<1>5. QED BY <1>1, <1>2, <1>3, <1>4 DEF k

\* Provisional responses, and a 2xx that is not 200.
LEMMA ProgressWanes ==
    ASSUME IInv, NEW c \in CallId, NEW known,
           nua_r_invite_trying(c) \/ nua_r_invite_progress(c, known)
    PROVE  StepWanes
<1> DEFINE k == Confirmed(calls[c])
           f == [k EXCEPT !.txn = @ \ {"INVITE"}]
           q == Ask(k, "RTP_CONNECT")
<1>1. k \in CallRec /\ Fades(calls[c], k) /\ ~Ringing(k) /\ ~Ringing(calls[c])
    BY ConfirmFades DEF nua_r_invite_trying, nua_r_invite_progress
<1>2. Done(c, k) \/ Done(c, f) \/ Done(c, q) \/ WriteFailsLegUsed(c, k)
    BY DEF nua_r_invite_trying, nua_r_invite_progress, call_progress, mncc_call_leg_ring
<1> HIDE DEF k
<1>3. Fades(k, q)
    BY <1>1, AskFades DEF MscRequest
<1> HIDE DEF q
<1>4. /\ f \in CallRec /\ f.orig = k.orig /\ f.mncc = k.mncc /\ f.sip = k.sip
      /\ f.rel = k.rel /\ f.msc = k.msc
    BY <1>1 DEF CallRec
<1> HIDE DEF f
<1>5. Fades(k, f)
    BY <1>1, <1>4 DEF Fades, Ringing, HasMncc, Cleaned
<1>6. Fades(calls[c], q) /\ Fades(calls[c], f)
    BY <1>1, <1>3, <1>5, FadesTrans
<1>7. QED BY <1>1, <1>2, <1>6, EndedDone, EndedFail, EndedMoves

\* sip_callback on a final error: if the MNCC leg survives, the MSC knows its call and is
\* told.
LEMMA InviteFailMoves ==
    ASSUME IInv, NEW c \in CallId, nua_r_invite_fail(c)
    PROVE  /\ Moves(c)
           /\ HasMncc(calls'[c]) =>
                  conn' = "READY" /\ (calls[c].mncc # "INITIAL" \/ calls[c].orig = "SIP")
<1> DEFINE k == Confirmed(calls[c])
<1>1. /\ k \in CallRec /\ Fades(calls[c], k)
      /\ k.mncc = calls[c].mncc /\ k.orig = calls[c].orig
    BY ConfirmFades DEF nua_r_invite_fail
<1>2. release_other_mncc(c, DropSip(k))
    BY DEF nua_r_invite_fail
<1> HIDE DEF k
<1>3. QED BY <1>1, <1>2, HangupMoves

\* sip_callback on 200.
LEMMA InviteOkMoves ==
    ASSUME IInv, NEW c \in CallId, NEW audio, nua_r_invite_ok(c, audio)
    PROVE  Moves(c)
<1> DEFINE v == calls[c]
           k == Confirmed(v)
           f == [k EXCEPT !.txn = @ \ {"INVITE"}]
           n == nua_cancel(f)
           e == [f EXCEPT !.sip = "CONNECTED"]
           q == Ask(e, "RTP_CONNECT")
           t == start_cmd_timer(q, "SETUP_COMPL_IND")
           z == Ask(t, "SETUP_RSP")
<1>1. k \in CallRec /\ Fades(v, k) /\ ~Ringing(k)
    BY ConfirmFades DEF nua_r_invite_ok
<1>2. \/ Done(c, f) \/ Done(c, n) \/ release_mncc(c, n) \/ Done(c, z)
      \/ WriteFailsLegUsed(c, e) \/ WriteFails(c, e)
    BY DEF nua_r_invite_ok, call_connect, mncc_call_leg_connect
<1> HIDE DEF k
<1>3. /\ f \in CallRec /\ f.sip = k.sip /\ f.orig = k.orig /\ f.mncc = k.mncc /\ f.rel = k.rel
      /\ f.msc = k.msc
    BY <1>1 DEF CallRec
<1> HIDE DEF f
<1>4. /\ n \in CallRec /\ n.sip = k.sip /\ n.orig = k.orig /\ n.mncc = k.mncc /\ n.rel = k.rel
      /\ n.msc = k.msc
    BY <1>3, CancelFields
<1>5. /\ e \in CallRec /\ e.sip = "CONNECTED" /\ e.mncc = k.mncc /\ e.rel = k.rel
      /\ e.msc = k.msc
    BY <1>3 DEF CallRec, SipState
<1> HIDE DEF n, e
<1>6. /\ q \in CallRec /\ q.sip = "CONNECTED" /\ q.mncc = k.mncc /\ q.rel = k.rel
      /\ q.msc = k.msc
    BY <1>5, AskFields DEF MscRequest
<1> HIDE DEF q
<1>7. /\ t \in CallRec /\ t.sip = "CONNECTED" /\ t.mncc = k.mncc /\ t.rel = k.rel
      /\ t.msc = k.msc
    BY <1>6, StartTimerFields DEF Wanted
<1> HIDE DEF t
<1>8. z.sip = "CONNECTED" /\ z.mncc = k.mncc /\ z.rel = k.rel /\ z.msc = k.msc
    BY <1>7, AskFields DEF MscRequest
<1> HIDE DEF z
<1>9. Fades(k, f) /\ Fades(k, n) /\ Fades(k, e) /\ Fades(k, z)
    BY <1>1, <1>3, <1>4, <1>5, <1>8 DEF Fades, Ringing, HasMncc, Cleaned
<1>10. Fades(v, f) /\ Fades(v, n) /\ Fades(v, e) /\ Fades(v, z)
    BY <1>1, <1>9, FadesTrans
<1>11. Ended(c, f) \/ Ended(c, n) \/ Ended(c, e) \/ Ended(c, z)
    BY <1>2, <1>4, <1>5, EndedDone, EndedRelease, EndedFail
<1>12. QED BY <1>10, <1>11, EndedMoves

\* sip_handle_reinvite.
LEMMA ReinviteWanes ==
    ASSUME IInv, NEW c \in CallId, NEW fate, sip_handle_reinvite(c, fate)
    PROVE  StepWanes
<1> DEFINE k == calls[c]
<1>1. k \in CallRec /\ k.sip \in {"CONNECTED", "HOLD"} /\ ~Ringing(k)
    BY DEF IInv, sip_handle_reinvite, Ringing
<1>2. \/ Done(c, nua_bye(k)) \/ Done(c, k) \/ Done(c, DropSip(k)) \/ Done(c, Ask(k, "RTP_CONNECT"))
      \/ WriteFailsLegUsed(c, k)
    BY <1>1 DEF sip_handle_reinvite, update_rtp, sip_release_call
<1>3. Fades(k, nua_bye(k))
    BY <1>1, ByeFields DEF Fades, Ringing, HasMncc, Cleaned
<1>4. Fades(k, DropSip(k)) /\ Fades(k, Ask(k, "RTP_CONNECT"))
    BY <1>1, DropSipFades, AskFades DEF MscRequest
<1>5. \/ Ended(c, nua_bye(k)) \/ Ended(c, k) \/ Ended(c, DropSip(k))
      \/ Ended(c, Ask(k, "RTP_CONNECT"))
    BY <1>1, <1>2, EndedDone, EndedFail
<1>6. QED BY <1>1, <1>3, <1>4, <1>5, FadesSame, EndedMoves

-----------------------------------------------------------------------------
(* New calls, the connection, the VTY.                                     *)

\* check_setup makes a call that waits for nobody's INVITE, and leaves the others alone.
LEMMA SetupMakes ==
    ASSUME IInv, NEW c \in CallId, check_setup(c)
    PROVE  /\ ~Ringing(calls'[c])
           /\ \A d \in CallId \ {c} : Wanes(calls[d], calls'[d])
<1> DEFINE m == call_mncc_create(calls[c])
           t == start_cmd_timer(m, "RTP_CREATE")
           k == [t EXCEPT !.msc = "SETUP"]
           a == Ask(k, "RTP_CREATE")
<1>1. Done(c, a) \/ WriteFails(c, k)
    BY DEF check_setup
<1>2. m \in CallRec /\ m.orig = "MNCC"
    BY NoCallFields DEF check_setup, call_mncc_create, CallRec, LegType, MnccState
<1> HIDE DEF m
<1>3. t \in CallRec /\ t.orig = "MNCC"
    BY <1>2, StartTimerFields DEF Wanted
<1> HIDE DEF t
<1>4. k \in CallRec /\ k.orig = "MNCC"
    BY <1>3 DEF CallRec, MscState
<1> HIDE DEF k
<1>5. a.orig = "MNCC"
    BY <1>4, AskFields DEF MscRequest
<1> HIDE DEF a
<1>6. Ended(c, a) \/ Ended(c, k)
    BY <1>1, <1>4, EndedDone, EndedFail
<1>7. ~Ringing(a) /\ ~Ringing(k)
    BY <1>4, <1>5 DEF Ringing
<1>8. QED BY <1>6, <1>7 DEF Ended, Fades

\* new_call: the caller waits for an answer, or is gone.
LEMMA NewCallMakes ==
    ASSUME IInv, NEW c \in CallId, NEW fate, new_call(c, fate)
    PROVE  /\ \A d \in CallId \ {c} : Wanes(calls[d], calls'[d])
           /\ Ringing(calls'[c]) =>
                  calls'[c].txn = {} /\ "RTP_CONNECT" \notin calls'[c].req
           /\ ~HasSip(calls'[c]) => ~HasMncc(calls'[c])
<1> DEFINE k == call_sip_create(calls[c])
           l == [k EXCEPT !.sip = "DLG_CNFD", !.nh = TRUE]
           d == DropSip(l)
           m == mncc_create_remote_leg(l)
<1>1. k \in CallRec /\ k.orig = "SIP" /\ k.sip = "INITIAL" /\ k.mncc = "NONE" /\ k.txn = {}
    BY NoCallFields DEF new_call, call_sip_create, CallRec, LegType, SipState
<1>2. Done(c, k) \/ Done(c, m) \/ WriteFails(c, sip_release_call(l))
      \/ Done(c, d) \/ Done(c, sip_release_call(l))
    BY DEF new_call, route_to_mncc
<1> HIDE DEF k
<1>3. l \in CallRec /\ l.orig = "SIP" /\ l.sip = "DLG_CNFD" /\ l.mncc = "NONE" /\ l.txn = {}
    BY <1>1 DEF CallRec, SipState
<1> HIDE DEF l
<1>4. d \in CallRec /\ ~Ringing(d) /\ d.mncc = "NONE" /\ sip_release_call(l) = d
    <2>1. d \in CallRec /\ ~Ringing(d) /\ d.mncc = "NONE"
        BY <1>3, DropSipFields DEF Ringing
    <2>2. sip_release_call(l) = d
        BY <1>3 DEF sip_release_call
    <2>3. QED BY <2>1, <2>2
<1> HIDE DEF d
<1>5. m.sip = "DLG_CNFD" /\ m.txn = {} /\ m.req = {"SETUP_REQ"}
    BY <1>3 DEF mncc_create_remote_leg, CallRec
<1> HIDE DEF m
<1>6. CASE Done(c, m)
    <2>1. Ended(c, m) /\ calls'[c] = m
        BY <1>6, EndedDone
    <2>2. QED BY <1>5, <2>1 DEF Ended, HasSip
<1>7. CASE Done(c, k)
    <2>1. Ended(c, k) /\ calls'[c] = k
        BY <1>7, EndedDone
    <2>2. QED BY <1>1, <2>1 DEF Ended, HasSip, Ringing
<1>8. CASE Done(c, d) \/ WriteFails(c, d)
    <2>1. Ended(c, d)
        BY <1>4, <1>8, EndedDone, EndedFail
    <2>2. QED BY <1>4, <2>1 DEF Ended, Fades, HasMncc
<1>9. QED BY <1>2, <1>4, <1>6, <1>7, <1>8

\* What happens to the connection ends both legs together.
LEMMA ConnectionWanes ==
    ASSUME IInv, mncc_reconnect_ok \/ mncc_reconnect_fail \/ check_hello \/ mncc_data_bad
    PROVE  StepWanes
<1>1. CASE mncc_data_bad
    <2>1. \A d \in CallId : calls'[d] = app_mncc_disconnected(calls[d])
        BY <1>1 DEF mncc_data_bad
    <2>2. QED BY <2>1, CallBase, DisconnectFades DEF StepWanes, Wanes
<1>2. CASE UNCHANGED calls
    BY <1>2, FadesSame DEF StepWanes
<1>3. QED BY <1>1, <1>2 DEF mncc_reconnect_ok, mncc_reconnect_fail, check_hello

\* The VTY only looks.
LEMMA VtyFades ==
    ASSUME show_calls_sum \/ show_calls
    PROVE  \A d \in CallId : Fades(calls[d], calls'[d])
<1>1. CASE UNCHANGED calls
    BY <1>1, FadesSame
<1>2. CASE Restart("null_pointer") \/ Restart("stale_name")
    BY <1>2, NoCallFades DEF Restart
<1>3. QED BY <1>1, <1>2 DEF show_calls_sum, show_calls

-----------------------------------------------------------------------------
(* Every step keeps the reasons right.                                     *)

\* A handler that leaves the reasons s keeps CInv if s fits what it made of its call.
LEMMA LeaveKeeps ==
    ASSUME CInv, IInv', NEW c \in CallId, NEW s, Leave(c, s),
           \A d \in CallId \ {c} : Wanes(calls[d], calls'[d]),
           ReasonOK(calls'[c], KeepCauses(calls'[c], s))
    PROVE  CInv'
<1>1. ASSUME NEW d \in CallId PROVE ReasonOK(calls'[d], reason'[d])
    <2>1. CASE d = c
        BY <2>1 DEF Leave
    <2>2. CASE d # c
        <3>1. reason'[d] = KeepCauses(calls'[d], RefuseIfDropped(calls[d], calls'[d], reason[d]))
            BY <2>2 DEF Leave
        <3>2. ReasonOK(calls[d], reason[d]) /\ Wanes(calls[d], calls'[d])
            BY <2>2 DEF CInv
        <3>3. QED BY <3>1, <3>2, RefuseGood
    <2>3. QED BY <2>1, <2>2
<1>2. reason' = [d \in CallId |-> reason'[d]]
    BY DEF Leave
<1>3. reason' \in [CallId -> ReasonRec]
    BY <1>1, <1>2 DEF ReasonOK
<1>4. QED BY <1>1, <1>3 DEF CInv

\* A handler that gives no cause, or tells the MSC that of its leg, and may refuse the
\* caller.
LEMMA LeaveSipKeeps ==
    ASSUME CInv, IInv', StepWanes, NEW c \in CallId, NEW s, LeaveSip(c, s),
           s \in {reason[c], mncc_fill_header(reason[c]), TellMsc(calls[c], reason[c])}
    PROVE  CInv'
<1>1. ReasonOK(calls[c], s) /\ Wanes(calls[c], calls'[c])
    BY FillGood, TellGood DEF CInv, StepWanes
<1>2. ReasonOK(calls'[c], KeepCauses(calls'[c], RefuseIfDropped(calls[c], calls'[c], s)))
    BY <1>1, RefuseGood
<1>3. \A d \in CallId \ {c} : Wanes(calls[d], calls'[d])
    BY DEF StepWanes
<1>4. QED BY <1>2, <1>3, LeaveKeeps DEF LeaveSip

\* The same for a handler that refuses nobody itself.
LEMMA LeaveAloneKeeps ==
    ASSUME CInv, IInv', NEW c \in CallId, Moves(c), NEW s, Leave(c, s),
           s \in {reason[c], TellMsc(calls[c], reason[c])}
    PROVE  CInv'
<1>1. ReasonOK(calls[c], s) /\ Fades(calls[c], calls'[c])
    BY TellGood DEF CInv, Moves
<1>2. ReasonOK(calls'[c], KeepCauses(calls'[c], s))
    BY <1>1, KeepGood
<1>3. QED BY <1>2, LeaveKeeps DEF Moves

\* DISC_IND, REL_IND and REJ_IND: their cause is stored before the caller is refused.
LEMMA CauseKeeps ==
    ASSUME CInv, IInv', NEW c \in CallId, NEW x \in MscCause,
           DiscInd(c, x) \/ RelInd(c, x) \/ RejInd(c, x)
    PROVE  CInv'
<1> DEFINE k == calls[c]  l == calls'[c]  s == reason[c]
<1>0. IInv /\ ReasonOK(k, s)
    BY DEF CInv
<1>1. CASE DiscInd(c, x)
    <2>1. /\ check_disc_ind(c)
          /\ LeaveSip(c, IF conn' = "READY" THEN Give(mncc_fill_header(s), x) ELSE s)
        BY <1>1 DEF DiscInd
    <2>2. /\ Moves(c)
          /\ conn' = "READY" => /\ Ringing(k) => ~HasSip(l)
                                /\ l.rel /\ Cleaned(l)
          /\ conn' # "READY" => StepWanes
        BY <1>0, <2>1, DiscIndMoves
    <2>3. HasMncc(k) /\ ~Cleaned(k)
        BY <2>1 DEF check_disc_ind, ForLeg, FromMsc, Cleaned
    <2>4. CASE conn' # "READY"
        BY <2>1, <2>2, <2>4, LeaveSipKeeps
    <2>5. CASE conn' = "READY"
        <3> DEFINE f == mncc_fill_header(s)  t == RefuseIfDropped(k, l, Give(f, x))
        <3>1. ReasonOK(k, f)
            BY <1>0, FillGood
        <3> HIDE DEF f
        <3>2. Leave(c, t)
            BY <2>1, <2>5 DEF LeaveSip, f
        <3>3. ReasonOK(l, KeepCauses(l, t))
            BY <2>2, <2>3, <2>5, <3>1, GiveGood DEF Moves
        <3> HIDE DEF t
        <3>4. QED BY <2>2, <3>2, <3>3, LeaveKeeps DEF Moves
    <2>6. QED BY <2>4, <2>5
<1>2. CASE RelInd(c, x)
    <2>1. check_rel_ind(c) /\ LeaveSip(c, IF k.rel THEN s ELSE Give(s, x))
        BY <1>2 DEF RelInd
    <2>2. /\ StepWanes /\ ~HasMncc(l)
          /\ ~k.rel => (Ringing(k) => ~HasSip(l))
        BY <1>0, <2>1, RelIndWanes
    <2>3. CASE k.rel
        BY <2>1, <2>2, <2>3, LeaveSipKeeps
    <2>4. CASE ~k.rel
        <3> DEFINE t == RefuseIfDropped(k, l, Give(s, x))
        <3>1. HasMncc(k) /\ Fades(k, l)
            BY <2>1, <2>2 DEF check_rel_ind, StepWanes, Wanes
        <3>2. Leave(c, t)
            BY <2>1, <2>4 DEF LeaveSip
        <3>3. ReasonOK(l, KeepCauses(l, t))
            BY <1>0, <2>2, <2>4, <3>1, GiveGood
        <3> HIDE DEF t
        <3>4. QED BY <2>2, <3>2, <3>3, LeaveKeeps DEF StepWanes
    <2>5. QED BY <2>3, <2>4
<1>3. CASE RejInd(c, x)
    <2> DEFINE t == RefuseIfDropped(k, l, Give(s, x))
    <2>1. check_rej_ind(c) /\ Leave(c, t)
        BY <1>3 DEF RejInd, LeaveSip
    <2>2. StepWanes /\ ~HasMncc(l) /\ (Ringing(k) => ~HasSip(l))
        BY <1>0, <2>1, RejIndWanes
    <2>3. HasMncc(k) /\ ~Cleaned(k) /\ Fades(k, l)
        BY <2>1, <2>2 DEF check_rej_ind, Cleaned, StepWanes, Wanes
    <2>4. ReasonOK(l, KeepCauses(l, t))
        BY <1>0, <2>2, <2>3, GiveGood
    <2> HIDE DEF t
    <2>5. QED BY <2>1, <2>2, <2>4, LeaveKeeps DEF StepWanes
<1>4. QED BY <1>1, <1>2, <1>3

\* A failed INVITE keeps CInv: the cause of its status is stored and told.
LEMMA InviteFailsKeeps ==
    ASSUME CInv, IInv', NEW c \in CallId, NEW st \in PeerStatus, InviteFails(c, st)
    PROVE  CInv'
<1> DEFINE k == calls[c]  l == calls'[c]  s == reason[c]
           t == IF HasMncc(k)
                THEN TellMsc(k, [[s EXCEPT !.failed = st] EXCEPT !.mncc = status2cause(st)])
                ELSE [s EXCEPT !.failed = st]
<1>1. nua_r_invite_fail(c) /\ Leave(c, t)
    BY DEF InviteFails
<1>2. IInv /\ ReasonOK(k, s)
    BY DEF CInv
<1>3. /\ Moves(c)
      /\ HasMncc(l) => conn' = "READY" /\ (k.mncc # "INITIAL" \/ k.orig = "SIP")
    BY <1>1, <1>2, InviteFailMoves
<1>4. ReasonOK(l, KeepCauses(l, t))
    BY <1>2, <1>3, FailedGood DEF Moves
<1> HIDE DEF t
<1>5. QED BY <1>1, <1>3, <1>4, LeaveKeeps DEF Moves

\* New calls keep CInv: their reasons are empty.
LEMMA NewKeeps ==
    ASSUME CInv, IInv', NEW c \in CallId, NEW fate, SetUp(c) \/ CallerInvites(c, fate)
    PROVE  CInv'
<1> DEFINE l == calls'[c]
           t == KeepCauses(l, NoReason)
<1>0. IInv
    BY DEF CInv
<1>1. t \in ReasonRec /\ t.sip = "unset" /\ t.given = "none" /\ t.refused = 0 /\ t.failed = 0
    BY NoReasonFields, KeepFields
<1> HIDE DEF t
<1>2. CASE SetUp(c)
    <2>1. ~Ringing(l) /\ \A d \in CallId \ {c} : Wanes(calls[d], calls'[d])
        BY <1>0, <1>2, SetupMakes DEF SetUp
    <2>2. ReasonOK(l, t)
        BY <1>1, <2>1 DEF ReasonOK
    <2>3. QED BY <1>2, <2>1, <2>2, LeaveKeeps DEF SetUp, t
<1>3. CASE CallerInvites(c, fate)
    <2>1. /\ \A d \in CallId \ {c} : Wanes(calls[d], calls'[d])
          /\ Ringing(l) => l.txn = {} /\ "RTP_CONNECT" \notin l.req
          /\ ~HasSip(l) => ~HasMncc(l)
        BY <1>0, <1>3, NewCallMakes DEF CallerInvites
    <2>2. ReasonOK(l, t)
        BY <1>1, <2>1 DEF ReasonOK
    <2>3. CASE Leave(c, NoReason)
        BY <2>1, <2>2, <2>3, LeaveKeeps DEF t
    <2>4. CASE ~HasSip(l) /\ Leave(c, Refuse(NoReason))
        <3> DEFINE f == Refuse(NoReason)  u == KeepCauses(l, f)
        <3>1. f \in ReasonRec /\ f.given = "none" /\ f.refused = cause2status("unset")
            BY NoReasonFields, RefuseFields
        <3> HIDE DEF f
        <3>2. u \in ReasonRec /\ u.given = "none" /\ u.refused = cause2status("unset")
            BY <3>1, KeepFields
        <3> HIDE DEF u
        <3>3. ReasonOK(l, u)
            BY <2>1, <2>4, <3>2, UnsetStatus DEF ReasonOK, Ringing, HasSip
        <3>4. QED BY <2>1, <2>4, <3>3, LeaveKeeps DEF u, f
    <2>5. QED BY <1>3, <2>3, <2>4 DEF CallerInvites
<1>4. QED BY <1>2, <1>3

\* The other events that store no cause but may use one keep CInv.
LEMMA OtherKeeps ==
    ASSUME CInv, IInv', NEW c \in CallId,
           \/ \E ok \in BOOLEAN : InviteOk(c, ok) \/ RtpConnect(c, ok)
           \/ PeerEnds(c) \/ RtpCreate(c) \/ NoOtherLeg(c) \/ NoCause(c)
    PROVE  CInv'
<1>0. IInv
    BY DEF CInv
<1>1. ASSUME NEW ok \in BOOLEAN, InviteOk(c, ok) PROVE CInv'
    <2>1. Moves(c)
        BY <1>0, <1>1, InviteOkMoves DEF InviteOk
    <2>2. Leave(c, reason[c]) \/ Leave(c, TellMsc(calls[c], reason[c]))
        BY <1>1 DEF InviteOk
    <2>3. QED BY <2>1, <2>2, LeaveAloneKeeps
<1>2. ASSUME NEW ok \in BOOLEAN, RtpConnect(c, ok) PROVE CInv'
    <2>1. StepWanes
        BY <1>2, RtpConnectWanes DEF RtpConnect
    <2>2. LeaveSip(c, reason[c]) \/ LeaveSip(c, TellMsc(calls[c], reason[c]))
        BY <1>2 DEF RtpConnect
    <2>3. QED BY <2>1, <2>2, LeaveSipKeeps
<1>3. CASE PeerEnds(c)
    BY <1>0, <1>3, PeerEndsMoves, LeaveAloneKeeps DEF PeerEnds
<1>4. CASE RtpCreate(c)
    <2>1. StepWanes
        BY <1>0, <1>4, RtpCreateWanes DEF RtpCreate
    <2>2. LeaveSip(c, reason[c]) \/ LeaveSip(c, mncc_fill_header(reason[c]))
        BY <1>4 DEF RtpCreate
    <2>3. QED BY <2>1, <2>2, LeaveSipKeeps
<1>5. CASE NoOtherLeg(c)
    <2>1. StepWanes
        BY <1>0, <1>5, AnswerWanes, HoldWanes DEF NoOtherLeg
    <2>2. LeaveSip(c, reason[c]) \/ LeaveSip(c, TellMsc(calls[c], reason[c]))
        BY <1>5 DEF NoOtherLeg
    <2>3. QED BY <2>1, <2>2, LeaveSipKeeps
<1>6. CASE NoCause(c)
    <2>1. StepWanes
        BY <1>0, <1>6, FreedByOther, SameLegsWanes, HoldWanes, ByeWanes, ProgressWanes,
           ReinviteWanes DEF NoCause
    <2>2. QED BY <1>6, <2>1, LeaveSipKeeps DEF NoCause
<1>7. QED BY <1>1, <1>2, <1>3, <1>4, <1>5, <1>6

\* What happens to all calls keeps CInv.
LEMMA AllKeep ==
    ASSUME CInv, IInv', Connection \/ VtyShows
    PROVE  CInv'
<1>0. IInv /\ \A d \in CallId : ReasonOK(calls[d], reason[d])
    BY DEF CInv
<1>1. CASE Connection
    <2>1. StepWanes
        BY <1>0, <1>1, ConnectionWanes DEF Connection
    <2>2. \A d \in CallId : ReasonOK(calls'[d], reason'[d])
        BY <1>0, <1>1, <2>1, RefuseGood DEF Connection, StepWanes
    <2>3. reason' = [d \in CallId |-> reason'[d]]
        BY <1>1 DEF Connection
    <2>4. QED BY <2>2, <2>3 DEF CInv, ReasonOK
<1>2. CASE VtyShows
    <2>1. \A d \in CallId : Fades(calls[d], calls'[d])
        BY <1>2, VtyFades DEF VtyShows
    <2>2. \A d \in CallId : ReasonOK(calls'[d], reason'[d])
        BY <1>0, <1>2, <2>1, KeepGood DEF VtyShows
    <2>3. reason' = [d \in CallId |-> reason'[d]]
        BY <1>2 DEF VtyShows
    <2>4. QED BY <2>2, <2>3 DEF CInv, ReasonOK
<1>3. QED BY <1>1, <1>2

\* CInv holds without calls.
LEMMA CausesInitGood == CausesInit => CInv
<1> SUFFICES ASSUME CausesInit PROVE CInv
    OBVIOUS
<1>1. IInv /\ calls = [c \in CallId |-> NoCall] /\ reason = [c \in CallId |-> NoReason]
    BY InitGood DEF CausesInit, Init
<1>2. ReasonOK(NoCall, NoReason)
    BY NoReasonFields, NoCallFields DEF ReasonOK, Ringing
<1>3. QED BY <1>1, <1>2, NoReasonFields DEF CInv

\* Every step keeps CInv.
LEMMA CausesNextGood == CInv /\ [CausesNext]_cvars => CInv'
<1> SUFFICES ASSUME CInv, [CausesNext]_cvars PROVE CInv'
    OBVIOUS
<1>1. IInv'
    BY CausesStep, NextGood DEF CInv
<1>2. CASE UNCHANGED cvars
    BY <1>1, <1>2 DEF cvars, CInv
<1>3. CASE Connection \/ VtyShows
    BY <1>1, <1>3, AllKeep
<1>4. ASSUME NEW c \in CallId,
             \/ \E x \in MscCause : DiscInd(c, x) \/ RelInd(c, x) \/ RejInd(c, x)
             \/ \E st \in PeerStatus : InviteFails(c, st)
             \/ SetUp(c)
             \/ \E fate \in {"malformed", "no_audio", "routed"} : CallerInvites(c, fate)
      PROVE  CInv'
    BY <1>1, <1>4, CauseKeeps, InviteFailsKeeps, NewKeeps
<1>5. ASSUME NEW c \in CallId,
             \/ \E ok \in BOOLEAN : InviteOk(c, ok) \/ RtpConnect(c, ok)
             \/ PeerEnds(c) \/ RtpCreate(c) \/ NoOtherLeg(c) \/ NoCause(c)
      PROVE  CInv'
    BY <1>1, <1>5, OtherKeeps
<1>6. QED BY <1>2, <1>3, <1>4, <1>5 DEF CausesNext

-----------------------------------------------------------------------------
\* The reasons of every call stay as ReasonOK says.
THEOREM CausesInvariance == CausesSpec => []CInv
BY CausesInitGood, CausesNextGood, PTL DEF CausesSpec

\* sip_release_call refuses a caller with the status of the first cause that the MSC gave,
\* as the first row of cause_map that has it says, or with that of the last row.
THEOREM CallerToldCause == CausesSpec => []CauseReachesCaller
<1>1. CInv => CauseReachesCaller
    BY DEF CInv, ReasonOK, StatusFor, CauseReachesCaller
<1>2. QED BY <1>1, CausesInvariance, PTL

\* Every DISC_REQ and REL_REQ after a final status of the SIP peer has the cause of the
\* first row of cause_map with that status, or that of the last row.
THEOREM MscToldStatus == CausesSpec => []StatusReachesMsc
<1>1. CInv => StatusReachesMsc
    <2> SUFFICES ASSUME CInv, NEW c \in CallId, HasMncc(calls[c]), reason[c].failed # 0
                 PROVE  \E i \in 1 .. Rows : /\ FirstMatch(1, reason[c].failed, i)
                                             /\ reason[c].told = cause_map[i][2]
        BY DEF StatusReachesMsc
    <2>1. reason[c].told = cause_map[Search(1, reason[c].failed)][2]
        BY DEF CInv, ReasonOK, status2cause
    <2>2. QED BY <2>1, SearchFinds
<1>2. QED BY <1>1, CausesInvariance, PTL

=============================================================================
