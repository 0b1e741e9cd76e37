--------------------------- MODULE NumberingProofs --------------------------
(***************************************************************************)
(* Proofs about Numbering, for numbers of every length and every size of   *)
(* the buffers.                                                            *)
(*                                                                         *)
(* A text that went through a buffer fits the next one of the same size    *)
(* (CutTwice), so only the "+" of an international number could be taken   *)
(* for part of a number, or the first digit of a number for a "+".  NInv   *)
(* says how the INVITE and SETUP_REQ were made of the last SETUP_IND; both *)
(* properties follow from it and from what Calling does to a Dest.         *)
(***************************************************************************)
EXTENDS Numbering, SequenceTheorems, TLAPS

\* The characters of a called number: digits, and the word for an emergency call.
Symbol == Digit \cup {"emergency"}

\* The numbers an INVITE can be for.
Wanted == Dialled \cup {emergency_number}

\* INVITE and SETUP_REQ of a call from s to t.
InviteFor(s, t) == [kind |-> "invite", from |-> Source(s), to |-> Dest(t)]
SetupFor(s, t)  == [kind |-> "setup", calling |-> Calling(Dest(t)), called |-> Called(Source(s))]

\* The inductive invariant: nothing happened, or the INVITE and SETUP_REQ are those of
\* the last call.
NInv ==
    /\ use_imsi \in BOOLEAN
    /\ \/ mo = None /\ invite = None /\ setup = None
       \/ \E s \in Subscriber, t \in Wanted :
             /\ mo = [kind |-> "call", from |-> s, to |-> t]
             /\ invite = InviteFor(s, t)
             /\ setup \in {None, SetupFor(s, t)}

\* Cut keeps the characters of a text, as many as fit.
LEMMA CutType ==
    ASSUME NEW S, NEW text \in Seq(S), NEW n \in Nat
    PROVE  /\ Cut(text, n) \in Seq(S)
           /\ Len(Cut(text, n)) = IF Len(text) < n THEN Len(text) ELSE n
           /\ \A i \in 1 .. Len(Cut(text, n)) : Cut(text, n)[i] = text[i]
<1> DEFINE m == IF Len(text) < n THEN Len(text) ELSE n
<1>1. m \in Nat /\ m <= Len(text)
  BY LenProperties
<1>2. /\ SubSeq(text, 1, m) \in Seq(S)
      /\ Len(SubSeq(text, 1, m)) = m
      /\ \A i \in 1 .. m : SubSeq(text, 1, m)[i] = text[i]
  <2> HIDE DEF m
  <2>1. Len(text) \in Nat
    BY LenProperties
  <2>2. \A i \in 1 .. m : text[i] \in S
    BY <1>1, <2>1, ElementOfSeq
  <2> QED  BY <1>1, <2>1, <2>2, SubSeqProperties
<1> QED  BY <1>2 DEF Cut

\* A text that fits is not changed.
LEMMA CutFits ==
    ASSUME NEW S, NEW text \in Seq(S), NEW n \in Nat, Len(text) <= n
    PROVE  Cut(text, n) = text
<1> DEFINE c == Cut(text, n)
<1>1. /\ c \in Seq(S) /\ Len(c) = Len(text) /\ Len(text) \in Nat
      /\ \A i \in 1 .. Len(c) : c[i] = text[i]
  <2>1. /\ c \in Seq(S)
        /\ Len(c) = IF Len(text) < n THEN Len(text) ELSE n
        /\ \A i \in 1 .. Len(c) : c[i] = text[i]
    BY CutType
  <2>2. Len(text) \in Nat
    BY LenProperties
  <2> HIDE DEF c
  <2> QED  BY <2>1, <2>2
<1> HIDE DEF c
<1>2. c = text
  BY <1>1, SeqEqual
<1> QED  BY <1>2 DEF c

\* A text that was cut to a size fits a buffer of that size: strings copied from one
\* field of 32 characters to the other lose nothing on the way.
LEMMA CutTwice ==
    ASSUME NEW S, NEW text \in Seq(S), NEW n \in Nat
    PROVE  Cut(Cut(text, n), n) = Cut(text, n)
<1> DEFINE c == Cut(text, n)
<1>1. c \in Seq(S) /\ Len(c) <= n
  BY CutType, LenProperties
<1> HIDE DEF c
<1>2. Cut(c, n) = c
  BY <1>1, CutFits
<1> QED  BY <1>2 DEF c

\* A dialled number is one of symbols, none of them a "+".
LEMMA WantedText ==
    ASSUME NEW t \in Wanted
    PROVE  t.text \in Seq(Symbol)
<1>1. CASE t \in Dialled
  <2>1. t.text \in Seq(Digit)
    BY <1>1, DialledAssumption
  <2> QED  BY <2>1 DEF Symbol
<1>2. CASE t = emergency_number
  <2>1. t.text = <<"emergency">>
    BY <1>2 DEF emergency_number
  <2> QED  BY <2>1 DEF Symbol
<1> QED  BY <1>1, <1>2 DEF Wanted

\* continue_mo_call and mncc_create_remote_leg undo each other: what the latter makes of
\* the To of the former is the dialled number again, as far as it fits.
LEMMA CallingOfDest ==
    ASSUME NEW t \in Wanted
    PROVE  /\ Calling(Dest(t)).text = Cut(t.text, NumberSize)
           /\ (Calling(Dest(t)).type = "INTERNATIONAL") <=> (t.type = "INTERNATIONAL")
<1> DEFINE c == Cut(t.text, NumberSize)
<1>1. NumberSize \in Nat
  BY SizeAssumption
<1>2. t.text \in Seq(Symbol)
  BY WantedText
<1>3. c \in Seq(Symbol)
  BY <1>1, <1>2, CutType
<1>4. Cut(c, NumberSize) = c
  BY <1>1, <1>2, CutTwice
<1> HIDE DEF c
<1>5. CASE t.type = "INTERNATIONAL"
  <2> DEFINE d == <<"+">> \o c
  <2>1. Dest(t) = d
    BY <1>5 DEF Dest, c
  <2>2. d # <<>> /\ Head(d) = "+" /\ Tail(d) = c
    BY <1>3
  <2> HIDE DEF d
  <2>3. Calling(d) = [type |-> "INTERNATIONAL", text |-> c]
    BY <2>2, <1>4 DEF Calling
  <2> QED  BY <1>5, <2>1, <2>3 DEF c
<1>6. CASE t.type # "INTERNATIONAL"
  <2>1. Dest(t) = c
    <3>1. Dest(t) = <<>> \o c
      BY <1>6 DEF Dest, c
    <3> QED  BY <1>3, <3>1
  <2>2. c # <<>> => Head(c) # "+"
    <3>1. c # <<>> => Head(c) \in Symbol
      BY <1>3
    <3>2. "+" \notin Symbol
      BY DEF Symbol, Digit
    <3> QED  BY <3>1, <3>2
  <2>3. Calling(c) = [type |-> "UNKNOWN", text |-> c]
    BY <2>2, <1>4 DEF Calling
  <2> QED  BY <1>6, <2>1, <2>3 DEF c
<1> QED  BY <1>5, <1>6

\* With numbers as identities a SETUP_REQ to the caller is for the number it called from.
LEMMA CalledOfSource ==
    ASSUME NEW s \in Subscriber, ~use_imsi
    PROVE  Called(Source(s)).text = Cut(s.number.text, NumberSize)
<1> DEFINE c == Cut(s.number.text, NumberSize)
<1>1. NumberSize \in Nat /\ s.number.text \in Seq(Digit)
  BY SizeAssumption, SubscriberAssumption
<1>2. Cut(c, NumberSize) = c
  BY <1>1, CutTwice
<1>3. Source(s) = c
  BY DEF Source
<1> HIDE DEF c
<1>4. Called(c) = [imsi |-> <<>>, text |-> c]
  BY <1>2 DEF Called
<1> QED  BY <1>3, <1>4 DEF c

\* With IMSIs as identities it is for the IMSI, if two characters of the field are unused.
LEMMA CalledOfImsi ==
    ASSUME NEW s \in Subscriber, use_imsi, Len(s.imsi) <= ImsiSize - 2
    PROVE  Called(Source(s)).imsi = s.imsi
<1> DEFINE n == ImsiSize - 2
<1>1. s.imsi \in Seq(Digit) /\ Len(s.imsi) \in Nat /\ ImsiSize \in Nat
  BY SizeAssumption, SubscriberAssumption, LenProperties
<1>2. n \in Nat /\ Len(s.imsi) <= n /\ Len(s.imsi) <= ImsiSize
  BY <1>1
<1>3. Source(s) = Cut(s.imsi, ImsiSize) /\ Cut(s.imsi, ImsiSize) = s.imsi
  BY <1>1, <1>2, CutFits DEF Source
<1>4. Called(s.imsi) = [imsi |-> Cut(s.imsi, n), text |-> <<>>]
  BY DEF Called
<1> HIDE DEF n
<1>5. Cut(s.imsi, n) = s.imsi
  BY <1>1, <1>2, CutFits
<1> QED  BY <1>3, <1>4, <1>5

\* A call that passed check_setup: its INVITE is made of its numbers.
LEMMA MoCallStep ==
    ASSUME NInv, NEW s \in Subscriber, NEW called \in Dialled, NEW emergency, NEW gcr,
           MoCall(s, called, emergency, gcr)
    PROVE  NInv'
<1> DEFINE t == IF called = NoNumber THEN emergency_number ELSE called
<1>1. t \in Wanted
  BY DEF Wanted
<1>2. /\ mo' = [kind |-> "call", from |-> s, to |-> t]
      /\ invite' = InviteFor(s, t)
      /\ setup' = None
      /\ use_imsi' = use_imsi
  BY DEF MoCall, InviteFor
<1> HIDE DEF t
<1>3. InviteFor(s, t)' = InviteFor(s, t)
  BY <1>2 DEF InviteFor, Source, Dest
<1> QED  BY <1>1, <1>2, <1>3 DEF NInv

\* The call back: its SETUP_REQ is made of the INVITE.
LEMMA CallBackStep ==
    ASSUME NInv, CallBack
    PROVE  NInv'
<1>1. /\ setup' = [kind |-> "setup", calling |-> Calling(invite.to), called |-> Called(invite.from)]
      /\ use_imsi' = use_imsi /\ mo' = mo /\ invite' = invite /\ invite # None
  BY DEF CallBack
<1>2. PICK s \in Subscriber, t \in Wanted :
          mo = [kind |-> "call", from |-> s, to |-> t] /\ invite = InviteFor(s, t)
  BY <1>1 DEF NInv
<1>3. invite.to = Dest(t) /\ invite.from = Source(s)
  BY <1>2 DEF InviteFor
<1>4. setup' = SetupFor(s, t)
  BY <1>1, <1>3 DEF SetupFor
<1>5. SetupFor(s, t)' = SetupFor(s, t) /\ InviteFor(s, t)' = InviteFor(s, t)
  BY <1>1 DEF SetupFor, InviteFor, Source, Called, Calling, Dest
<1> QED  BY <1>1, <1>2, <1>4, <1>5 DEF NInv

\* NInv holds in every reachable state, for subscribers and numbers of any length.
THEOREM NumberingInvariance == Spec => []NInv
<1>1. Init => NInv
  BY DEF Init, NInv
<1>2. NInv /\ [Next]_vars => NInv'
  <2> SUFFICES ASSUME NInv, [Next]_vars
               PROVE  NInv'
    OBVIOUS
  <2>1. CASE CallBack
    BY <2>1, CallBackStep
  <2>2. ASSUME NEW s \in Subscriber, NEW called \in Dialled, NEW emergency, NEW gcr,
               MoCall(s, called, emergency, gcr)
        PROVE  NInv'
    BY <2>2, MoCallStep
  <2>3. ASSUME NEW s \in Subscriber, NEW called \in Dialled, NEW emergency, NEW gcr,
               MoRejected(s, called, emergency, gcr)
        PROVE  NInv'
    BY <2>3 DEF MoRejected, NInv
  <2>4. CASE UNCHANGED vars
    BY <2>4 DEF vars, NInv, InviteFor, SetupFor, Source, Called, Calling, Dest
  <2> QED  BY <2>1, <2>2, <2>3, <2>4 DEF Next
<1> QED  BY <1>1, <1>2, PTL DEF Spec

\* A party that calls back is shown to the subscriber as it was dialled, with or without
\* "+", whatever the lengths of numbers and buffers (mncc_create_remote_leg undoes
\* continue_mo_call).
THEOREM CallBackShown == Spec => []ShownAsDialled
<1>1. NInv => ShownAsDialled
  <2> SUFFICES ASSUME NInv, setup # None
               PROVE  /\ setup.calling.text = Cut(mo.to.text, NumberSize)
                      /\ (setup.calling.type = "INTERNATIONAL") <=> (mo.to.type = "INTERNATIONAL")
    BY DEF ShownAsDialled
  <2>1. PICK s \in Subscriber, t \in Wanted :
            mo = [kind |-> "call", from |-> s, to |-> t] /\ setup = SetupFor(s, t)
    BY DEF NInv
  <2>2. setup.calling = Calling(Dest(t)) /\ mo.to = t
    BY <2>1 DEF SetupFor
  <2> QED  BY <2>2, CallingOfDest
<1> QED  BY <1>1, NumberingInvariance, PTL

\* The call-back is for the number of the caller or, with IMSIs as identities, for the
\* IMSI that leaves room in its field, whatever the lengths of numbers and buffers.
THEOREM CallBackReaches == Spec => []IdentityReachesCaller
<1>1. NInv => IdentityReachesCaller
  <2> SUFFICES ASSUME NInv, setup # None
               PROVE  /\ ~use_imsi => setup.called.text = Cut(mo.from.number.text, NumberSize)
                      /\ use_imsi /\ Len(mo.from.imsi) <= ImsiSize - 2
                            => setup.called.imsi = mo.from.imsi
    BY DEF IdentityReachesCaller
  <2>1. PICK s \in Subscriber, t \in Wanted :
            mo = [kind |-> "call", from |-> s, to |-> t] /\ setup = SetupFor(s, t)
    BY DEF NInv
  <2>2. setup.called = Called(Source(s)) /\ mo.from = s
    BY <2>1 DEF SetupFor
  <2>3. ~use_imsi => setup.called.text = Cut(mo.from.number.text, NumberSize)
    BY <2>2, CalledOfSource
  <2>4. use_imsi /\ Len(mo.from.imsi) <= ImsiSize - 2 => setup.called.imsi = mo.from.imsi
    BY <2>2, CalledOfImsi
  <2> QED  BY <2>3, <2>4
<1> QED  BY <1>1, NumberingInvariance, PTL
=============================================================================
