--------------------------- MODULE SettingsProofs ---------------------------
(***************************************************************************)
(* Proofs about Settings, for any values of the settings and any files.    *)
(*                                                                         *)
(* Configured says what a file amounts to; ReadNothing and ReadLine show   *)
(* that it is what its commands do one after the other.  WriteThenRead:    *)
(* the commands that config_write prints configure what they were printed  *)
(* from.  Hence SInv: the last settings that were saved are those of the   *)
(* file, and SettingsSurvive.                                              *)
(***************************************************************************)
EXTENDS Settings, SequenceTheorems, LeastNumber

Key == {"path", "local", "remote", "level", "imsi"}

\* The settings a process can have.
Values == [path : Path, local : Addr, remote : Host, level : Level, imsi : BOOLEAN]

\* The inductive invariant.
SInv == /\ app \in Values
        /\ saved \in Values
        /\ saved = Configured(file)

-----------------------------------------------------------------------------
(* What a file amounts to.                                                 *)

\* The lines of a file that set something: one of them is the last.
LEMMA MaxLine ==
    ASSUME NEW n \in Nat, NEW S, S \subseteq 1 .. n, S # {}
    PROVE  Max(S) \in S /\ \A i \in S : Max(S) >= i
<1> DEFINE D == {n - i : i \in S}
<1>1. D \subseteq Nat /\ D # {}
  <2>1. \A i \in S : n - i \in Nat
    OBVIOUS
  <2>2. PICK i \in S : TRUE
    OBVIOUS
  <2>3. n - i \in D
    OBVIOUS
  <2> QED  BY <2>1, <2>3
<1>2. PICK d \in D : \A e \in D : d <= e
  <2> HIDE DEF D
  <2> QED  BY <1>1, LeastElement
<1>3. PICK m \in S : d = n - m
  BY <1>2
<1>4. ASSUME NEW i \in S
      PROVE  m >= i
  <2>1. n - i \in D
    OBVIOUS
  <2>2. n - m <= n - i
    BY <1>2, <1>3, <2>1
  <2> QED  BY <2>2
<1>5. \E x \in S : \A y \in S : x >= y
  BY <1>4
<1> QED  BY <1>5, Zenon DEF Max

\* A setting that no line or a single one is about.
LEMMA SetOnce ==
    ASSUME NEW f, NEW key, NEW default, NEW i \in Nat, i \in DOMAIN f, Sets(f[i], key),
           \A j \in DOMAIN f : Sets(f[j], key) => j = i
    PROVE  Setting(f, key, default) = Value(f[i])
<1> DEFINE lines == {j \in DOMAIN f : Sets(f[j], key)}
<1>1. lines = {i}
  OBVIOUS
<1>2. Max({i}) = i
  <2>1. \A x \in {i} : (\A y \in {i} : x >= y) <=> x = i
    OBVIOUS
  <2>2. Max({i}) \in {i}
    <3>1. \E x \in {i} : \A y \in {i} : x >= y
      OBVIOUS
    <3> QED  BY <3>1, Zenon DEF Max
  <2> QED  BY <2>2
<1>3. Setting(f, key, default) = IF lines = {} THEN default ELSE Value(f[Max(lines)])
  BY DEF Setting
<1> HIDE DEF lines
<1> QED  BY <1>1, <1>2, <1>3

\* A setting that no line is about.
LEMMA SetNever ==
    ASSUME NEW f, NEW key, NEW default, \A j \in DOMAIN f : ~Sets(f[j], key)
    PROVE  Setting(f, key, default) = default
BY DEF Setting

\* The settings of the defaults are the keys.
LEMMA DefaultKeys == DOMAIN Defaults = Key /\ Defaults \in [Key -> {Defaults[k] : k \in Key}]
BY DEF Defaults, Key

\* An empty file leaves the defaults.
LEMMA ReadNothing == Configured(<<>>) = Defaults
<1>1. \A k \in Key : Setting(<<>>, k, Defaults[k]) = Defaults[k]
  BY SetNever
<1>2. Configured(<<>>) = [k \in Key |-> Defaults[k]]
  BY <1>1, DefaultKeys DEF Configured
<1> QED  BY <1>2, DefaultKeys

\* One more line is one more command: with ReadNothing, Configured is what the commands
\* of the file do in their order.
LEMMA ReadLine ==
    ASSUME NEW f \in Seq(Command), NEW cmd \in Command
    PROVE  Configured(Append(f, cmd)) = Apply(Configured(f), cmd)
<1> DEFINE n == Len(f)
           g == Append(f, cmd)
<1>1. /\ n \in Nat /\ DOMAIN f = 1 .. n /\ DOMAIN g = 1 .. (n + 1)
      /\ g[n + 1] = cmd
      /\ \A i \in 1 .. n : g[i] = f[i]
  BY LenProperties, AppendProperties
<1>3. ASSUME NEW key \in Key, NEW default
      PROVE  Setting(g, key, default) = IF Sets(cmd, key) THEN Value(cmd) ELSE Setting(f, key, default)
  <2> DEFINE F == {i \in DOMAIN f : Sets(f[i], key)}
             G == {i \in DOMAIN g : Sets(g[i], key)}
  <2>0. /\ Setting(f, key, default) = IF F = {} THEN default ELSE Value(f[Max(F)])
        /\ Setting(g, key, default) = IF G = {} THEN default ELSE Value(g[Max(G)])
    BY DEF Setting
  <2> HIDE DEF n, g
  <2>1. CASE Sets(cmd, key)
    <3>1. n + 1 \in G /\ G \subseteq 1 .. (n + 1)
      BY <1>1, <2>1
    <3> HIDE DEF G, F
    <3>2. Max(G) \in G /\ Max(G) >= n + 1
      <4> DEFINE k == n + 1
      <4>1. k \in Nat /\ k \in G /\ G \subseteq 1 .. k /\ G # {}
        BY <1>1, <3>1
      <4> HIDE DEF k
      <4>2. Max(G) \in G /\ \A i \in G : Max(G) >= i
        BY <4>1, MaxLine
      <4> QED  BY <4>1, <4>2 DEF k
    <3>3. Max(G) = n + 1
      <4>1. Max(G) \in 1 .. (n + 1) /\ Max(G) >= n + 1 /\ n \in Nat
        BY <1>1, <3>1, <3>2
      <4> QED  BY <4>1
    <3> QED  BY <1>1, <2>0, <2>1, <3>1, <3>3
  <2>2. CASE ~Sets(cmd, key)
    <3>1. F = G /\ F \subseteq 1 .. n
      BY <1>1, <2>2
    <3> HIDE DEF F, G
    <3>2. CASE F = {}
      BY <2>0, <2>2, <3>1, <3>2
    <3>3. CASE F # {}
      <4>1. Max(F) \in 1 .. n
        BY <1>1, <3>1, <3>3, MaxLine
      <4> QED  BY <1>1, <2>0, <2>2, <3>1, <3>3, <4>1
    <3> QED  BY <3>2, <3>3
  <2> QED  BY <2>1, <2>2
<1> HIDE DEF n, g
<1>4. /\ Configured(g) = [key \in Key |-> Setting(g, key, Defaults[key])]
      /\ Configured(f) = [key \in Key |-> Setting(f, key, Defaults[key])]
  BY DefaultKeys DEF Configured
<1>5. Apply(Configured(f), cmd)
        = [key \in Key |-> IF Sets(cmd, key) THEN Value(cmd) ELSE Configured(f)[key]]
  BY <1>4 DEF Apply
<1>6. Configured(g) = Apply(Configured(f), cmd)
  BY <1>3, <1>4, <1>5
<1> QED  BY <1>6 DEF g

-----------------------------------------------------------------------------
(* Types.                                                                  *)

\* What a command assigns is of the type of the setting.
LEMMA ValueType ==
    ASSUME NEW cmd \in Command
    PROVE  /\ Sets(cmd, "path") => Value(cmd) \in Path
           /\ Sets(cmd, "local") => Value(cmd) \in Addr
           /\ Sets(cmd, "remote") => Value(cmd) \in Host
           /\ Sets(cmd, "level") => Value(cmd) \in Level
           /\ Sets(cmd, "imsi") => Value(cmd) \in BOOLEAN
<1>0. \/ cmd[1] = "sip" /\ cmd[2] = "local" /\ cmd[3] \in Addr
      \/ cmd[1] = "sip" /\ cmd[2] = "remote" /\ cmd[3] \in Host
      \/ cmd[1] = "sip" /\ cmd[2] = "sofia-sip log-level" /\ cmd[3] \in Level
      \/ cmd[1] = "mncc" /\ cmd[2] = "socket-path" /\ cmd[3] \in Path
      \/ cmd[1] = "app" /\ cmd[2] \in {"use-imsi", "no use-imsi"}
  <2>1. \/ \E a \in Addr : cmd = <<"sip", "local", a>>
        \/ \E h \in Host : cmd = <<"sip", "remote", h>>
        \/ \E n \in Level : cmd = <<"sip", "sofia-sip log-level", n>>
        \/ \E p \in Path : cmd = <<"mncc", "socket-path", p>>
        \/ \E w \in {"use-imsi", "no use-imsi"} : cmd = <<"app", w, "">>
    BY Zenon DEF Command
  <2>2. CASE \E a \in Addr : cmd = <<"sip", "local", a>>
    BY <2>2
  <2>3. CASE \E h \in Host : cmd = <<"sip", "remote", h>>
    BY <2>3
  <2>4. CASE \E n \in Level : cmd = <<"sip", "sofia-sip log-level", n>>
    <3>1. PICK n \in Level : cmd = <<"sip", "sofia-sip log-level", n>>
      BY <2>4
    <3>2. cmd[1] = "sip" /\ cmd[2] = "sofia-sip log-level" /\ cmd[3] = n
      BY <3>1
    <3> QED  BY <3>2
  <2>5. CASE \E p \in Path : cmd = <<"mncc", "socket-path", p>>
    BY <2>5
  <2>6. CASE \E w \in {"use-imsi", "no use-imsi"} : cmd = <<"app", w, "">>
    <3>1. PICK w \in {"use-imsi", "no use-imsi"} : cmd = <<"app", w, "">>
      BY <2>6
    <3>2. cmd[1] = "app" /\ cmd[2] = w
      BY <3>1
    <3> QED  BY <3>2
  <2> QED  BY <2>1, <2>2, <2>3, <2>4, <2>5, <2>6
<1> USE DEF Sets, Assigns
<1>1. CASE cmd[1] = "sip" /\ cmd[2] = "local" /\ cmd[3] \in Addr
  BY <1>1 DEF Value
<1>2. CASE cmd[1] = "sip" /\ cmd[2] = "remote" /\ cmd[3] \in Host
  BY <1>2 DEF Value
<1>3. CASE cmd[1] = "sip" /\ cmd[2] = "sofia-sip log-level" /\ cmd[3] \in Level
  BY <1>3 DEF Value
<1>4. CASE cmd[1] = "mncc" /\ cmd[2] = "socket-path" /\ cmd[3] \in Path
  BY <1>4 DEF Value
<1>5. CASE cmd[1] = "app" /\ cmd[2] \in {"use-imsi", "no use-imsi"}
  <2>1. Value(cmd) \in BOOLEAN
    BY <1>5, Zenon DEF Value
  <2> QED  BY <1>5, <2>1
<1> QED  BY <1>0, <1>1, <1>2, <1>3, <1>4, <1>5

\* A record of settings, key by key.
LEMMA ByKey ==
    ASSUME NEW g, g = [key \in Key |-> g[key]], g["path"] \in Path, g["local"] \in Addr,
           g["remote"] \in Host, g["level"] \in Level, g["imsi"] \in BOOLEAN
    PROVE  g \in Values
BY DEF Values, Key

\* A command leaves settings that a process can have.
LEMMA ApplyType ==
    ASSUME NEW g \in Values, NEW cmd \in Command
    PROVE  Apply(g, cmd) \in Values
<1> DEFINE h == Apply(g, cmd)
<1>1. /\ DOMAIN g = Key /\ g.path \in Path /\ g.local \in Addr /\ g.remote \in Host
      /\ g.level \in Level /\ g.imsi \in BOOLEAN
  BY DEF Values, Key
<1>2. h = [key \in Key |-> IF Sets(cmd, key) THEN Value(cmd) ELSE g[key]]
  BY <1>1 DEF Apply
<1> HIDE DEF h
<1>3. /\ h["path"] \in Path /\ h["local"] \in Addr /\ h["remote"] \in Host
      /\ h["level"] \in Level
  BY <1>1, <1>2, ValueType DEF Key
<1>4. h["imsi"] \in BOOLEAN
  <2>1. h["imsi"] = IF Sets(cmd, "imsi") THEN Value(cmd) ELSE g["imsi"]
    BY <1>2 DEF Key
  <2> QED  BY <1>1, <2>1, ValueType, Zenon
<1>5. h = [key \in Key |-> h[key]]
  BY <1>2
<1> QED  BY <1>3, <1>4, <1>5, ByKey DEF h

\* So does a file.
LEMMA ConfiguredType ==
    ASSUME NEW f \in Seq(Command)
    PROVE  Configured(f) \in Values
<1> DEFINE Of(key) == {Value(cmd) : cmd \in {c \in Command : Sets(c, key)}}
           h == Configured(f)
<1>1. ASSUME NEW key, NEW default
      PROVE  Setting(f, key, default) \in Of(key) \cup {default}
  <2> DEFINE lines == {i \in DOMAIN f : Sets(f[i], key)}
  <2>1. Setting(f, key, default) = IF lines = {} THEN default ELSE Value(f[Max(lines)])
    BY DEF Setting
  <2>2. lines \subseteq 1 .. Len(f) /\ Len(f) \in Nat
    BY LenProperties
  <2>3. \A i \in lines : f[i] \in Command /\ Sets(f[i], key)
    BY LenProperties, ElementOfSeq
  <2> HIDE DEF lines
  <2>4. CASE lines # {}
    <3>1. Max(lines) \in lines
      BY <2>2, <2>4, MaxLine
    <3>2. Value(f[Max(lines)]) \in Of(key)
      BY <2>3, <3>1
    <3> QED  BY <2>1, <2>4, <3>2
  <2> QED  BY <2>1, <2>4
<1>2. /\ Of("path") \subseteq Path
      /\ Of("local") \subseteq Addr
      /\ Of("remote") \subseteq Host
      /\ Of("level") \subseteq Level
      /\ Of("imsi") \subseteq BOOLEAN
  BY ValueType
<1> HIDE DEF Of
<1>3. h = [key \in Key |-> Setting(f, key, Defaults[key])]
  BY DefaultKeys DEF Configured
<1> HIDE DEF h
<1>4. \A key \in Key : h[key] \in Of(key) \cup {Defaults[key]}
  BY <1>1, <1>3
<1>5. /\ h["path"] \in Path /\ h["local"] \in Addr /\ h["remote"] \in Host
      /\ h["level"] \in Level
  BY <1>2, <1>4, DefaultsAssumption DEF Key
<1>6. h["imsi"] \in BOOLEAN
  <2>1. Defaults["imsi"] = FALSE
    BY DEF Defaults
  <2>2. h["imsi"] \in Of("imsi") \cup {FALSE}
    BY <1>4, <2>1 DEF Key
  <2> QED  BY <1>2, <2>2
<1>7. h = [key \in Key |-> h[key]]
  BY <1>3
<1> QED  BY <1>5, <1>6, <1>7, ByKey DEF h

-----------------------------------------------------------------------------
(* What is written is what is read.                                        *)

\* What each line that config_write may print does when it is read.
LEMMA Lines ==
    ASSUME NEW x
    PROVE  /\ \A key : Sets(<<"sip", "local", x>>, key) <=> key = "local"
           /\ \A key : Sets(<<"sip", "remote", x>>, key) <=> key = "remote"
           /\ \A key : Sets(<<"sip", "sofia-sip log-level", x>>, key) <=> key = "level"
           /\ \A key : Sets(<<"mncc", "socket-path", x>>, key) <=> key = "path"
           /\ \A key : Sets(<<"app", "use-imsi", x>>, key) <=> key = "imsi"
           /\ Value(<<"sip", "local", x>>) = x
           /\ Value(<<"sip", "remote", x>>) = x
           /\ Value(<<"sip", "sofia-sip log-level", x>>) = x
           /\ Value(<<"mncc", "socket-path", x>>) = x
           /\ Value(<<"app", "use-imsi", x>>) = TRUE
<1>1. /\ \A key : Sets(<<"sip", "local", x>>, key) <=> key = "local"
      /\ \A key : Sets(<<"sip", "remote", x>>, key) <=> key = "remote"
      /\ \A key : Sets(<<"sip", "sofia-sip log-level", x>>, key) <=> key = "level"
      /\ \A key : Sets(<<"mncc", "socket-path", x>>, key) <=> key = "path"
      /\ \A key : Sets(<<"app", "use-imsi", x>>, key) <=> key = "imsi"
  BY DEF Sets, Assigns
<1>2. /\ Value(<<"sip", "local", x>>) = x
      /\ Value(<<"sip", "remote", x>>) = x
      /\ Value(<<"sip", "sofia-sip log-level", x>>) = x
      /\ Value(<<"mncc", "socket-path", x>>) = x
  BY DEF Value
<1>3. Value(<<"app", "use-imsi", x>>) = TRUE
  <2> DEFINE e == <<"app", "use-imsi", x>>
  <2>1. e[2] = "use-imsi"
    OBVIOUS
  <2> HIDE DEF e
  <2>2. Value(e) = TRUE
    BY <2>1, Zenon DEF Value
  <2> QED  BY <2>2 DEF e
<1> QED  BY <1>1, <1>2, <1>3

\* The lines that config_write prints: commands all of them, each for its setting.
LEMMA Written ==
    ASSUME NEW g \in Values
    PROVE  LET f == config_write(g)
           IN  /\ DOMAIN f = 1 .. (IF g.imsi THEN 5 ELSE 4)
               /\ f \in Seq(Command)
               /\ \A key : Sets(f[1], key) <=> key = "local"
               /\ \A key : Sets(f[2], key) <=> key = "remote"
               /\ \A key : Sets(f[3], key) <=> key = "level"
               /\ \A key : Sets(f[4], key) <=> key = "path"
               /\ g.imsi => \A key : Sets(f[5], key) <=> key = "imsi"
               /\ Value(f[1]) = g.local /\ Value(f[2]) = g.remote
               /\ Value(f[3]) = g.level /\ Value(f[4]) = g.path
               /\ g.imsi => Value(f[5]) = TRUE
<1> DEFINE a == <<"sip", "local", g.local>>
           b == <<"sip", "remote", g.remote>>
           c == <<"sip", "sofia-sip log-level", g.level>>
           d == <<"mncc", "socket-path", g.path>>
           e == <<"app", "use-imsi", "">>
           f == config_write(g)
<1>1. /\ \A key : Sets(a, key) <=> key = "local"
      /\ \A key : Sets(b, key) <=> key = "remote"
      /\ \A key : Sets(c, key) <=> key = "level"
      /\ \A key : Sets(d, key) <=> key = "path"
      /\ \A key : Sets(e, key) <=> key = "imsi"
      /\ Value(a) = g.local /\ Value(b) = g.remote /\ Value(c) = g.level
      /\ Value(d) = g.path
  BY Lines
<1>2. Value(e) = TRUE
  BY Lines, Zenon
<1>3. a \in Command /\ b \in Command /\ c \in Command /\ d \in Command /\ e \in Command
  BY DEF Values, Command
<1>4. g.imsi => f = <<a, b, c, d>> \o <<e>>
  BY DEF config_write
<1>5. ~g.imsi => f = <<a, b, c, d>> \o <<>>
  BY DEF config_write
<1> HIDE DEF a, b, c, d, e, f
<1>6. CASE g.imsi
  <2>1. DOMAIN f = 1 .. 5 /\ f[1] = a /\ f[2] = b /\ f[3] = c /\ f[4] = d /\ f[5] = e
    BY <1>4, <1>6
  <2>2. f \in Seq(Command)
    <3>1. <<a, b, c, d>> \in Seq(Command) /\ <<e>> \in Seq(Command)
      BY <1>3
    <3> QED  BY <1>4, <1>6, <3>1, ConcatProperties
  <2> QED  BY <1>1, <1>2, <1>6, <2>1, <2>2 DEF f
<1>7. CASE ~g.imsi
  <2>1. DOMAIN f = 1 .. 4 /\ f[1] = a /\ f[2] = b /\ f[3] = c /\ f[4] = d
    BY <1>5, <1>7
  <2>2. f \in Seq(Command)
    <3>1. <<a, b, c, d>> \in Seq(Command) /\ <<>> \in Seq(Command)
      BY <1>3
    <3> QED  BY <1>5, <1>7, <3>1, ConcatProperties
  <2> QED  BY <1>1, <1>7, <2>1, <2>2 DEF f
<1> QED  BY <1>6, <1>7

\* The commands that config_write prints are accepted and, run after a restart, give the
\* settings they were printed from: what is not printed is the default.
LEMMA WriteThenRead ==
    ASSUME NEW g \in Values
    PROVE  /\ Accepted(config_write(g))
           /\ Configured(config_write(g)) = g
           /\ LevelAfter(config_write(g)) = g.level
<1> DEFINE f == config_write(g)
<1>1. /\ DOMAIN f = 1 .. (IF g.imsi THEN 5 ELSE 4)
      /\ f \in Seq(Command)
      /\ \A key : Sets(f[1], key) <=> key = "local"
      /\ \A key : Sets(f[2], key) <=> key = "remote"
      /\ \A key : Sets(f[3], key) <=> key = "level"
      /\ \A key : Sets(f[4], key) <=> key = "path"
      /\ g.imsi => \A key : Sets(f[5], key) <=> key = "imsi"
      /\ Value(f[1]) = g.local /\ Value(f[2]) = g.remote
      /\ Value(f[3]) = g.level /\ Value(f[4]) = g.path
      /\ g.imsi => Value(f[5]) = TRUE
  BY Written
<1>2. g.imsi \in BOOLEAN
  BY DEF Values
<1> HIDE DEF f
<1>3. \A j \in DOMAIN f : j \in {1, 2, 3, 4} \/ (j = 5 /\ g.imsi)
  BY <1>1, <1>2
<1>4. 1 \in DOMAIN f /\ 2 \in DOMAIN f /\ 3 \in DOMAIN f /\ 4 \in DOMAIN f
  BY <1>1
<1>5. \A default : Setting(f, "local", default) = g.local
  <2>1. Sets(f[1], "local") /\ \A j \in DOMAIN f : Sets(f[j], "local") => j = 1
    BY <1>1, <1>3
  <2> QED  BY <1>1, <1>4, <2>1, SetOnce
<1>6. \A default : Setting(f, "remote", default) = g.remote
  <2>1. Sets(f[2], "remote") /\ \A j \in DOMAIN f : Sets(f[j], "remote") => j = 2
    BY <1>1, <1>3
  <2> QED  BY <1>1, <1>4, <2>1, SetOnce
<1>7. \A default : Setting(f, "level", default) = g.level
  <2>1. Sets(f[3], "level") /\ \A j \in DOMAIN f : Sets(f[j], "level") => j = 3
    BY <1>1, <1>3
  <2> QED  BY <1>1, <1>4, <2>1, SetOnce
<1>8. \A default : Setting(f, "path", default) = g.path
  <2>1. Sets(f[4], "path") /\ \A j \in DOMAIN f : Sets(f[j], "path") => j = 4
    BY <1>1, <1>3
  <2> QED  BY <1>1, <1>4, <2>1, SetOnce
<1>9. Setting(f, "imsi", FALSE) = g.imsi
  <2>1. CASE g.imsi
    <3>1. Sets(f[5], "imsi") /\ \A j \in DOMAIN f : Sets(f[j], "imsi") => j = 5
      BY <1>1, <1>3, <2>1
    <3>2. 5 \in DOMAIN f /\ Value(f[5]) = TRUE
      BY <1>1, <2>1
    <3>3. Setting(f, "imsi", FALSE) = Value(f[5])
      BY <3>1, <3>2, SetOnce
    <3>4. g.imsi = TRUE
      BY <1>2, <2>1, Zenon
    <3> QED  BY <3>2, <3>3, <3>4
  <2>2. CASE ~g.imsi
    <3>1. \A j \in DOMAIN f : ~Sets(f[j], "imsi")
      BY <1>1, <1>3, <2>2
    <3>2. Setting(f, "imsi", FALSE) = FALSE
      BY <3>1, SetNever
    <3>3. g.imsi = FALSE
      BY <1>2, <2>2, Zenon
    <3> QED  BY <3>2, <3>3
  <2> QED  BY <2>1, <2>2
<1>10. \A key \in Key : Setting(f, key, Defaults[key]) = g[key]
  <2>1. Defaults["imsi"] = FALSE
    BY DEF Defaults
  <2> QED  BY <1>5, <1>6, <1>7, <1>8, <1>9, <2>1 DEF Key
<1>11. Configured(f) = [key \in Key |-> g[key]]
  BY <1>10, DefaultKeys DEF Configured
<1>12. g = [key \in Key |-> g[key]]
  BY DEF Values, Key
<1>13. LevelAfter(f) = g.level
  BY <1>7 DEF LevelAfter
<1>14. Accepted(f)
  BY <1>1, ElementOfSeq, LenProperties DEF Accepted
<1> QED  BY <1>11, <1>12, <1>13, <1>14 DEF f

-----------------------------------------------------------------------------
(* The theorems.                                                           *)

\* The settings of the last write, or of the file of the operator, are those of the file
\* in every reachable state.
THEOREM SettingsInvariance == Spec => []SInv
<1>1. Init => SInv
  <2> SUFFICES ASSUME Init
               PROVE  SInv
    OBVIOUS
  <2>1. app \in Values
    BY DefaultsAssumption DEF Init, Values, Defaults
  <2>2. file \in Seq(Command) /\ saved = Configured(file)
    BY FilesAssumption DEF Init
  <2> QED  BY <2>1, <2>2, ConfiguredType DEF SInv
<1>2. SInv /\ [Next]_vars => SInv'
  <2> SUFFICES ASSUME SInv, [Next]_vars
               PROVE  SInv'
    OBVIOUS
  <2> USE DEF SInv
  <2>1. CASE Start
    <3>1. app' = saved /\ saved' = saved /\ file' = file
      BY <2>1 DEF Start
    <3> QED  BY <3>1 DEF Values, Configured, Setting
  <2>2. CASE Stop
    BY <2>2 DEF Stop, Values, Configured, Setting
  <2>3. CASE WriteFile
    <3>1. app' = app /\ saved' = app /\ file' = config_write(app)
      BY <2>3 DEF WriteFile
    <3>2. Configured(config_write(app)) = app
      BY WriteThenRead
    <3>3. Configured(file') = app
      BY <3>1, <3>2
    <3> QED  BY <3>1, <3>3
  <2>4. ASSUME NEW cmd \in Command, Configure(cmd)
        PROVE  SInv'
    <3>1. app' = Apply(app, cmd) /\ saved' = saved /\ file' = file
      BY <2>4 DEF Configure
    <3>2. Apply(app, cmd) \in Values
      BY ApplyType
    <3> QED  BY <3>1, <3>2
  <2>5. CASE UNCHANGED vars
    BY <2>5 DEF vars
  <2> QED  BY <2>1, <2>2, <2>3, <2>4, <2>5 DEF Next
<1> QED  BY <1>1, <1>2, PTL DEF Spec

\* Write and restart: a process starts with the settings of the last write, and they are
\* in effect, for any values, any files and any number of restarts.
THEOREM RestartKeeps == Spec => SettingsSurvive
<1> DEFINE Kept == /\ file' # file => Accepted(file')
                   /\ ~running /\ running' =>
                         /\ app' = saved
                         /\ uri' = saved.local
                         /\ file = config_write(saved) => level' = saved.level
<1>0. ASSUME SInv, Next, file' # file
      PROVE  Accepted(file')
  <2>1. file' = config_write(app) /\ app \in Values
    BY <1>0 DEF Next, Start, Stop, Configure, WriteFile, SInv
  <2>2. Accepted(config_write(app))
    BY <2>1, WriteThenRead
  <2> QED  BY <2>1, <2>2
<1>1. SInv /\ [Next]_vars => [Kept]_vars
  <2> SUFFICES ASSUME SInv, Next, ~running, running'
               PROVE  /\ app' = saved
                      /\ uri' = saved.local
                      /\ file = config_write(saved) => level' = saved.level
    BY <1>0 DEF Kept
  <2>1. Start
    BY DEF Next, Stop, Configure, WriteFile
  <2>2. /\ app' = Configured(file)
        /\ uri' = Configured(file).local
        /\ level' = LevelAfter(file)
    BY <2>1 DEF Start, make_sip_uri
  <2>3. saved \in Values /\ saved = Configured(file)
    BY DEF SInv
  <2>4. LevelAfter(config_write(saved)) = saved.level
    BY <2>3, WriteThenRead
  <2> QED  BY <2>2, <2>3, <2>4
<1>2. Spec => [][Kept]_vars
  BY <1>1, SettingsInvariance, PTL DEF Spec
<1> QED  BY <1>2 DEF SettingsSurvive
=============================================================================
