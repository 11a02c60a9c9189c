-------------------------- MODULE ProcFilesProofs --------------------------
(***************************************************************************)
(* Proofs about a process's row: whose files it was read from, however     *)
(* many processes have the number meanwhile, and which field of stat each  *)
(* part of it is, for names of any words.                                  *)
(***************************************************************************)
EXTENDS ProcFiles, SequenceTheorems, TLAPS

-----------------------------------------------------------------------------
(* The fields.                                                             *)

(* The line of stat: field 1, the words of the name, fields 3 to 22.       *)
LEMMA LineIs ==
  ASSUME NEW name \in Names
  PROVE  /\ Len(name) \in 1 .. 11 /\ DOMAIN name = 1 .. Len(name)
         /\ Column(name, 1) = Field(1)
         /\ \A c \in 2 .. Len(name) + 1 : Column(name, c) = Word(c - 1)
         /\ \A c \in Len(name) + 2 .. 22 : Column(name, c) = Field(c - Len(name) + 1)
<1> DEFINE s1 == << Field(1) >>
           s2 == [n \in DOMAIN name |-> Word(n)]
           s3 == [n \in 1 .. 20 |-> Field(n + 2)]
           Piece == {Field(n) : n \in Int} \union {Word(n) : n \in Int}
<1>1. /\ name \in Seq({"text", "number", "blank"}) /\ name # << >> /\ Len(name) < 12
  BY CommandAssumption
<1>2. Len(name) \in 1 .. 11 /\ DOMAIN name = 1 .. Len(name)
  <2>1. Len(name) \in Nat /\ Len(name) # 0 /\ DOMAIN name = 1 .. Len(name)
    BY <1>1
  <2>2. \A n \in Nat : n # 0 /\ n < 12 => n \in 1 .. 11
    OBVIOUS
  <2> QED
    BY <1>1, <2>1, <2>2
<1> DEFINE L == Len(name)
<1>3. /\ s1 \in Seq(Piece) /\ Len(s1) = 1 /\ s1[1] = Field(1)
  OBVIOUS
<1>4. /\ s2 \in Seq(Piece) /\ Len(s2) = L /\ \A n \in 1 .. L : s2[n] = Word(n)
  BY <1>2
<1>5. /\ s3 \in Seq(Piece) /\ Len(s3) = 20 /\ \A n \in 1 .. 20 : s3[n] = Field(n + 2)
  OBVIOUS
<1>6. Line(name) = s1 \o s2 \o s3
  BY DEF Line
<1> HIDE DEF s1, s2, s3, Piece
<1>7. /\ s1 \o s2 \in Seq(Piece) /\ Len(s1 \o s2) = L + 1
      /\ (s1 \o s2)[1] = Field(1)
      /\ \A c \in 2 .. L + 1 : (s1 \o s2)[c] = Word(c - 1)
  <2> DEFINE t == s1 \o s2
  <2>1. /\ t \in Seq(Piece) /\ Len(t) = L + 1
        /\ \A c \in 1 .. L + 1 : t[c] = IF c <= 1 THEN s1[c] ELSE s2[c - 1]
    <3>1. /\ t \in Seq(Piece) /\ Len(t) = 1 + L
          /\ \A c \in 1 .. 1 + L : t[c] = IF c <= 1 THEN s1[c] ELSE s2[c - 1]
      <4>1. s1 \in Seq(Piece) /\ s2 \in Seq(Piece) /\ Len(s1) = 1 /\ Len(s2) = L
        BY <1>3, <1>4
      <4> HIDE DEF L
      <4>2. /\ s1 \o s2 \in Seq(Piece)
            /\ Len(s1 \o s2) = Len(s1) + Len(s2)
            /\ \A c \in 1 .. Len(s1) + Len(s2) :
                 (s1 \o s2)[c] = IF c <= Len(s1) THEN s1[c] ELSE s2[c - Len(s1)]
        BY <4>1, ConcatProperties, Zenon
      <4> QED
        BY <4>1, <4>2
    <3> QED
      BY <1>2, <3>1
  <2> HIDE DEF t
  <2>2. \A c \in 2 .. L + 1 : c - 1 \in 1 .. L /\ c \in 1 .. L + 1 /\ ~(c <= 1)
    BY <1>2
  <2>3. 1 \in 1 .. L + 1
    BY <1>2
  <2> QED
    BY <1>3, <1>4, <2>1, <2>2, <2>3 DEF t
<1>8. /\ Line(name)[1] = Field(1)
      /\ \A c \in 2 .. L + 1 : Line(name)[c] = Word(c - 1)
      /\ \A c \in L + 2 .. 22 : Line(name)[c] = Field(c - L + 1)
  <2> DEFINE t == s1 \o s2
  <2>1. /\ t \in Seq(Piece) /\ Len(t) = L + 1 /\ Line(name) = t \o s3
    BY <1>6, <1>7
  <2>2. \A c \in 1 .. (L + 1) + 20 :
          Line(name)[c] = IF c <= L + 1 THEN t[c] ELSE s3[c - (L + 1)]
    <3> HIDE DEF t, L
    <3>1. \A c \in 1 .. Len(t) + Len(s3) :
            (t \o s3)[c] = IF c <= Len(t) THEN t[c] ELSE s3[c - Len(t)]
      BY <1>5, <2>1, ConcatProperties
    <3> QED
      BY <1>5, <2>1, <3>1
  <2> HIDE DEF t, L
  <2>3. L \in 1 .. 11
    BY <1>2 DEF L
  <2>4. \A c \in L + 2 .. 22 : /\ c \in 1 .. (L + 1) + 20 /\ ~(c <= L + 1)
                               /\ c - (L + 1) \in 1 .. 20
                               /\ (c - (L + 1)) + 2 = c - L + 1
    BY <2>3
  <2>5. \A c \in 1 .. L + 1 : c \in 1 .. (L + 1) + 20 /\ c <= L + 1
    BY <2>3
  <2>6. 1 \in 1 .. L + 1 /\ \A c \in 2 .. L + 1 : c \in 1 .. L + 1
    BY <2>3
  <2>7. \A c \in 1 .. L + 1 : Line(name)[c] = t[c]
    BY <2>2, <2>5
  <2>8. \A c \in L + 2 .. 22 : Line(name)[c] = Field(c - L + 1)
    <3> SUFFICES ASSUME NEW c \in L + 2 .. 22 PROVE Line(name)[c] = Field(c - L + 1)
      OBVIOUS
    <3>1. Line(name)[c] = s3[c - (L + 1)]
      BY <2>2, <2>4
    <3>2. s3[c - (L + 1)] = Field((c - (L + 1)) + 2)
      BY <1>5, <2>4
    <3> QED
      BY <2>4, <3>1, <3>2
  <2>9. t[1] = Field(1) /\ \A c \in 2 .. L + 1 : t[c] = Word(c - 1)
    BY <1>7 DEF t, L
  <2> QED
    BY <2>6, <2>7, <2>8, <2>9 DEF L
<1> QED
  BY <1>2, <1>8 DEF Column

(* The number and the first word of any name, and every field in its place *)
(* behind a name of one word.                                              *)
LEMMA FieldsAre ==
  ASSUME NEW name \in Names
  PROVE  LET stat == stat_fields(name)
         IN  /\ stat.pid = Field(1)
             /\ stat.cmd = IF name[1] = "blank" THEN None ELSE Word(1)
             /\ Len(name) = 1 =>
                  /\ stat.state = Field(3)
                  /\ stat.ppid = Field(4)
                  /\ stat.utime = Field(14)
                  /\ stat.stime = Field(15)
                  /\ stat.start_time = Field(22)
<1>1. /\ Len(name) \in 1 .. 11
      /\ Column(name, 1) = Field(1)
      /\ \A c \in 2 .. Len(name) + 1 : Column(name, c) = Word(c - 1)
      /\ \A c \in Len(name) + 2 .. 22 : Column(name, c) = Field(c - Len(name) + 1)
  BY LineIs
<1>2. \A n : n # 3 => lu(name, Field(n)) = Field(n)
  BY DEF lu, Field
<1>3. /\ stat_fields(name).pid = lu(name, Column(name, 1))
      /\ stat_fields(name).cmd = IF name[1] = "blank" THEN None ELSE Column(name, 2)
      /\ stat_fields(name).state = Column(name, 3)
      /\ stat_fields(name).ppid = lu(name, Column(name, 4))
      /\ stat_fields(name).utime = lu(name, Column(name, 14))
      /\ stat_fields(name).stime = lu(name, Column(name, 15))
      /\ stat_fields(name).start_time = lu(name, Column(name, 22))
  BY DEF stat_fields
<1>4. Column(name, 2) = Word(1)
  <2>1. Len(name) \in 1 .. 11
    BY <1>1, Zenon
  <2>2. 2 \in 2 .. Len(name) + 1
    <3>1. \A n \in 1 .. 11 : 2 \in 2 .. n + 1
      OBVIOUS
    <3> QED
      BY <2>1, <3>1, Zenon
  <2>3. Column(name, 2) = Word(2 - 1)
    BY <1>1, <2>2, Zenon
  <2> QED
    BY <2>3
<1>5. ASSUME Len(name) = 1, NEW c \in 3 .. 22
      PROVE  Column(name, c) = Field(c)
  <2>1. c \in Len(name) + 2 .. 22 /\ c - Len(name) + 1 = c
    BY <1>5
  <2> QED
    BY <1>1, <2>1
<1>6. Len(name) = 1 =>
        /\ stat_fields(name).state = Field(3)
        /\ stat_fields(name).ppid = Field(4)
        /\ stat_fields(name).utime = Field(14)
        /\ stat_fields(name).stime = Field(15)
        /\ stat_fields(name).start_time = Field(22)
  BY <1>2, <1>3, <1>5
<1> QED
  BY <1>1, <1>2, <1>3, <1>4, <1>6

-----------------------------------------------------------------------------
(* The processes that have had the number.                                 *)

LEMMA Places ==
  /\ Place("fopen_stat") = 1 /\ Place("fgets_stat") = 2 /\ Place("readlink") = 3
  /\ Place("fopen_status") = 4 /\ Place("fgets_status") = 5
  /\ Place("getpwuid") = 6 /\ Place("done") = 7 /\ Never = 8
<1>1. DOMAIN Calls = 1 .. 7 /\ Never = 8
  BY DEF Calls, Never
<1>2. \A n \in 1 .. 7 : Place(Calls[n]) = n
  <2> SUFFICES ASSUME NEW n \in 1 .. 7 PROVE Place(Calls[n]) = n
    OBVIOUS
  <2>1. \A i \in 1 .. 7 : Calls[i] = Calls[n] => i = n
    BY DEF Calls
  <2>2. Place(Calls[n]) \in 1 .. 7 /\ Calls[Place(Calls[n])] = Calls[n]
    BY <1>1 DEF Place
  <2> QED
    BY <2>1, <2>2
<1>3. /\ Calls[1] = "fopen_stat" /\ Calls[2] = "fgets_stat" /\ Calls[3] = "readlink"
      /\ Calls[4] = "fopen_status" /\ Calls[5] = "fgets_status"
      /\ Calls[6] = "getpwuid" /\ Calls[7] = "done"
  BY DEF Calls
<1>4. /\ 1 \in 1 .. 7 /\ 2 \in 1 .. 7 /\ 3 \in 1 .. 7 /\ 4 \in 1 .. 7
      /\ 5 \in 1 .. 7 /\ 6 \in 1 .. 7 /\ 7 \in 1 .. 7
  OBVIOUS
<1> QED
  BY <1>1, <1>2, <1>3, <1>4

Call == {"fopen_stat", "fgets_stat", "readlink", "fopen_status",
         "fgets_status", "getpwuid", "done"}

(* They had it one after another, and the calls before which they started  *)
(* and ended are not yet to come.                                          *)
LivesInv ==
  /\ pc \in Call \union {"crash"}
  /\ lives \in Seq([ name : Names, owner : Owners, memory : BOOLEAN,
                     born : 1 .. 7, ended : 1 .. 8 ])
  /\ Len(lives) > 0
  /\ \A m, n \in DOMAIN lives : m < n => lives[m].ended <= lives[n].born
  /\ pc # "crash" =>
       \A n \in DOMAIN lives :
         /\ lives[n].born <= Place(pc)
         /\ lives[n].ended = Never \/ lives[n].ended <= Place(pc)

(* What the calls so far found of stat: nothing, if no process was there   *)
(* from its being opened to its being read.                                *)
StatInv ==
  /\ pc \in {"fopen_stat", "fgets_stat"} => proc.stat = Unread
  /\ pc = "fgets_stat" => file \in OpenedFor("fopen_stat")
  /\ pc \in Call \ {"fopen_stat", "fgets_stat"} =>
       \/ Stated = {} /\ proc.stat = Unread
       \/ \E n \in Stated : proc.stat = stat_fields(lives[n].name)

(* The user and memory that are read of status, if n had it opened.        *)
StatusOf(n) ==
  IF ~At(n, "fgets_status") THEN << "root", 0 >>
  ELSE << lives[n].owner, IF lives[n].memory THEN n ELSE 0 >>

StatusInv ==
  /\ pc \in Call \ {"getpwuid", "done"} =>
       uid = "root" /\ proc.user = "" /\ proc.mem = 0
  /\ pc = "fgets_status" => file \in OpenedFor("fopen_status")
  /\ pc = "getpwuid" =>
       \E n \in OpenedFor("fopen_status") : << uid, proc.mem >> = StatusOf(n)
  /\ pc = "done" =>
       \/ OpenedFor("fopen_status") = {} /\ proc.user = "" /\ proc.mem = 0
       \/ \E n \in OpenedFor("fopen_status") :
            << proc.user, proc.mem >> = StatusOf(n)

ProcInv ==
  proc = [ stat |-> proc.stat, cmd_path |-> proc.cmd_path,
           user |-> proc.user, mem |-> proc.mem ]

RowInv == LivesInv /\ ProcInv /\ StatInv /\ StatusInv

(* The calls, as opposed to the system's steps.                            *)
ProgramStep ==
  fopen_stat \/ fgets_stat \/ readlink \/ fopen_status \/ fgets_status \/ getpwuid

LEMMA PlacesAre ==
  \A call \in Call : Place(call) \in 1 .. 7
BY Places DEF Call

(* A call leaves the processes alone, and a later one comes next.          *)
LEMMA ProgramMovesOn ==
  ASSUME LivesInv, ProgramStep
  PROVE  /\ lives' = lives /\ full' = full /\ pc \in Call
         /\ pc' \in Call \union {"crash"}
         /\ pc' # "crash" => Place(pc) < Place(pc')
<1> USE Places DEF Call, Then, fopen, Unopened
<1>1. CASE fopen_stat
  BY <1>1 DEF fopen_stat
<1>2. CASE fgets_stat
  BY <1>2 DEF fgets_stat
<1>3. CASE readlink
  BY <1>3 DEF readlink
<1>4. CASE fopen_status
  BY <1>4 DEF fopen_status
<1>5. CASE fgets_status
  BY <1>5 DEF fgets_status
<1>6. CASE getpwuid
  BY <1>6 DEF getpwuid
<1> QED
  BY <1>1, <1>2, <1>3, <1>4, <1>5, <1>6 DEF ProgramStep

LEMMA LivesAre ==
  ASSUME LivesInv
  PROVE  LET Lived == [ name : Names, owner : Owners, memory : BOOLEAN,
                        born : 1 .. 7, ended : 1 .. 8 ]
         IN  /\ lives \in Seq(Lived) /\ Len(lives) \in Nat \ {0}
             /\ DOMAIN lives = 1 .. Len(lives)
             /\ \A n \in DOMAIN lives :
                  /\ lives[n] \in Lived
                  /\ lives[n].born \in 1 .. 7 /\ lives[n].ended \in 1 .. 8
                  /\ lives[n].name \in Names
<1> DEFINE Lived == [ name : Names, owner : Owners, memory : BOOLEAN,
                      born : 1 .. 7, ended : 1 .. 8 ]
<1>1. lives \in Seq(Lived) /\ Len(lives) > 0
  BY DEF LivesInv
<1>2. \A life \in Lived : /\ life.born \in 1 .. 7 /\ life.ended \in 1 .. 8
                          /\ life.name \in Names
  OBVIOUS
<1> HIDE DEF Lived
<1>3. /\ lives \in Seq(Lived) /\ Len(lives) \in Nat \ {0}
      /\ DOMAIN lives = 1 .. Len(lives)
      /\ \A n \in DOMAIN lives : lives[n] \in Lived
  BY <1>1
<1> QED
  BY <1>2, <1>3 DEF Lived

LEMMA InitLives == Init => LivesInv
<1> SUFFICES ASSUME Init PROVE LivesInv
  OBVIOUS
<1>1. PICK p \in Process : lives = << Life(p, 1) >>
  BY DEF Init
<1>2. pc = "fopen_stat"
  BY DEF Init
<1>3. Life(p, 1) \in [ name : Names, owner : Owners, memory : BOOLEAN,
                       born : 1 .. 7, ended : 1 .. 8 ]
  BY <1>1, Places DEF Life, Process
<1>4. Life(p, 1).born = 1 /\ Life(p, 1).ended = Never
  BY DEF Life
<1>5. /\ lives \in Seq([ name : Names, owner : Owners, memory : BOOLEAN,
                         born : 1 .. 7, ended : 1 .. 8 ])
      /\ Len(lives) = 1 /\ DOMAIN lives = {1} /\ lives[1] = Life(p, 1)
  BY <1>1, <1>3
<1> QED
  BY <1>2, <1>4, <1>5, Places DEF LivesInv, Call

LEMMA LivesKept ==
  ASSUME LivesInv, [Next]_vars
  PROVE  LivesInv'
<1> DEFINE Lived == [ name : Names, owner : Owners, memory : BOOLEAN,
                      born : 1 .. 7, ended : 1 .. 8 ]
<1>0. /\ lives \in Seq(Lived) /\ Len(lives) \in Nat \ {0}
      /\ DOMAIN lives = 1 .. Len(lives)
      /\ \A n \in DOMAIN lives : lives[n] \in Lived
  BY LivesAre
<1>1. CASE ProgramStep
  <2>1. /\ lives' = lives /\ pc \in Call /\ pc' \in Call \union {"crash"}
        /\ pc' # "crash" => Place(pc) < Place(pc')
    BY <1>1, ProgramMovesOn
  <2>2. Place(pc) \in Int /\ (pc' # "crash" => Place(pc') \in Int)
    BY <2>1, PlacesAre
  <2>3. pc # "crash"
    BY <2>1 DEF Call
  <2>4. \A n \in DOMAIN lives : lives[n].born \in Int /\ lives[n].ended \in Int
    BY <1>0
  <2>5. pc' # "crash" =>
          \A n \in DOMAIN lives : /\ lives[n].born <= Place(pc')
                                  /\ lives[n].ended = Never \/ lives[n].ended <= Place(pc')
    <3> SUFFICES ASSUME pc' # "crash", NEW n \in DOMAIN lives
                 PROVE  /\ lives[n].born <= Place(pc')
                        /\ lives[n].ended = Never \/ lives[n].ended <= Place(pc')
      OBVIOUS
    <3>1. /\ lives[n].born <= Place(pc)
          /\ lives[n].ended = Never \/ lives[n].ended <= Place(pc)
      BY <2>3 DEF LivesInv
    <3>2. \A i, j, k \in Int : i <= j /\ j < k => i <= k
      OBVIOUS
    <3> QED
      BY <2>1, <2>2, <2>4, <3>1, <3>2
  <2> QED
    BY <2>1, <2>5 DEF LivesInv
<1>2. CASE Ends
  <2>1. /\ pc' = pc /\ pc \in Call /\ pc # "crash"
        /\ lives' = [lives EXCEPT ![Now].ended = Place(pc)]
        /\ Now \in DOMAIN lives /\ lives[Now].ended = Never
    BY <1>2 DEF Ends, Reading, Lives, LivesInv
  <2>2. Place(pc) \in 1 .. 7
    BY <2>1, PlacesAre
  <2>3. /\ DOMAIN lives' = DOMAIN lives /\ Len(lives') = Len(lives)
        /\ lives' \in Seq(Lived)
        /\ \A n \in DOMAIN lives : n # Now => lives'[n] = lives[n]
        /\ lives'[Now].born = lives[Now].born /\ lives'[Now].ended = Place(pc)
    <3> DEFINE life == [lives[Now] EXCEPT !.ended = Place(pc)]
    <3>1. lives' = [lives EXCEPT ![Now] = life]
      BY <2>1
    <3>2. life \in Lived /\ life.born = lives[Now].born /\ life.ended = Place(pc)
      <4> DEFINE now == lives[Now]
      <4>1. now \in Lived /\ Place(pc) \in 1 .. 8
        BY <1>0, <2>1, <2>2
      <4> HIDE DEF now
      <4> QED
        BY <4>1 DEF now
    <3> HIDE DEF life, Lived
    <3> QED
      BY <1>0, <2>1, <3>1, <3>2
  <2>4. \A m, n \in DOMAIN lives : m < n => lives'[m].ended <= lives'[n].born
    <3> SUFFICES ASSUME NEW m \in DOMAIN lives, NEW n \in DOMAIN lives, m < n
                 PROVE  lives'[m].ended <= lives'[n].born
      OBVIOUS
    <3>1. m # Now
      BY <1>0 DEF Now
    <3>2. lives[m].ended <= lives[n].born
      BY DEF LivesInv
    <3> QED
      BY <2>1, <2>3, <3>1, <3>2
  <2>5. \A n \in DOMAIN lives : /\ lives'[n].born <= Place(pc)
                                /\ lives'[n].ended = Never \/ lives'[n].ended <= Place(pc)
    BY <2>1, <2>2, <2>3 DEF LivesInv
  <2> QED
    BY <2>1, <2>3, <2>4, <2>5 DEF LivesInv
<1>3. CASE Starts
  <2>1. PICK p \in Process : lives' = Append(lives, Life(p, Place(pc)))
    BY <1>3 DEF Starts
  <2>2. /\ pc' = pc /\ pc \in Call /\ pc # "crash"
        /\ Len(lives) \in DOMAIN lives /\ lives[Len(lives)].ended # Never
    <3>1. Len(lives) \in DOMAIN lives
      BY <1>0
    <3> QED
      BY <1>3, <3>1 DEF Starts, Reading, Lives, LivesInv, Now
  <2>3. Place(pc) \in 1 .. 7
    BY <2>2, PlacesAre
  <2> DEFINE life == Life(p, Place(pc))
  <2>4. /\ life \in Lived /\ life.born = Place(pc) /\ life.ended = Never
    BY <2>3, Places DEF Life, Process
  <2> HIDE DEF life
  <2>5. /\ lives' \in Seq(Lived) /\ Len(lives') = Len(lives) + 1
        /\ DOMAIN lives' = 1 .. Len(lives) + 1
        /\ \A n \in DOMAIN lives : lives'[n] = lives[n]
        /\ lives'[Len(lives) + 1] = life
    <3> HIDE DEF Lived
    <3>1. lives' = Append(lives, life)
      BY <2>1 DEF life
    <3> QED
      BY <1>0, <2>4, <3>1
  <2>6. \A n \in DOMAIN lives : lives[n].ended \in Int /\ lives[n].born \in Int
    BY <1>0
  <2>7. \A n \in DOMAIN lives : lives[n].ended <= Place(pc)
    <3> SUFFICES ASSUME NEW n \in DOMAIN lives PROVE lives[n].ended <= Place(pc)
      OBVIOUS
    <3>1. CASE n = Len(lives)
      BY <2>2, <3>1 DEF LivesInv
    <3>2. CASE n # Len(lives)
      <4>1. n < Len(lives)
        BY <1>0, <3>2
      <4>2. /\ lives[n].ended <= lives[Len(lives)].born
            /\ lives[Len(lives)].born <= Place(pc)
        BY <2>2, <4>1 DEF LivesInv
      <4> QED
        BY <2>2, <2>3, <2>6, <4>2
    <3> QED
      BY <3>1, <3>2
  <2>8. \A n \in DOMAIN lives' : n \in DOMAIN lives \/ n = Len(lives) + 1
    BY <1>0, <2>5
  <2>9. \A m, n \in DOMAIN lives' : m < n => lives'[m].ended <= lives'[n].born
    <3> SUFFICES ASSUME NEW m \in DOMAIN lives', NEW n \in DOMAIN lives', m < n
                 PROVE  lives'[m].ended <= lives'[n].born
      OBVIOUS
    <3>1. m \in DOMAIN lives
      BY <1>0, <2>5, <2>8
    <3>2. CASE n \in DOMAIN lives
      BY <2>5, <3>1, <3>2 DEF LivesInv
    <3>3. CASE n = Len(lives) + 1
      BY <2>4, <2>5, <2>7, <3>1, <3>3
    <3> QED
      BY <2>8, <3>2, <3>3
  <2>10. \A n \in DOMAIN lives' :
           /\ lives'[n].born <= Place(pc)
           /\ lives'[n].ended = Never \/ lives'[n].ended <= Place(pc)
    <3> SUFFICES ASSUME NEW n \in DOMAIN lives'
                 PROVE  /\ lives'[n].born <= Place(pc)
                        /\ lives'[n].ended = Never \/ lives'[n].ended <= Place(pc)
      OBVIOUS
    <3>1. CASE n \in DOMAIN lives
      BY <2>2, <2>5, <3>1 DEF LivesInv
    <3>2. CASE n = Len(lives) + 1
      BY <2>3, <2>4, <2>5, <3>2
    <3> QED
      BY <2>8, <3>1, <3>2
  <2>11. Len(lives') > 0
    BY <1>0, <2>5
  <2> QED
    BY <2>2, <2>5, <2>9, <2>10, <2>11 DEF LivesInv
<1>4. CASE UNCHANGED vars
  BY <1>4 DEF vars, LivesInv
<1> QED
  BY <1>1, <1>2, <1>3, <1>4 DEF Next, ProgramStep

(* Before a call, a process is there if it is the last and has not ended.  *)
LEMMA AtNow ==
  ASSUME LivesInv, pc \in Call, NEW n \in DOMAIN lives
  PROVE  /\ At(n, pc) <=> Lives(n)
         /\ Lives(n) => n = Now
<1>1. /\ Place(pc) \in 1 .. 7 /\ pc # "crash" /\ Never = 8
  BY PlacesAre, Places DEF Call
<1>2. /\ \A i \in DOMAIN lives : lives[i].born \in 1 .. 7 /\ lives[i].ended \in 1 .. 8
      /\ DOMAIN lives = 1 .. Len(lives) /\ Len(lives) \in Nat
  BY LivesAre
<1>3. /\ lives[n].born <= Place(pc)
      /\ lives[n].ended = Never \/ lives[n].ended <= Place(pc)
  BY <1>1 DEF LivesInv
<1>4. Lives(n) => n = Now
  <2> SUFFICES ASSUME Lives(n), n # Now PROVE FALSE
    OBVIOUS
  <2>1. Now \in DOMAIN lives /\ n < Now
    BY <1>2 DEF Now
  <2>2. lives[n].ended <= lives[Now].born
    BY <2>1 DEF LivesInv
  <2> QED
    BY <1>1, <1>2, <2>1, <2>2 DEF Lives
<1> QED
  BY <1>1, <1>2, <1>3, <1>4 DEF At, Lives

(* No two processes were there before the same call.                       *)
LEMMA OneAt ==
  ASSUME LivesInv, NEW call \in Call, NEW m \in DOMAIN lives, NEW n \in DOMAIN lives,
         At(m, call), At(n, call)
  PROVE  m = n
<1>1. /\ \A i \in DOMAIN lives : lives[i].born \in 1 .. 7 /\ lives[i].ended \in 1 .. 8
      /\ DOMAIN lives \subseteq Nat
  BY LivesAre
<1>2. /\ m < n => lives[m].ended <= lives[n].born
      /\ n < m => lives[n].ended <= lives[m].born
  BY DEF LivesInv
<1>3. Place(call) \in 1 .. 7
  BY PlacesAre
<1> QED
  BY <1>1, <1>2, <1>3 DEF At

(* Who opens a file is the one process there.                              *)
LEMMA OpensNow ==
  ASSUME LivesInv, pc \in Call
  PROVE  OpenedFor(pc) = IF Lives(Now) /\ ~full THEN {Now} ELSE {}
<1>1. \A n \in DOMAIN lives : (At(n, pc) <=> Lives(n)) /\ (Lives(n) => n = Now)
  BY AtNow
<1>2. Lives(Now) => Now \in DOMAIN lives
  BY DEF Lives
<1> QED
  BY <1>1, <1>2 DEF OpenedFor

(* Whoever ends or starts now, it was the same processes that were there   *)
(* before a call already made.                                             *)
LEMMA PastStays ==
  ASSUME LivesInv, Ends \/ Starts, NEW call \in Call, Place(call) < Place(pc)
  PROVE  /\ \A n \in DOMAIN lives :
              /\ n \in DOMAIN lives' /\ (At(n, call)' <=> At(n, call))
              /\ lives'[n].name = lives[n].name /\ lives'[n].owner = lives[n].owner
              /\ lives'[n].memory = lives[n].memory
         /\ OpenedFor(call)' = OpenedFor(call)
<1> DEFINE Lived == [ name : Names, owner : Owners, memory : BOOLEAN,
                      born : 1 .. 7, ended : 1 .. 8 ]
<1>0. /\ lives \in Seq(Lived) /\ Len(lives) \in Nat \ {0}
      /\ DOMAIN lives = 1 .. Len(lives)
      /\ \A n \in DOMAIN lives : lives[n] \in Lived
  BY LivesAre
<1>1. pc \in Call /\ full' = full
  BY DEF Ends, Starts, Reading, LivesInv
<1>2. Place(call) \in 1 .. 7 /\ Place(pc) \in 1 .. 7 /\ Never = 8
  BY <1>1, PlacesAre, Places
<1>3. CASE Ends
  <2>1. /\ lives' = [lives EXCEPT ![Now].ended = Place(pc)]
        /\ Now \in DOMAIN lives /\ lives[Now].ended = Never
    BY <1>3 DEF Ends, Lives
  <2>2. DOMAIN lives' = DOMAIN lives
    BY <2>1
  <2>3. \A n \in DOMAIN lives : n # Now => lives'[n] = lives[n]
    BY <2>1
  <2>4. /\ lives'[Now].name = lives[Now].name /\ lives'[Now].owner = lives[Now].owner
        /\ lives'[Now].memory = lives[Now].memory /\ lives'[Now].born = lives[Now].born
        /\ lives'[Now].ended = Place(pc)
    <3>1. lives'[Now] = [lives[Now] EXCEPT !.ended = Place(pc)]
      BY <2>1
    <3> DEFINE now == lives[Now]
    <3>2. now \in Lived
      BY <1>0, <2>1
    <3> HIDE DEF now
    <3>3. /\ [now EXCEPT !.ended = Place(pc)].name = now.name
          /\ [now EXCEPT !.ended = Place(pc)].owner = now.owner
          /\ [now EXCEPT !.ended = Place(pc)].memory = now.memory
          /\ [now EXCEPT !.ended = Place(pc)].born = now.born
          /\ [now EXCEPT !.ended = Place(pc)].ended = Place(pc)
      BY <3>2
    <3> QED
      BY <3>1, <3>3 DEF now
  <2>5. \A n \in DOMAIN lives : At(n, call)' <=> At(n, call)
    BY <1>2, <2>1, <2>3, <2>4 DEF At
  <2>6. OpenedFor(call)' = OpenedFor(call)
    BY <1>1, <2>2, <2>5 DEF OpenedFor
  <2> QED
    BY <2>2, <2>3, <2>4, <2>5, <2>6
<1>4. CASE Starts
  <2>1. PICK p \in Process : lives' = Append(lives, Life(p, Place(pc)))
    BY <1>4 DEF Starts
  <2> DEFINE life == Life(p, Place(pc))
  <2>2. life \in Lived /\ life.born = Place(pc)
    BY <1>2 DEF Life, Process
  <2>3. /\ DOMAIN lives' = 1 .. Len(lives) + 1
        /\ \A n \in DOMAIN lives : lives'[n] = lives[n]
        /\ lives'[Len(lives) + 1] = life
    <3> HIDE DEF life, Lived
    <3>1. lives' = Append(lives, life)
      BY <2>1 DEF life
    <3> QED
      BY <1>0, <2>2, <3>1
  <2> HIDE DEF life
  <2>4. \A n \in DOMAIN lives : n \in DOMAIN lives' /\ (At(n, call)' <=> At(n, call))
    BY <1>0, <2>3 DEF At
  <2>5. PICK new \in Nat : new = Len(lives) + 1
    BY <1>0
  <2>6. /\ DOMAIN lives' = DOMAIN lives \union {new}
        /\ ~At(new, call)'
    <3>1. DOMAIN lives' = DOMAIN lives \union {new}
      BY <1>0, <2>3, <2>5
    <3>2. lives'[new].born = Place(pc)
      BY <2>2, <2>3, <2>5
    <3> QED
      BY <1>2, <3>1, <3>2 DEF At
  <2>7. OpenedFor(call)' = OpenedFor(call)
    BY <1>1, <2>4, <2>6 DEF OpenedFor
  <2> QED
    BY <2>3, <2>4, <2>7
<1> QED
  BY <1>3, <1>4

-----------------------------------------------------------------------------
(* The row.                                                                *)

LEMMA InitRow == Init => ProcInv /\ StatInv /\ StatusInv
<1> SUFFICES ASSUME Init PROVE ProcInv /\ StatInv /\ StatusInv
  OBVIOUS
<1>1. pc = "fopen_stat" /\ uid = "root" /\ proc = Row
  BY DEF Init
<1>2. ProcInv /\ proc.stat = Unread /\ proc.user = "" /\ proc.mem = 0
  BY <1>1 DEF Row, ProcInv
<1> QED
  BY <1>1, <1>2 DEF StatInv, StatusInv

(* The row's parts are there, and each call writes those it reads.         *)
LEMMA ProcKept ==
  ASSUME ProcInv, [Next]_vars
  PROVE  /\ ProcInv'
         /\ (Ends \/ Starts \/ fopen_stat \/ fopen_status) => proc' = proc
         /\ fgets_stat =>
              /\ proc'.stat = IF Lives(file) THEN stat_fields(lives[file].name) ELSE proc.stat
              /\ proc'.user = proc.user /\ proc'.mem = proc.mem
         /\ readlink =>
              proc'.stat = proc.stat /\ proc'.user = proc.user /\ proc'.mem = proc.mem
         /\ fgets_status =>
              /\ proc'.stat = proc.stat /\ proc'.user = proc.user
              /\ proc'.mem = IF ~Lives(file) THEN proc.mem
                             ELSE IF lives[file].memory THEN file ELSE 0
         /\ getpwuid =>
              /\ proc'.stat = proc.stat /\ proc'.mem = proc.mem
              /\ proc'.user = IF uid \in Accounts THEN uid ELSE proc.user
<1> USE DEF ProcInv
<1>1. (Ends \/ Starts \/ fopen_stat \/ fopen_status) => proc' = proc
  BY DEF Ends, Starts, fopen_stat, fopen_status
<1>2. ASSUME fgets_stat
      PROVE  /\ proc'.stat = IF Lives(file) THEN stat_fields(lives[file].name) ELSE proc.stat
             /\ proc'.user = proc.user /\ proc'.mem = proc.mem
             /\ ProcInv'
  <2> DEFINE fields == stat_fields(lives[file].name)
  <2>1. proc' = IF Lives(file) THEN [proc EXCEPT !.stat = fields] ELSE proc
    BY <1>2 DEF fgets_stat
  <2> HIDE DEF fields
  <2>2. /\ proc'.stat = IF Lives(file) THEN fields ELSE proc.stat
        /\ proc'.user = proc.user /\ proc'.mem = proc.mem
        /\ ProcInv'
    BY <2>1
  <2> QED
    BY <2>2 DEF fields
<1>3. ASSUME readlink
      PROVE  /\ proc'.stat = proc.stat /\ proc'.user = proc.user /\ proc'.mem = proc.mem
             /\ ProcInv'
  BY <1>3 DEF readlink
<1>4. ASSUME fgets_status
      PROVE  /\ proc'.stat = proc.stat /\ proc'.user = proc.user
             /\ proc'.mem = IF ~Lives(file) THEN proc.mem
                            ELSE IF lives[file].memory THEN file ELSE 0
             /\ ProcInv'
  BY <1>4 DEF fgets_status
<1>5. ASSUME getpwuid
      PROVE  /\ proc'.stat = proc.stat /\ proc'.mem = proc.mem
             /\ proc'.user = IF uid \in Accounts THEN uid ELSE proc.user
             /\ ProcInv'
  BY <1>5 DEF getpwuid
<1>6. UNCHANGED vars => ProcInv'
  BY DEF vars
<1>7. (Ends \/ Starts \/ fopen_stat \/ fopen_status) => ProcInv'
  BY <1>1
<1> QED
  BY <1>1, <1>2, <1>3, <1>4, <1>5, <1>6, <1>7 DEF Next

LEMMA StatKept ==
  ASSUME LivesInv, ProcInv, StatInv, [Next]_vars
  PROVE  StatInv'
<1>1. CASE UNCHANGED vars
  BY <1>1 DEF vars, StatInv, Stated, OpenedFor, At
<1>2. CASE Ends \/ Starts
  <2>1. pc' = pc /\ pc \in Call /\ file' = file /\ proc' = proc
    BY <1>2 DEF Ends, Starts, Reading, LivesInv
  <2>2. CASE pc = "fopen_stat"
    BY <2>1, <2>2 DEF StatInv, Call
  <2>3. CASE pc = "fgets_stat"
    <3>1. OpenedFor("fopen_stat")' = OpenedFor("fopen_stat")
      BY <1>2, <2>3, Places, PastStays DEF Call
    <3> QED
      BY <2>1, <2>3, <3>1 DEF StatInv, Call
  <2>4. CASE pc \in Call \ {"fopen_stat", "fgets_stat"}
    <3>1. /\ "fopen_stat" \in Call /\ Place("fopen_stat") < Place(pc)
          /\ "fgets_stat" \in Call /\ Place("fgets_stat") < Place(pc)
      BY <2>4, Places DEF Call
    <3>2. /\ OpenedFor("fopen_stat")' = OpenedFor("fopen_stat")
          /\ \A n \in DOMAIN lives : /\ At(n, "fgets_stat")' <=> At(n, "fgets_stat")
                                     /\ lives'[n].name = lives[n].name
      BY <1>2, <3>1, PastStays
    <3>3. Stated' = Stated /\ Stated \subseteq DOMAIN lives
      BY <3>2 DEF Stated, OpenedFor
    <3> QED
      BY <2>1, <2>4, <3>2, <3>3 DEF StatInv
  <2> QED
    BY <2>1, <2>2, <2>3, <2>4 DEF Call
<1>3. CASE ProgramStep
  <2>0. lives' = lives /\ full' = full
    BY <1>3, ProgramMovesOn
  <2>00. OpenedFor("fopen_stat")' = OpenedFor("fopen_stat") /\ Stated' = Stated
    BY <2>0 DEF OpenedFor, Stated, At
  <2>1. CASE fopen_stat
    <3>1. proc' = proc /\ pc = "fopen_stat" /\ pc \in Call
      BY <2>1 DEF fopen_stat, Call
    <3>2. CASE Lives(Now) /\ ~full
      <4>1. file' = Now /\ pc' = "fgets_stat"
        BY <2>1, <3>2 DEF fopen_stat, fopen, Then
      <4>2. OpenedFor("fopen_stat") = {Now}
        BY <3>1, <3>2, OpensNow
      <4> QED
        BY <2>00, <3>1, <4>1, <4>2 DEF StatInv
    <3>3. CASE ~(Lives(Now) /\ ~full)
      <4>1. pc' = "readlink"
        BY <2>1, <3>3 DEF fopen_stat, fopen, Then
      <4>2. OpenedFor("fopen_stat") = {}
        BY <3>1, <3>3, OpensNow
      <4>3. Stated = {}
        BY <4>2 DEF Stated
      <4> QED
        BY <2>00, <3>1, <4>1, <4>3 DEF StatInv
    <3> QED
      BY <3>2, <3>3
  <2>2. CASE fgets_stat
    <3>1. pc = "fgets_stat" /\ pc \in Call /\ pc' = "readlink"
      BY <2>2 DEF fgets_stat, Call, Then
    <3>2. /\ file \in OpenedFor("fopen_stat") /\ file \in DOMAIN lives
          /\ proc.stat = Unread
      BY <3>1 DEF StatInv, OpenedFor
    <3>3. At(file, "fgets_stat") <=> Lives(file)
      BY <3>1, <3>2, AtNow
    <3>4. proc'.stat = IF Lives(file) THEN stat_fields(lives[file].name) ELSE proc.stat
      BY <2>2, ProcKept
    <3>5. CASE Lives(file)
      <4>1. file \in Stated
        BY <3>2, <3>3, <3>5 DEF Stated
      <4> QED
        BY <2>0, <2>00, <3>1, <3>4, <3>5, <4>1 DEF StatInv
    <3>6. CASE ~Lives(file)
      <4>1. \A n \in OpenedFor("fopen_stat") : n = file
        <5>1. "fopen_stat" \in Call
          BY DEF Call
        <5> QED
          BY <3>2, <5>1, OneAt DEF OpenedFor
      <4>2. Stated = {}
        BY <3>3, <3>6, <4>1 DEF Stated
      <4> QED
        BY <2>00, <3>1, <3>2, <3>4, <3>6, <4>2 DEF StatInv
    <3> QED
      BY <3>5, <3>6
  <2>3. CASE readlink \/ fopen_status \/ fgets_status \/ getpwuid
    <3>1. /\ pc \in Call \ {"fopen_stat", "fgets_stat"}
          /\ pc' \notin {"fopen_stat", "fgets_stat"}
      BY <2>3 DEF readlink, fopen_status, fgets_status, getpwuid, fopen, Unopened, Then, Call
    <3>2. proc'.stat = proc.stat
      BY <2>3, ProcKept
    <3> QED
      BY <2>0, <2>00, <3>1, <3>2 DEF StatInv
  <2> QED
    BY <1>3, <2>1, <2>2, <2>3 DEF ProgramStep
<1> QED
  BY <1>1, <1>2, <1>3 DEF Next, ProgramStep

LEMMA StatusKept ==
  ASSUME LivesInv, ProcInv, StatusInv, [Next]_vars
  PROVE  StatusInv'
<1>1. CASE UNCHANGED vars
  BY <1>1 DEF vars, StatusInv, StatusOf, OpenedFor, At
<1>2. CASE Ends \/ Starts
  <2>1. /\ pc' = pc /\ pc \in Call \ {"done"}
        /\ file' = file /\ uid' = uid /\ proc' = proc
    BY <1>2 DEF Ends, Starts, Reading, LivesInv
  <2>2. CASE pc \notin {"fgets_status", "getpwuid"}
    BY <2>1, <2>2 DEF StatusInv
  <2>3. CASE pc = "fgets_status"
    <3>1. OpenedFor("fopen_status")' = OpenedFor("fopen_status")
      BY <1>2, <2>3, Places, PastStays DEF Call
    <3> QED
      BY <2>1, <2>3, <3>1 DEF StatusInv
  <2>4. CASE pc = "getpwuid"
    <3>1. /\ "fopen_status" \in Call /\ Place("fopen_status") < Place(pc)
          /\ "fgets_status" \in Call /\ Place("fgets_status") < Place(pc)
      BY <2>4, Places DEF Call
    <3>2. /\ OpenedFor("fopen_status")' = OpenedFor("fopen_status")
          /\ \A n \in DOMAIN lives : /\ At(n, "fgets_status")' <=> At(n, "fgets_status")
                                     /\ lives'[n].owner = lives[n].owner
                                     /\ lives'[n].memory = lives[n].memory
      BY <1>2, <3>1, PastStays
    <3>3. \A n \in OpenedFor("fopen_status") : StatusOf(n)' = StatusOf(n)
      BY <3>2 DEF StatusOf, OpenedFor
    <3> QED
      BY <2>1, <2>4, <3>2, <3>3 DEF StatusInv
  <2> QED
    BY <2>2, <2>3, <2>4
<1>3. CASE ProgramStep
  <2>0. lives' = lives /\ full' = full
    BY <1>3, ProgramMovesOn
  <2>00. /\ OpenedFor("fopen_status")' = OpenedFor("fopen_status")
         /\ \A n : StatusOf(n)' = StatusOf(n)
    BY <2>0 DEF OpenedFor, StatusOf, At
  <2>1. CASE fopen_stat \/ fgets_stat \/ readlink
    <3>1. /\ pc \in Call \ {"getpwuid", "done"} /\ uid' = uid
          /\ pc' \notin {"fgets_status", "getpwuid", "done"}
      BY <2>1 DEF fopen_stat, fgets_stat, readlink, fopen, Then, Call
    <3>2. proc'.user = proc.user /\ proc'.mem = proc.mem
      BY <2>1, ProcKept
    <3> QED
      BY <3>1, <3>2 DEF StatusInv
  <2>2. CASE fopen_status
    <3>1. proc' = proc /\ uid' = uid /\ pc = "fopen_status" /\ pc \in Call
      BY <2>2 DEF fopen_status, Call
    <3>2. CASE Lives(Now) /\ ~full
      <4>1. file' = Now /\ pc' = "fgets_status"
        BY <2>2, <3>2 DEF fopen_status, fopen, Then
      <4>2. OpenedFor("fopen_status") = {Now}
        BY <3>1, <3>2, OpensNow
      <4> QED
        BY <2>00, <3>1, <4>1, <4>2 DEF StatusInv
    <3>3. CASE ~(Lives(Now) /\ ~full)
      <4>1. pc' = "done"
        BY <2>2, <3>3 DEF fopen_status, fopen, Then, Unopened
      <4>2. OpenedFor("fopen_status") = {}
        BY <3>1, <3>3, OpensNow
      <4> QED
        BY <2>00, <3>1, <4>1, <4>2 DEF StatusInv
    <3> QED
      BY <3>2, <3>3
  <2>3. CASE fgets_status
    <3>1. pc = "fgets_status" /\ pc \in Call /\ pc' = "getpwuid"
      BY <2>3 DEF fgets_status, Call, Then
    <3>2. /\ file \in OpenedFor("fopen_status") /\ file \in DOMAIN lives
          /\ uid = "root" /\ proc.mem = 0
      BY <3>1 DEF StatusInv, OpenedFor
    <3>3. At(file, "fgets_status") <=> Lives(file)
      BY <3>1, <3>2, AtNow
    <3>4. /\ uid' = IF Lives(file) THEN lives[file].owner ELSE uid
          /\ proc'.mem = IF ~Lives(file) THEN proc.mem
                         ELSE IF lives[file].memory THEN file ELSE 0
      BY <2>3, ProcKept DEF fgets_status
    <3>5. << uid', proc'.mem >> = StatusOf(file)
      BY <3>2, <3>3, <3>4 DEF StatusOf
    <3> QED
      BY <2>00, <3>1, <3>2, <3>5 DEF StatusInv
  <2>4. CASE getpwuid
    <3>1. pc = "getpwuid" /\ pc' = IF uid \in Accounts THEN "done" ELSE "crash"
      BY <2>4 DEF getpwuid, Then
    <3>2. PICK n \in OpenedFor("fopen_status") : << uid, proc.mem >> = StatusOf(n)
      BY <3>1 DEF StatusInv
    <3>3. CASE uid \in Accounts
      <4>1. proc'.mem = proc.mem /\ proc'.user = uid
        BY <2>4, <3>3, ProcKept
      <4> QED
        BY <2>00, <3>1, <3>2, <3>3, <4>1 DEF StatusInv
    <3>4. CASE uid \notin Accounts
      BY <3>1, <3>4 DEF StatusInv, Call
    <3> QED
      BY <3>3, <3>4
  <2> QED
    BY <1>3, <2>1, <2>2, <2>3, <2>4 DEF ProgramStep
<1> QED
  BY <1>1, <1>2, <1>3 DEF Next, ProgramStep

(* However the processes come and go, the row holds what was read of those *)
(* that were there (proc.c:35-130).                                        *)
THEOREM RowInvariant == Spec => []RowInv
<1>1. Init => RowInv
  BY InitLives, InitRow DEF RowInv
<1>2. RowInv /\ [Next]_vars => RowInv'
  BY LivesKept, ProcKept, StatKept, StatusKept DEF RowInv
<1> QED
  BY <1>1, <1>2, PTL DEF Spec

-----------------------------------------------------------------------------
LEMMA UserImplied == RowInv => UserIsOwnersOrRoot
<1> SUFFICES ASSUME RowInv, pc = "done" PROVE UserIsOwnersOrRoot
  BY DEF UserIsOwnersOrRoot
<1> DEFINE ns == OpenedFor("fopen_status")
           n  == CHOOSE n \in ns : TRUE
<1>1. \/ ns = {} /\ proc.user = "" /\ proc.mem = 0
      \/ \E m \in ns : << proc.user, proc.mem >> = StatusOf(m)
  BY DEF RowInv, StatusInv
<1>2. ns # {} => n \in ns
  OBVIOUS
<1>3. \A m \in ns : m = n
  <2>1. "fopen_status" \in Call /\ LivesInv
    BY DEF Call, RowInv
  <2> QED
    BY <1>2, <2>1, OneAt DEF OpenedFor
<1>4. ns # {} => << proc.user, proc.mem >> = StatusOf(n)
  BY <1>1, <1>3
<1> QED
  BY <1>1, <1>4 DEF UserIsOwnersOrRoot, StatusOf

(* A row's user and memory are those of the one process that had the       *)
(* number when status was opened, or root's and none (proc.c:94-122).      *)
THEOREM UserIsOwners == Spec => []UserIsOwnersOrRoot
BY RowInvariant, UserImplied, PTL

LEMMA FieldsImplied == RowInv => StatIsOfOneProcess
<1> SUFFICES ASSUME RowInv, pc = "done" PROVE StatIsOfOneProcess
  BY DEF StatIsOfOneProcess
<1> DEFINE n == CHOOSE n \in Stated : TRUE
<1>1. \/ Stated = {} /\ proc.stat = Unread
      \/ \E m \in Stated : proc.stat = stat_fields(lives[m].name)
  BY DEF RowInv, StatInv, Call
<1>2. Stated # {} => n \in Stated
  OBVIOUS
<1>3. \A m \in Stated : m = n
  <2>1. "fopen_stat" \in Call /\ LivesInv
    BY DEF Call, RowInv
  <2> QED
    BY <1>2, <2>1, OneAt DEF OpenedFor, Stated
<1>4. CASE Stated = {}
  BY <1>1, <1>4 DEF StatIsOfOneProcess
<1>5. CASE Stated # {}
  <2> DEFINE name == lives[n].name
  <2>1. proc.stat = stat_fields(name)
    BY <1>1, <1>3, <1>5
  <2>2. name \in Names
    <3>1. n \in DOMAIN lives
      BY <1>2, <1>5 DEF Stated, OpenedFor
    <3> QED
      BY <3>1, LivesAre DEF RowInv
  <2>3. /\ proc.stat.pid = Field(1)
        /\ proc.stat.cmd = IF name[1] = "blank" THEN None ELSE Word(1)
        /\ Len(name) = 1 =>
             /\ proc.stat.state = Field(3)
             /\ proc.stat.ppid = Field(4)
             /\ proc.stat.utime = Field(14)
             /\ proc.stat.stime = Field(15)
             /\ proc.stat.start_time = Field(22)
    BY <2>1, <2>2, FieldsAre
  <2> QED
    BY <1>5, <2>3 DEF StatIsOfOneProcess
<1> QED
  BY <1>4, <1>5

(* What a row shows of stat is of the one process that was there when it   *)
(* was opened and when it was read, and nothing where there was none: the  *)
(* number and the first word of any name, and of a name of one word every  *)
(* field in its place (proc.c:31-74).                                      *)
THEOREM FieldsOfOne == Spec => []StatIsOfOneProcess
BY RowInvariant, FieldsImplied, PTL
=============================================================================
