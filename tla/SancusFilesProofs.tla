--------------------------- MODULE SancusFilesProofs ---------------------------
(***************************************************************************)
(* The safety properties of SancusFiles, for any descriptors, limits and   *)
(* systems.                                                                *)
(***************************************************************************)
EXTENDS SancusFiles, TLAPS

-----------------------------------------------------------------------------
(* The inductive invariant.                                                *)

HasNumber == call.at \in {"getfl", "setfl", "failed"}

(* sancus_socket() was asked for neither flag.                             *)
PlainSocket == call.fn = "socket" /\ call.flags = Plain

(* Which functions are where, and with what.                               *)
Frames ==
  /\ call.fn \in {"none", "abort"} => call.at = "none"
  /\ call.fn \in {"socket", "open"} => call.at = "birth" \/ HasNumber
  /\ call.fn = "close" => call.at = "close"
  /\ call.fn = "sanitize" => call.at \in {"close", "std"}
  /\ call.at \in {"none", "birth"} => call.fd = NoFd
  /\ call.at = "close" /\ call.fn = "sanitize" => call.fd = NoFd
  /\ call.at = "std" => call.fd \in 0..2
  /\ call.fn = "open" => ~call.flags.nonblock
  /\ HasNumber /\ PlainSocket => call.at = "failed"
  /\ call.at = "failed" => call.refused \/ PlainSocket
  /\ call.refused => call.at = "failed"

(* A number that is about to be handed out or given back.                  *)
Unfinished(f) == f = call.fd /\ (HasNumber \/ call.fn = "close")

(* All others are open exactly if somebody answers for them, and are what  *)
(* was asked for. The properties say less: nothing of the descriptor       *)
(* sancus_sanitize_files() is at, which is not enough when it moves on.    *)
Accounted(f) ==
  /\ held[f] # Nobody => IsOpen(f)
  /\ IsOpen(f) /\ ~system.keeps => held[f] # Nobody
  /\ held[f].who = "caller" =>
       /\ fdt[f].flags.nonblock = held[f].flags.nonblock
       /\ system.birth => fdt[f].flags.cloexec = held[f].flags.cloexec

(* Between its birth and its return a number is nobody's and has the flags *)
(* of its birth.                                                           *)
Newborn ==
  HasNumber => /\ IsOpen(call.fd) /\ held[call.fd] = Nobody
               /\ fdt[call.fd].flags = BirthFlags

(* What sancus_sanitize_files() has swept and has seen.                    *)
Sanitizing ==
  call.at = "std" =>
    /\ \A f \in Fds : f < call.fd => IsOpen(f)
    /\ ~system.keeps => \A f \in Fds : 3 <= f /\ f < limit => ~IsOpen(f)

IInv ==
  /\ TypeOK
  /\ Frames
  /\ \A f \in Fds : ~Unfinished(f) => Accounted(f)
  /\ Newborn
  /\ Sanitizing
  /\ FailsForACause

-----------------------------------------------------------------------------
(* The types once more, by name.                                           *)

FrameSet ==
  [fn : {"none", "socket", "open", "close", "sanitize", "abort"},
   at : {"none", "birth", "getfl", "setfl", "failed", "close", "std"},
   fd : Fds \cup {NoFd}, flags : Flags, wronly : BOOLEAN, refused : BOOLEAN]
FileSet == [open : BOOLEAN, flags : Flags]
HeldSet == [who : {"nobody", "parent", "caller", "null"}, flags : Flags]
ResultSet == [failed : BOOLEAN, refused : BOOLEAN, plain : BOOLEAN]

Types ==
  /\ system \in Systems /\ system \in Kinds
  /\ fdt \in [Fds -> FileSet] /\ limit \in Limits
  /\ call \in FrameSet
  /\ HasNumber \/ call.fn = "close" => call.fd \in Fds
  /\ held \in [Fds -> HeldSet]
  /\ last \in ResultSet

LEMMA TypesAre == (TypeOK <=> Types) /\ (TypeOK' <=> Types')
  BY SystemsAssumption
  DEF TypeOK, Types, FrameSet, FileSet, HeldSet, ResultSet, HasNumber

(* The records the actions make.                                           *)
LEMMA Made ==
  /\ Plain \in Flags /\ \A c, n \in BOOLEAN : Asked(c, n) \in Flags
  /\ Free \in FileSet /\ \A g \in Flags : File(g) \in FileSet
  /\ Nobody \in HeldSet /\ Nobody.who = "nobody"
  /\ \A g \in Flags : Held("caller", g) \in HeldSet /\ Held("null", g) \in HeldSet
                      /\ Held("parent", g) \in HeldSet
  /\ NoResult \in ResultSet
  /\ ~NoResult.failed /\ ~NoResult.refused /\ ~NoResult.plain
  /\ NoCall \in FrameSet
  /\ NoCall.fn = "none" /\ NoCall.at = "none" /\ NoCall.fd = NoFd
  /\ ~NoCall.refused
  BY DEF Plain, Flags, Asked, Free, FileSet, File, Nobody, Held, HeldSet, NoResult,
         ResultSet, NoCall, Frame, FrameSet

LEMMA PlainIsNeither ==
  ASSUME NEW g \in Flags
  PROVE  g = Plain <=> ~(g.cloexec \/ g.nonblock)
<1>1. g.cloexec \in BOOLEAN /\ g.nonblock \in BOOLEAN
  BY DEF Flags
<1>2. ASSUME ~(g.cloexec \/ g.nonblock) PROVE g = Plain
  <2>1. g.cloexec = FALSE /\ g.nonblock = FALSE
    BY <1>1, <1>2
  <2> QED
    BY <2>1 DEF Flags, Plain
<1>3. ASSUME g = Plain PROVE ~(g.cloexec \/ g.nonblock)
  BY <1>3 DEF Plain
<1> QED
  BY <1>2, <1>3

(* A new process: everything open is its parent's.                         *)
LEMMA StartsAccounted ==
  ASSUME NEW t, NEW h, NEW l, Starts(t, h, l)
  PROVE  /\ t \in [Fds -> FileSet] /\ h \in [Fds -> HeldSet] /\ l \in Limits
         /\ \A f \in Fds : /\ h[f] # Nobody <=> t[f].open
                           /\ h[f].who # "caller"
<1>1. PICK I \in SUBSET Fds :
        /\ t = [f \in Fds |-> IF f \in I THEN File(Plain) ELSE Free]
        /\ h = [f \in Fds |-> IF f \in I THEN Held("parent", Plain) ELSE Nobody]
        /\ l \in Limits
  BY DEF Starts
<1>2. /\ File(Plain).open /\ ~Free.open
      /\ Held("parent", Plain) # Nobody
      /\ Held("parent", Plain).who # "caller" /\ Nobody.who # "caller"
  BY DEF File, Free, Held, Nobody
<1> QED
  BY <1>1, <1>2, Made

LEMMA InitInv == Init => IInv
<1> SUFFICES ASSUME Init PROVE IInv
  OBVIOUS
<1>1. /\ fdt \in [Fds -> FileSet] /\ held \in [Fds -> HeldSet] /\ limit \in Limits
      /\ \A f \in Fds : held[f] # Nobody <=> fdt[f].open
      /\ \A f \in Fds : held[f].who # "caller"
  BY StartsAccounted DEF Init
<1>2. /\ call = NoCall /\ call.fn = "none" /\ call.at = "none" /\ call.fd = NoFd
      /\ ~call.refused
  BY Made DEF Init
<1>3. TypeOK
  <2>1. Types
    BY <1>1, <1>2, Made, SystemsAssumption DEF Init, Types, HasNumber
  <2> QED
    BY <2>1, TypesAre
<1>4. \A f \in Fds : Accounted(f)
  BY <1>1 DEF Accounted, IsOpen
<1>5. FailsForACause
  BY Made DEF Init, FailsForACause
<1> QED
  BY <1>2, <1>3, <1>4, <1>5 DEF IInv, Frames, Newborn, Sanitizing, HasNumber

-----------------------------------------------------------------------------
(* Calls begin: nothing is open that was not.                              *)

LEMMA CallsInv ==
  ASSUME IInv, Calls
  PROVE  IInv'
<1> DEFINE Began ==
  /\ UNCHANGED <<system, fdt, limit, held>> /\ last' = NoResult
  /\ call = NoCall
  /\ call' \in FrameSet /\ ~call'.refused
  /\ \/ /\ call'.fn = "socket" /\ call'.at = "birth" /\ call'.fd = NoFd
     \/ /\ call'.fn = "open" /\ call'.at = "birth" /\ call'.fd = NoFd
        /\ ~call'.flags.nonblock
     \/ call'.fn = "close" /\ call'.at = "close" /\ call'.fd \in Fds
     \/ call'.fn = "sanitize" /\ call'.at = "close" /\ call'.fd = NoFd
<1>1. Began
  <2>1. ASSUME NEW c \in BOOLEAN, NEW n \in BOOLEAN, CallSocket(c, n) PROVE Began
    BY <2>1, Made DEF CallSocket, Frame, FrameSet, Asked, surroundings
  <2>2. ASSUME NEW c \in BOOLEAN, NEW n \in BOOLEAN, CallOpen(c, n) PROVE Began
    BY <2>2, Made DEF CallOpen, Frame, FrameSet, Asked, surroundings
  <2>3. ASSUME NEW f \in Fds, CallClose(f) PROVE Began
    BY <2>3, Made DEF CallClose, Frame, FrameSet, surroundings
  <2>4. ASSUME CallSanitize PROVE Began
    BY <2>4, Made DEF CallSanitize, Frame, FrameSet, surroundings
  <2> QED
    BY <2>1, <2>2, <2>3, <2>4 DEF Calls
<1>2. ~HasNumber /\ call.fn = "none" /\ ~HasNumber'
  BY <1>1, Made DEF HasNumber
<1>3. Types'
  BY <1>1, <1>2, TypesAre, Made DEF IInv, Types
<1>4. Frames' /\ Newborn' /\ Sanitizing'
  BY <1>1, <1>2 DEF Frames, Newborn, Sanitizing, HasNumber, PlainSocket
<1>5. \A f \in Fds : Accounted(f)'
  BY <1>1, <1>2 DEF IInv, Unfinished, Accounted, IsOpen
<1>6. FailsForACause'
  BY <1>1, Made DEF FailsForACause
<1> QED
  BY <1>3, <1>4, <1>5, <1>6, TypesAre DEF IInv


-----------------------------------------------------------------------------
(* sancus_socket(), sancus_open()                                          *)

(* A number is handed out as it was asked for, or NoFd for a cause.        *)
LEMMA ReturnInv ==
  ASSUME IInv, NEW f \in Fds \cup {NoFd}, ReturnFd(f),
         call.fn \in {"socket", "open"},
         UNCHANGED <<system, limit>>,
         fdt' \in [Fds -> FileSet],
         \A g \in Fds : g # f /\ g # call.fd => fdt'[g] = fdt[g],
         f \in Fds => /\ call.fd \in {f, NoFd}
                      /\ fdt'[f].open
                      /\ fdt'[f].flags.nonblock = call.flags.nonblock
                      /\ system.birth => fdt'[f].flags.cloexec = call.flags.cloexec
                      /\ ~call.refused /\ ~PlainSocket,
         f = NoFd => /\ HasNumber
                     /\ fdt'[call.fd].open => system.keeps
                     /\ call.refused \/ PlainSocket
  PROVE  IInv'
<1>1. /\ call' = NoCall /\ last' = Result(f = NoFd, call.refused)
      /\ held' = IF f \in Fds THEN [held EXCEPT ![f] = Held("caller", call.flags)]
                 ELSE held
  BY DEF ReturnFd
<1>2. Types /\ call.flags \in Flags
  BY TypesAre DEF IInv, Types, FrameSet
<1>3. held' \in [Fds -> HeldSet] /\ last' \in ResultSet
  BY <1>1, <1>2, Made DEF Types, Result, ResultSet, FrameSet
<1>4. /\ call'.fn = "none" /\ call'.at = "none" /\ call'.fd = NoFd /\ call' \in FrameSet
      /\ ~call'.refused
  BY <1>1, Made
<1>5. Types'
  BY <1>2, <1>3, <1>4 DEF Types, HasNumber
<1>6. Frames' /\ Newborn' /\ Sanitizing'
  BY <1>4 DEF Frames, Newborn, Sanitizing, HasNumber
<1>7. ASSUME NEW g \in Fds
      PROVE  Accounted(g)'
  <2>1. CASE g = f
    <3>1. held'[g] = Held("caller", call.flags)
      BY <1>1, <1>2, <2>1 DEF Types
    <3>2. held'[g] # Nobody /\ held'[g].flags = call.flags
      BY <3>1 DEF Held, Nobody
    <3> QED
      BY <2>1, <3>2 DEF Accounted, IsOpen
  <2>2. CASE g # f /\ g = call.fd
    <3>1. f = NoFd /\ HasNumber /\ held'[g] = held[g]
      BY <1>1, <2>2, NumbersAssumption
    <3>2. held'[g] = Nobody
      BY <2>2, <3>1 DEF IInv, Newborn
    <3> QED
      BY <2>2, <3>1, <3>2, Made DEF Accounted, IsOpen
  <2>3. CASE g # f /\ g # call.fd
    <3>1. held'[g] = held[g] /\ fdt'[g] = fdt[g]
      BY <1>1, <1>2, <2>3 DEF Types
    <3>2. Accounted(g)
      BY <2>3 DEF IInv, Unfinished
    <3> QED
      BY <3>1, <3>2 DEF Accounted, IsOpen
  <2> QED
    BY <2>1, <2>2, <2>3
<1>8. FailsForACause'
  <2>1. /\ last'.failed <=> f = NoFd
        /\ last'.refused = call.refused
        /\ last'.plain <=> PlainSocket
    BY <1>1 DEF Result, PlainSocket
  <2> QED
    BY <2>1, NumbersAssumption DEF FailsForACause
<1> QED
  BY <1>5, <1>6, <1>7, <1>8, TypesAre DEF IInv

LEMMA BirthInv ==
  ASSUME IInv, Birth
  PROVE  IInv'
<1>1. /\ call.fn \in {"socket", "open"} /\ call.at = "birth" /\ call.fd = NoFd
      /\ ~call.refused /\ UNCHANGED <<system, limit>>
  BY DEF Birth, surroundings, IInv, Frames
<1>2. Types /\ call.flags \in Flags /\ system \in Kinds /\ BirthFlags \in Flags
  BY TypesAre, Made DEF IInv, Types, FrameSet, BirthFlags
<1>3. CASE call' = NoCall /\ last' = Result(TRUE, TRUE) /\ UNCHANGED <<fdt, held>>
  <2>1. /\ call'.fn = "none" /\ call'.at = "none" /\ call'.fd = NoFd
        /\ ~call'.refused
    BY <1>3, Made
  <2>2. Types'
    BY <1>1, <1>2, <1>3, <2>1, Made DEF Types, HasNumber, Result, ResultSet
  <2>3. Frames' /\ Newborn' /\ Sanitizing'
    BY <2>1 DEF Frames, Newborn, Sanitizing, HasNumber
  <2>4. \A f \in Fds : Accounted(f)'
    BY <1>1, <1>3 DEF IInv, Unfinished, Accounted, IsOpen, HasNumber
  <2>5. FailsForACause'
    BY <1>3 DEF FailsForACause, Result
  <2> QED
    BY <2>2, <2>3, <2>4, <2>5, TypesAre DEF IInv
<1>4. ASSUME NEW f \in Fds, Born(f),
             fdt' = [fdt EXCEPT ![f] = File(BirthFlags)],
             IF AfterBirth = "return" THEN ReturnFd(f)
             ELSE /\ call' = [call EXCEPT !.fd = f, !.at = AfterBirth]
                  /\ UNCHANGED <<held, last>>
      PROVE  IInv'
  <2>1. /\ fdt' \in [Fds -> FileSet] /\ fdt'[f] = File(BirthFlags)
        /\ \A g \in Fds : g # f => fdt'[g] = fdt[g]
    BY <1>2, <1>4, Made DEF Types
  <2>2. fdt'[f].open /\ fdt'[f].flags = BirthFlags
    BY <2>1 DEF File
  <2>3. CASE AfterBirth = "return"
    <3>1. /\ ~call.flags.cloexec /\ ~call.flags.nonblock
          /\ ~PlainSocket /\ ~call.refused
      BY <1>1, <2>3 DEF AfterBirth, PlainSocket
    <3>2. /\ fdt'[f].flags.nonblock = call.flags.nonblock
          /\ system.birth => fdt'[f].flags.cloexec = call.flags.cloexec
      BY <1>2, <2>2, <3>1 DEF BirthFlags, Plain, Flags
    <3>3. ReturnFd(f)
      BY <1>4, <2>3
    <3> QED
      BY <1>1, <2>1, <2>2, <3>1, <3>2, <3>3, NumbersAssumption, ReturnInv
  <2>4. CASE AfterBirth # "return"
    <3>1. /\ AfterBirth \in {"getfl", "failed"}
          /\ AfterBirth = "failed" <=> PlainSocket
      <4>1. call.flags = Plain <=> ~(call.flags.cloexec \/ call.flags.nonblock)
        BY <1>2, PlainIsNeither
      <4> QED
        BY <1>1, <2>4, <4>1 DEF AfterBirth, PlainSocket
    <3>2. /\ call' \in FrameSet /\ call'.fd = f /\ call'.at = AfterBirth
          /\ call'.fn = call.fn /\ call'.flags = call.flags
          /\ ~call'.refused /\ UNCHANGED <<held, last>>
      BY <1>1, <1>2, <1>4, <2>4, <3>1 DEF Types, FrameSet
    <3>3. Types'
      BY <1>1, <1>2, <2>1, <3>2 DEF Types
    <3>4. Frames' /\ Sanitizing' /\ HasNumber'
      BY <1>1, <3>1, <3>2 DEF IInv, Frames, Sanitizing, HasNumber, PlainSocket
    <3>5. \A g \in Fds : Accounted(g)
      BY <1>1 DEF IInv, Unfinished, HasNumber
    <3>6. Newborn'
      <4>1. held[f] = Nobody
        BY <1>4, <3>5 DEF Born, Accounted
      <4>2. BirthFlags' = BirthFlags
        BY <1>1, <3>2 DEF BirthFlags
      <4> QED
        BY <2>2, <3>2, <4>1, <4>2 DEF Newborn, IsOpen
    <3>7. \A g \in Fds : g # f => Accounted(g)'
      BY <1>1, <2>1, <3>2, <3>5 DEF Accounted, IsOpen
    <3>8. \A g \in Fds : ~Unfinished(g)' => Accounted(g)'
      BY <3>2, <3>4, <3>7 DEF Unfinished
    <3>9. FailsForACause'
      BY <3>2 DEF IInv, FailsForACause
    <3> QED
      BY <3>3, <3>4, <3>6, <3>8, <3>9, TypesAre DEF IInv
  <2> QED
    BY <2>3, <2>4
<1> QED
  BY <1>3, <1>4 DEF Birth

(* On to fcntl(F_SETFL), or to where the errors go.                        *)
LEMMA GoInv ==
  ASSUME IInv, call.at \in {"getfl", "setfl"}, UNCHANGED <<system, fdt, limit>>,
         Go("setfl") \/ Fails("failed")
  PROVE  IInv'
<1>1. Types
  BY TypesAre DEF IInv
<1>2. /\ call' \in FrameSet /\ call'.fd = call.fd /\ call'.fn = call.fn
      /\ call'.flags = call.flags /\ call'.at \in {"setfl", "failed"}
      /\ call'.at = "failed" <=> call'.refused
      /\ HasNumber /\ ~PlainSocket
      /\ UNCHANGED <<held, last>>
  BY <1>1 DEF Go, Fails, IInv, Types, FrameSet, Frames, HasNumber
<1>3. HasNumber' /\ BirthFlags' = BirthFlags
  BY <1>2 DEF HasNumber, BirthFlags
<1>4. Types'
  BY <1>1, <1>2 DEF Types
<1>5. Frames' /\ Sanitizing' /\ Newborn'
  BY <1>2, <1>3
  DEF IInv, Frames, Sanitizing, Newborn, HasNumber, IsOpen, PlainSocket
<1>6. \A f \in Fds : ~Unfinished(f)' => Accounted(f)'
  BY <1>2, <1>3 DEF IInv, Unfinished, Accounted, IsOpen
<1>7. FailsForACause'
  BY <1>2 DEF IInv, FailsForACause
<1> QED
  BY <1>4, <1>5, <1>6, <1>7, TypesAre DEF IInv

LEMMA GetFlagsInv ==
  ASSUME IInv, GetFlags
  PROVE  IInv'
<1>1. /\ call.at = "getfl" /\ HasNumber /\ UNCHANGED <<system, fdt, limit>>
      /\ ~call.refused /\ ~PlainSocket
  BY DEF GetFlags, HasNumber, surroundings, IInv, Frames
<1>2. Types /\ call.fd \in Fds /\ call.fn \in {"socket", "open"}
  BY <1>1, TypesAre DEF IInv, Types, Frames, FrameSet, HasNumber
<1>3. CASE ~SetsFlags /\ ReturnFd(call.fd)
  <2>1. /\ fdt[call.fd].open /\ fdt[call.fd].flags = BirthFlags
        /\ call.flags \in Flags
    BY <1>1, <1>2 DEF IInv, Newborn, IsOpen, Types, FrameSet
  <2>2. /\ fdt[call.fd].flags.nonblock = call.flags.nonblock
        /\ system.birth => fdt[call.fd].flags.cloexec = call.flags.cloexec
    BY <1>2, <1>3, <2>1 DEF SetsFlags, BirthFlags, Plain, Flags, IInv, Frames
  <2> QED
    BY <1>1, <1>2, <1>3, <2>1, <2>2, NumbersAssumption, ReturnInv DEF Types
<1>4. CASE Go("setfl") \/ Fails("failed")
  BY <1>1, <1>4, GoInv
<1> QED
  BY <1>3, <1>4 DEF GetFlags

LEMMA SetFlagsInv ==
  ASSUME IInv, SetFlags
  PROVE  IInv'
<1>1. /\ call.at = "setfl" /\ HasNumber /\ UNCHANGED <<system, limit>>
      /\ ~call.refused /\ ~PlainSocket
  BY DEF SetFlags, HasNumber, surroundings, IInv, Frames
<1>2. Types /\ call.fd \in Fds /\ call.fn \in {"socket", "open"}
  BY <1>1, TypesAre DEF IInv, Types, Frames, FrameSet, HasNumber
<1>3. CASE /\ ReturnFd(call.fd)
           /\ fdt' = [fdt EXCEPT ![call.fd].flags.nonblock = @ \/ call.flags.nonblock]
  <2>1. /\ fdt[call.fd].open /\ fdt[call.fd].flags = BirthFlags
        /\ fdt[call.fd] \in FileSet /\ call.flags \in Flags
    BY <1>1, <1>2 DEF IInv, Newborn, IsOpen, Types, FrameSet
  <2>2. /\ fdt' \in [Fds -> FileSet]
        /\ \A g \in Fds : g # call.fd => fdt'[g] = fdt[g]
    BY <1>2, <1>3, <2>1 DEF Types, FileSet, Flags
  <2>3. /\ fdt'[call.fd].open = fdt[call.fd].open
        /\ fdt'[call.fd].flags.cloexec = fdt[call.fd].flags.cloexec
        /\ fdt'[call.fd].flags.nonblock =
             (fdt[call.fd].flags.nonblock \/ call.flags.nonblock)
    BY <1>2, <1>3, <2>1 DEF Types, FileSet, Flags
  <2>4. /\ fdt'[call.fd].flags.nonblock = call.flags.nonblock
        /\ system.birth => fdt'[call.fd].flags.cloexec = call.flags.cloexec
    <3>1. /\ fdt[call.fd].flags.nonblock = FALSE
             \/ fdt[call.fd].flags.nonblock = call.flags.nonblock
          /\ system.birth => fdt[call.fd].flags.cloexec = call.flags.cloexec
      <4>1. CASE system.birth
        <5>1. fdt[call.fd].flags = call.flags
          BY <2>1, <4>1 DEF BirthFlags
        <5> QED
          BY <5>1
      <4>2. CASE ~system.birth
        <5>1. fdt[call.fd].flags = Plain
          BY <2>1, <4>2 DEF BirthFlags
        <5>2. fdt[call.fd].flags.nonblock = FALSE
          BY <5>1 DEF Plain
        <5> QED
          BY <4>2, <5>2
      <4> QED
        BY <4>1, <4>2
    <3>2. call.flags.nonblock \in BOOLEAN
      BY <2>1 DEF Flags
    <3>3. fdt'[call.fd].flags.nonblock = call.flags.nonblock
      BY <2>3, <3>1, <3>2
    <3> QED
      BY <2>3, <3>1, <3>3
  <2> QED
    BY <1>1, <1>2, <1>3, <2>1, <2>2, <2>3, <2>4, NumbersAssumption, ReturnInv
<1>4. CASE Fails("failed") /\ UNCHANGED fdt
  BY <1>1, <1>4, GoInv
<1> QED
  BY <1>3, <1>4 DEF SetFlags

(* What failed after its birth is closed: it is not leaked.                *)
LEMMA GiveUpInv ==
  ASSUME IInv, GiveUp
  PROVE  IInv'
<1>1. /\ call.at = "failed" /\ HasNumber /\ UNCHANGED <<system, limit>>
      /\ ReturnFd(NoFd)
      /\ fdt' = [fdt EXCEPT ![call.fd] = Free] \/ (system.keeps /\ UNCHANGED fdt)
  BY DEF GiveUp, HasNumber, surroundings
<1>2. Types /\ call.fd \in Fds /\ call.fn \in {"socket", "open"}
  BY <1>1, TypesAre DEF IInv, Types, Frames, FrameSet, HasNumber
<1>3. call.refused \/ PlainSocket
  BY <1>1 DEF IInv, Frames
<1>4. /\ fdt' \in [Fds -> FileSet]
      /\ \A g \in Fds : g # call.fd => fdt'[g] = fdt[g]
      /\ fdt'[call.fd].open => system.keeps
  BY <1>1, <1>2, Made DEF Types, Free
<1> QED
  BY <1>1, <1>2, <1>3, <1>4, NumbersAssumption, ReturnInv

-----------------------------------------------------------------------------
(* sancus_close()                                                          *)

LEMMA CloseInv ==
  ASSUME IInv, Close
  PROVE  IInv'
<1>1. /\ call.fn = "close" /\ ~HasNumber
      /\ fdt' = [fdt EXCEPT ![call.fd] = Free]
      /\ held' = [held EXCEPT ![call.fd] = Nobody]
      /\ call' = NoCall /\ UNCHANGED <<system, limit, last>>
  BY DEF Close, CloseReturns, At, surroundings, HasNumber
<1>2. Types /\ call.fd \in Fds
  BY <1>1, TypesAre DEF IInv, Types
<1>3. /\ call'.fn = "none" /\ call'.at = "none" /\ call'.fd = NoFd /\ call' \in FrameSet
      /\ ~call'.refused
  BY <1>1, Made
<1>4. Types'
  BY <1>1, <1>2, <1>3, Made DEF Types, HasNumber
<1>5. Frames' /\ Newborn' /\ Sanitizing'
  BY <1>3 DEF Frames, Newborn, Sanitizing, HasNumber
<1>6. ASSUME NEW f \in Fds
      PROVE  Accounted(f)'
  <2>1. CASE f = call.fd
    BY <1>1, <1>2, <2>1, Made DEF Types, Accounted, IsOpen, Free
  <2>2. CASE f # call.fd
    BY <1>1, <1>2, <2>2 DEF IInv, Types, Unfinished, Accounted, IsOpen
  <2> QED
    BY <2>1, <2>2
<1>7. FailsForACause'
  BY <1>1 DEF IInv, FailsForACause
<1> QED
  BY <1>4, <1>5, <1>6, <1>7, TypesAre DEF IInv

(* An interruption may have released the number, or not.                   *)
LEMMA InterruptedInv ==
  ASSUME IInv, Interrupted
  PROVE  IInv'
<1>1. Types /\ UNCHANGED <<system, limit, call, held, last>>
  BY TypesAre DEF IInv, Interrupted, surroundings
<1>2. /\ fdt' \in [Fds -> FileSet]
      /\ \A f \in Fds : ~Unfinished(f) => fdt'[f] = fdt[f]
      /\ \/ call.fn = "open" /\ call.at = "birth" /\ UNCHANGED fdt
         \/ call.fn = "close" /\ call.at = "close"
  BY <1>1, Made DEF Interrupted, At, Types, Unfinished
<1>3. ~HasNumber /\ call.at # "std"
  BY <1>2 DEF HasNumber
<1>4. Types'
  BY <1>1, <1>2 DEF Types, HasNumber
<1>5. Frames' /\ Newborn' /\ Sanitizing'
  BY <1>1, <1>3 DEF IInv, Frames, Newborn, Sanitizing, HasNumber
<1>6. \A f \in Fds : ~Unfinished(f)' => Accounted(f)'
  BY <1>1, <1>2 DEF IInv, Unfinished, Accounted, IsOpen, HasNumber
<1>7. FailsForACause'
  BY <1>1 DEF IInv, FailsForACause
<1> QED
  BY <1>4, <1>5, <1>6, <1>7, TypesAre DEF IInv

-----------------------------------------------------------------------------
(* sancus_sanitize_files()                                                 *)

LEMMA SweepInv ==
  ASSUME IInv, Sweep
  PROVE  IInv'
<1>1. /\ call.fn = "sanitize" /\ call.at = "close"
      /\ call' = [call EXCEPT !.at = "std", !.fd = 0]
      /\ held' = [f \in Fds |-> IF f \in Swept THEN Nobody ELSE held[f]]
      /\ UNCHANGED <<system, limit, last>>
  BY DEF Sweep, At, surroundings
<1>2. PICK K \in SUBSET Swept :
        /\ K # {} => system.keeps
        /\ fdt' = [f \in Fds |-> IF f \in Swept \ K THEN Free ELSE fdt[f]]
  BY DEF Sweep
<1>3. Types
  BY TypesAre DEF IInv
<1>4. /\ call' \in FrameSet /\ call'.at = "std" /\ call'.fd = 0
      /\ call'.fn = "sanitize" /\ 0 \in Fds /\ ~call'.refused
  <2>1. 0 \in Fds
    BY NumbersAssumption
  <2> QED
    BY <1>1, <1>3, <2>1 DEF Types, FrameSet, IInv, Frames
<1>5. Types'
  <2>1. held' \in [Fds -> HeldSet] /\ fdt' \in [Fds -> FileSet]
    BY <1>1, <1>2, <1>3, Made DEF Types
  <2> QED
    BY <1>1, <1>3, <1>4, <2>1 DEF Types, HasNumber
<1>6. Frames' /\ Newborn'
  BY <1>4 DEF Frames, Newborn, HasNumber
<1>7. \A f \in Fds : Accounted(f)
  BY <1>1 DEF IInv, Unfinished, HasNumber
<1>8. ASSUME NEW f \in Fds
      PROVE  Accounted(f)'
  <2>1. CASE f \in Swept
    <3>1. held'[f] = Nobody /\ (IsOpen(f)' => system.keeps)
      BY <1>1, <1>2, <2>1 DEF IsOpen, Free
    <3> QED
      BY <1>1, <3>1, Made DEF Accounted
  <2>2. CASE f \notin Swept
    BY <1>1, <1>2, <1>7, <2>2 DEF Accounted, IsOpen
  <2> QED
    BY <2>1, <2>2
<1>9. Sanitizing'
  <2>1. \A f \in Fds : ~(f < 0)
    BY NumbersAssumption
  <2>2. ~system.keeps => \A f \in Swept : ~IsOpen(f)'
    BY <1>2 DEF Swept, IsOpen, Free
  <2> QED
    BY <1>1, <1>4, <2>1, <2>2 DEF Sanitizing, Swept
<1>10. FailsForACause'
  BY <1>1 DEF IInv, FailsForACause
<1> QED
  BY <1>5, <1>6, <1>8, <1>9, <1>10, TypesAre DEF IInv

LEMMA AbortFrame ==
  ASSUME Abort
  PROVE  /\ call' \in FrameSet /\ call'.fn = "abort" /\ call'.at = "none"
         /\ call'.fd = NoFd /\ ~call'.refused
  BY Made DEF Abort, FrameSet

(* One stream is open, was opened, or the process aborts.                  *)
LEMMA StandardInv ==
  ASSUME IInv, Standard
  PROVE  IInv'
<1>1. /\ call.fn = "sanitize" /\ call.at = "std" /\ ~HasNumber
      /\ call.fd \in 0..2 /\ call.fd \in Fds
      /\ UNCHANGED <<system, limit, last>>
  BY NumbersAssumption DEF Standard, At, surroundings, HasNumber, IInv, Frames
<1>2. Types
  BY TypesAre DEF IInv
<1> DEFINE Opens(F) ==
  /\ \A f \in F : ~IsOpen(f)
  /\ fdt' \in [Fds -> FileSet] /\ held' \in [Fds -> HeldSet]
  /\ \A f \in F : fdt'[f].open /\ held'[f].who = "null"
  /\ \A f \in Fds \ F : fdt'[f] = fdt[f] /\ held'[f] = held[f]
  /\ \/ NextStd /\ F \subseteq {call.fd} /\ (call.fd \in F \/ IsOpen(call.fd))
     \/ Abort
<1>3. PICK F \in SUBSET Fds : Opens(F)
  <2>1. CASE ((IsOpen(call.fd) /\ NextStd) \/ Abort) /\ UNCHANGED <<fdt, held>>
    <3>1. Opens({})
      BY <1>2, <2>1 DEF Types
    <3> HIDE DEF Opens
    <3> QED
      BY <3>1
  <2>2. ASSUME NEW f \in Fds, Born(f),
               fdt' = [fdt EXCEPT ![f] = File(Plain)],
               held' = [held EXCEPT ![f] = Held("null", Plain)],
               IF f = call.fd THEN NextStd ELSE Abort
        PROVE  Opens({f})
    <3>1. /\ fdt' \in [Fds -> FileSet] /\ held' \in [Fds -> HeldSet]
          /\ fdt'[f] = File(Plain) /\ held'[f] = Held("null", Plain)
          /\ \A g \in Fds \ {f} : fdt'[g] = fdt[g] /\ held'[g] = held[g]
      BY <1>2, <2>2, Made DEF Types
    <3>2. fdt'[f].open /\ held'[f].who = "null"
      BY <3>1 DEF File, Held
    <3>3. ~IsOpen(f)
      BY <2>2 DEF Born
    <3> QED
      BY <2>2, <3>1, <3>2, <3>3
  <2> HIDE DEF Opens
  <2>3. \E F \in SUBSET Fds : Opens(F)
    BY <2>1, <2>2 DEF Standard
  <2> QED
    BY <2>3
<1>4. \A f \in Fds : Accounted(f)'
  <2>1. \A f \in Fds : Accounted(f)
    BY <1>1 DEF IInv, Unfinished
  <2>2. \A f \in F : Accounted(f)'
    BY <1>3, Made DEF Accounted, IsOpen
  <2>3. \A f \in Fds \ F : Accounted(f)'
    BY <1>1, <1>3, <2>1 DEF Accounted, IsOpen
  <2> QED
    BY <2>2, <2>3
<1>5. FailsForACause'
  BY <1>1 DEF IInv, FailsForACause
<1>6. CASE call'.at # "std"
  <2>1. /\ call' \in FrameSet /\ call'.fn \in {"none", "abort"} /\ call'.at = "none"
        /\ call'.fd = NoFd /\ ~call'.refused
    <3>1. CASE Abort
      BY <3>1, AbortFrame
    <3>2. CASE NextStd
      <4>1. call' # [call EXCEPT !.fd = @ + 1]
        BY <1>1, <1>2, <1>6 DEF Types, FrameSet
      <4> QED
        BY <3>2, <4>1, Made DEF NextStd
    <3> QED
      BY <1>3, <3>1, <3>2
  <2>2. Types'
    BY <1>1, <1>2, <1>3, <2>1 DEF Types, HasNumber
  <2>3. Frames' /\ Newborn' /\ Sanitizing'
    BY <2>1 DEF Frames, Newborn, Sanitizing, HasNumber
  <2> QED
    BY <1>4, <1>5, <2>2, <2>3, TypesAre DEF IInv
<1>7. CASE call'.at = "std"
  <2>1. NextStd /\ call' = [call EXCEPT !.fd = @ + 1] /\ call.fd \in 0..1
    BY <1>1, <1>3, <1>7, Made, AbortFrame DEF NextStd
  <2>2. /\ call' \in FrameSet /\ call'.fd = call.fd + 1 /\ call'.fn = "sanitize"
        /\ call'.fd \in 1..2 /\ ~call'.refused
    BY <1>1, <1>2, <2>1, NumbersAssumption DEF Types, FrameSet, IInv, Frames
  <2>3. Types'
    BY <1>1, <1>2, <1>3, <1>7, <2>2 DEF Types, HasNumber
  <2>4. Frames' /\ Newborn'
    BY <1>7, <2>2 DEF Frames, Newborn, HasNumber
  <2>5. F \subseteq {call.fd} /\ fdt'[call.fd].open
    BY <1>1, <1>3, <1>7, AbortFrame DEF IsOpen
  <2>6. \A f \in Fds : f < call'.fd => f < call.fd \/ f = call.fd
    BY <2>1, <2>2, NumbersAssumption
  <2>7. Sanitizing'
    <3>1. \A f \in Fds : f < call'.fd => IsOpen(f)'
      BY <1>1, <1>3, <2>5, <2>6 DEF IInv, Sanitizing, IsOpen
    <3>2. \A f \in Fds : 3 <= f => f \notin F
      BY <2>1, <2>5
    <3>3. ~system.keeps => \A f \in Fds : 3 <= f /\ f < limit => ~IsOpen(f)'
      BY <1>1, <1>3, <3>2 DEF IInv, Sanitizing, IsOpen
    <3> QED
      BY <1>1, <3>1, <3>3 DEF Sanitizing
  <2> QED
    BY <1>4, <1>5, <2>3, <2>4, <2>7, TypesAre DEF IInv
<1> QED
  BY <1>6, <1>7

(* A new process starts over.                                              *)
LEMMA RestartInv ==
  ASSUME IInv, Restart
  PROVE  IInv'
<1>1. /\ fdt' \in [Fds -> FileSet] /\ held' \in [Fds -> HeldSet] /\ limit' \in Limits
      /\ \A f \in Fds : held'[f] # Nobody <=> fdt'[f].open
      /\ \A f \in Fds : held'[f].who # "caller"
      /\ call' = NoCall /\ last' = NoResult /\ UNCHANGED system
  BY StartsAccounted DEF Restart
<1>2. /\ call'.fn = "none" /\ call'.at = "none" /\ call'.fd = NoFd
      /\ ~call'.refused
  BY <1>1, Made
<1>3. Types'
  BY <1>1, <1>2, Made, TypesAre DEF IInv, Types, HasNumber
<1>4. Frames' /\ Newborn' /\ Sanitizing'
  BY <1>2 DEF Frames, Newborn, Sanitizing, HasNumber
<1>5. \A f \in Fds : Accounted(f)'
  BY <1>1 DEF Accounted, IsOpen
<1>6. FailsForACause'
  BY <1>1, Made DEF FailsForACause
<1> QED
  BY <1>3, <1>4, <1>5, <1>6, TypesAre DEF IInv

LEMMA StutterInv ==
  ASSUME IInv, UNCHANGED vars
  PROVE  IInv'
<1>1. UNCHANGED <<system, fdt, limit, call, held, last>>
  BY DEF vars
<1>2. Types' /\ BirthFlags' = BirthFlags
  BY <1>1, TypesAre DEF IInv, Types, HasNumber, BirthFlags
<1>3. Frames' /\ Newborn' /\ Sanitizing'
  BY <1>1, <1>2 DEF IInv, Frames, Newborn, Sanitizing, HasNumber, IsOpen, PlainSocket
<1>4. \A f \in Fds : ~Unfinished(f)' => Accounted(f)'
  BY <1>1 DEF IInv, Unfinished, Accounted, IsOpen, HasNumber
<1>5. FailsForACause'
  BY <1>1 DEF IInv, FailsForACause
<1> QED
  BY <1>2, <1>3, <1>4, <1>5, TypesAre DEF IInv

-----------------------------------------------------------------------------
(* The invariant holds in every reachable state.                           *)

LEMMA NextInv == IInv /\ [Next]_vars => IInv'
  BY CallsInv, BirthInv, GetFlagsInv, SetFlagsInv, GiveUpInv, CloseInv,
     InterruptedInv, SweepInv, StandardInv, RestartInv, StutterInv
  DEF Next, Runs

(* The inductive invariant of SancusFiles: what somebody answers for is    *)
(* open and as it was asked for; what is open is somebody's, except on     *)
(* systems where an interrupted close(2) may keep the number.              *)
THEOREM FilesInvariant == Spec => []IInv
  BY InitInv, NextInv, PTL DEF Spec

(* Every variable keeps its type; a function past its first system call    *)
(* has a number of the table at hand, never -1.                            *)
THEOREM FilesTypeCorrect == Spec => []TypeOK
<1>1. IInv => TypeOK
  BY DEF IInv
<1> QED
  BY <1>1, FilesInvariant, PTL

(* What was handed out is open; and where close(2) always releases the     *)
(* number, no failure of fcntl() after socket() or open() leaks it. Where  *)
(* an interrupted close(2) may keep it, the one attempt of socket.c:79 may *)
(* leak it, and the property says nothing of it.                           *)
THEOREM NoNumberLeaks == Spec => []NothingLeaks
<1>1. IInv => NothingLeaks
  BY DEF IInv, NothingLeaks, Unfinished, Accounted
<1> QED
  BY <1>1, FilesInvariant, PTL

(* A descriptor is blocking or not as was asked for, and where the flags   *)
(* exist at birth it is closed on exec as was asked for.                   *)
THEOREM FlagsKept == Spec => []FlagsAsAsked
<1>1. IInv => FlagsAsAsked
  BY DEF IInv, FlagsAsAsked, NonblockAsAsked, CloexecAsAsked, Unfinished, Accounted
<1> QED
  BY <1>1, FilesInvariant, PTL

(* sancus_socket() and sancus_open() return -1 exactly if the kernel       *)
(* refused something or a socket was asked for with neither flag.          *)
THEOREM FailuresHaveCause == Spec => []FailsForACause
<1>1. IInv => FailsForACause
  BY DEF IInv
<1> QED
  BY <1>1, FilesInvariant, PTL

(* When sancus_close() returns, the number is released, whether the kernel *)
(* released it when close(2) was interrupted or not.                       *)
THEOREM CloseDone == Spec => CloseReleases
<1>1. IInv /\ [Next]_vars =>
        [call.fn = "close" /\ call'.fn = "none" => ~fdt'[call.fd].open]_vars
  <2> SUFFICES ASSUME IInv, Next, call.fn = "close", call'.fn = "none"
               PROVE  ~fdt'[call.fd].open
    BY DEF vars
  <2>1. call.at = "close" /\ call # NoCall
    BY Made DEF IInv, Frames
  <2>2. Close
    BY <2>1
    DEF Next, Calls, Runs, CallSocket, CallOpen, CallClose, CallSanitize, Birth,
        GetFlags, SetFlags, GiveUp, Sweep, Standard, Restart, At, Interrupted
  <2>3. Types /\ call.fd \in Fds
    BY TypesAre DEF IInv, Types
  <2> QED
    BY <2>2, <2>3 DEF Close, Types, Free
<1> QED
  BY <1>1, FilesInvariant, PTL DEF Spec, CloseReleases

(* When sancus_sanitize_files() returns, the standard descriptors are open *)
(* and, where close(2) always releases the number, nothing else below the  *)
(* limit is. Nothing is said of a number the limit does not reach.         *)
THEOREM SanitizeDone == Spec => Sanitized
<1>1. IInv /\ [Next]_vars =>
        [call.fn = "sanitize" =>
           \A f \in Fds :
             /\ call'.fn = "none" /\ f < 3 => fdt'[f].open
             /\ call'.fn = "none" /\ 3 <= f /\ f < limit /\ ~system.keeps
                  => ~fdt'[f].open
             /\ f < 3 /\ IsOpen(f) => fdt'[f] = fdt[f]]_vars
  <2> SUFFICES ASSUME IInv, Next, call.fn = "sanitize", NEW f \in Fds
               PROVE  /\ call'.fn = "none" /\ f < 3 => fdt'[f].open
                      /\ call'.fn = "none" /\ 3 <= f /\ f < limit /\ ~system.keeps
                           => ~fdt'[f].open
                      /\ f < 3 /\ IsOpen(f) => fdt'[f] = fdt[f]
    BY DEF vars
  <2>1. call.at \in {"close", "std"} /\ call # NoCall /\ f \in Nat
    BY Made, NumbersAssumption DEF IInv, Frames
  <2>2. Sweep \/ Standard
    BY <2>1
    DEF Next, Calls, Runs, CallSocket, CallOpen, CallClose, CallSanitize, Birth,
        GetFlags, SetFlags, GiveUp, Close, Restart, At, Interrupted
  <2>3. Types
    BY TypesAre DEF IInv
  <2>4. CASE Sweep
    <3>1. call'.fn = "sanitize"
      BY <2>3, <2>4 DEF Sweep, At, Types, FrameSet
    <3>2. f < 3 => fdt'[f] = fdt[f]
      BY <2>1, <2>4 DEF Sweep, Swept
    <3> QED
      BY <3>1, <3>2
  <2>5. CASE Standard
    <3>1. call.at = "std" /\ call.fd \in 0..2 /\ call.fd \in Fds
      BY <2>5, NumbersAssumption DEF Standard, At, IInv, Frames
    <3>2. IsOpen(f) => fdt'[f] = fdt[f]
      BY <2>3, <2>5, <3>1 DEF Standard, Born, Types
    <3>3. ASSUME call'.fn = "none"
          PROVE  /\ f < 3 => fdt'[f].open
                 /\ 3 <= f /\ f < limit /\ ~system.keeps => ~fdt'[f].open
      <4>1. ~Abort
        BY <3>3, Made DEF Abort, FrameSet
      <4>2. NextStd /\ call.fd = 2
        BY <2>3, <2>5, <3>1, <3>3, <4>1 DEF Standard, NextStd, Types, FrameSet
      <4>3. \/ IsOpen(call.fd) /\ UNCHANGED fdt
            \/ fdt' = [fdt EXCEPT ![call.fd] = File(Plain)]
        BY <2>5, <4>1 DEF Standard
      <4>4. fdt'[call.fd].open /\ \A g \in Fds : g # call.fd => fdt'[g] = fdt[g]
        BY <2>3, <3>1, <4>3 DEF Types, IsOpen, File
      <4>5. f < 3 => f < call.fd \/ f = call.fd
        BY <2>1, <4>2
      <4>6. 3 <= f => f # call.fd
        BY <2>1, <4>2
      <4> QED
        BY <3>1, <4>4, <4>5, <4>6 DEF IInv, Sanitizing, IsOpen
    <3> QED
      BY <3>2, <3>3
  <2> QED
    BY <2>2, <2>4, <2>5
<1> QED
  BY <1>1, FilesInvariant, PTL DEF Spec, Sanitized
=============================================================================
