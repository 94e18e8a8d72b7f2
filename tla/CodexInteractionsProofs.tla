---------------------- MODULE CodexInteractionsProofs ----------------------
(***************************************************************************)
(* What holds of the interactions of a Codex turn for any number of        *)
(* approvals and rounds of questions.  The inductive invariant IInv says   *)
(* who holds the settlement lock at which place (LockInv), who will report *)
(* a round the host was shown (RoundInv), that at most one actor at a time *)
(* is to report an interaction and none after it was reported (OnceInv),   *)
(* and what of an answer is already known at each place (AgreeInv).        *)
(***************************************************************************)
EXTENDS CodexInteractions, TLAPS

\* What a release or a withdrawal has taken and not yet reported.
Left(w) == IF sweep[w].at \in {"audit", "report", "tell"} THEN sweep[w].left ELSE {}

LockInv ==
    /\ \A q \in Questions :
          at[q] \in {"check", "show", "settle", "publish"} => settling = q
    /\ sweep["handler"].at \in {"approvals", "audit", "rounds", "report", "end", "tell"} =>
          settling = "handler"
    /\ sweep["stopper"].at \in {"rounds", "report"} <=> settling = "stopper"
    /\ sweep["handler"].at \notin {"lock", "done"}
    /\ sweep["stopper"].at \notin {"find", "tell", "mark"}
    /\ sweep["stopper"].at # "idle" => stopped

\* What a sweep has taken, by its place.
Shapes ==
    /\ sweep["handler"].kind # "stop"
    /\ \A w \in Sweepers :
        /\ sweep[w].at = "audit" => sweep[w].left \subseteq Approvals
        /\ sweep[w].at = "report" => sweep[w].left \subseteq Questions
        /\ sweep[w].at = "tell" => sweep[w].left \subseteq Questions
        /\ sweep[w].at \in {"find", "tell", "mark"} => \E r \in Requests : sweep[w].left = {r}

\* Somebody holds the entry of this round, or the lock under which it reports it.
Owned(q) ==
    \/ q \in pending
    \/ settling = q /\ at[q] = "publish"
    \/ settling \in Sweepers /\ sweep[settling].at \in {"report", "tell"}
          /\ q \in sweep[settling].left

RoundInv ==
    /\ \A q \in Questions \cap shown :
          at[q] \in {"wait", "take", "settle", "publish"} /\ Owned(q)
    /\ \A w \in Sweepers :
          /\ sweep[w].at = "report" => Questions \cap shown \subseteq sweep[w].left
          /\ sweep[w].at = "end" => Questions \cap shown = {}
    /\ \A q \in Questions : at[q] = "show" => q \in pending /\ sweep["stopper"].at # "end"
    /\ EveryRoundIsSettled

\* The task of an approval was sent an answer that it is to report.
Told(r) ==
    /\ r \in Approvals
    /\ box[r] \in {"grant", "refuse", "server"}
    /\ at[r] \notin {"publish", "done"}

\* Nobody but the one who is named in the hypothesis is to report r.
Unswept(r) == \A w \in Sweepers : r \notin Left(w)

Once(r) ==
    /\ resolved[r] <= 1
    /\ at[r] \in {"new", "register"} =>
          r \notin pending \cup held /\ box[r] = "empty" /\ resolved[r] = 0 /\ Unswept(r)
    /\ r \in pending =>
          r \notin held /\ ~Told(r) /\ at[r] # "publish" /\ resolved[r] = 0 /\ Unswept(r)
    /\ r \in held => ~Told(r) /\ at[r] # "publish" /\ resolved[r] = 0 /\ Unswept(r)
    /\ Told(r) \/ at[r] = "publish" => resolved[r] = 0 /\ Unswept(r)
    /\ ~Unswept(r) => resolved[r] = 0
    /\ ~(r \in Left("handler") /\ r \in Left("stopper"))
    /\ r \in Approvals /\ at[r] = "settle" => box[r] # "empty"
    /\ r \in Approvals \cap (pending \cup held) => box[r] = "empty"

OnceInv == \A r \in Requests : Once(r)

Agree(r) ==
    /\ (said[r] = "none") <=> (resolved[r] = 0)
    /\ out[r] = "none" => at[r] # "publish"
    /\ out[r] # "none" => at[r] \in {"publish", "done"}
    /\ r \in Approvals =>
          /\ said[r] = "grant" => out[r] = "grant"
          /\ out[r] = "grant" =>
                said[r] # "refuse" /\ r \notin pending \cup held /\ Unswept(r)
    /\ r \in Questions =>
          /\ at[r] \notin {"wait", "take", "settle", "publish", "done"} =>
                box[r] \notin Choices
          /\ (box[r] = "grant") <=> (settlement[r] = "grant")
          /\ said[r] # "none" => ((said[r] = "grant") <=> (box[r] = "grant"))
          /\ out[r] # "none" => ((out[r] = "grant") <=> (box[r] = "grant"))
    /\ r \in Approvals \cap (shown \cup held) =>
          at[r] \in {"ask", "expire", "late", "brokered", "wait", "take", "settle",
                    "publish", "done"}
    /\ accepted[r] # "none" =>
          /\ box[r] = accepted[r]
          /\ at[r] \in {"ask", "expire", "late", "brokered", "wait", "take", "settle",
                        "publish", "done"}
          /\ at[r] \in {"publish", "done"} /\ Admissible => out[r] = accepted[r]

AgreeInv == \A r \in Requests : Agree(r)

IInv == TypeOK /\ LockInv /\ Shapes /\ RoundInv /\ OnceInv /\ AgreeInv

\* What every step of the proof reads: the names are apart, and what they abbreviate.
USE NamesAssumption, KindsAssumption
USE DEF Requests, Sweepers, Nobody, Listening, Choices, taken, entries, turn, events, outside

-----------------------------------------------------------------------------
(* The task of a request, up to its announcement.                          *)

LEMMA AdmitKeeps ==
    ASSUME IInv, NEW r \in Requests, Admit(r)
    PROVE  IInv'
<1>1. TypeOK'
    BY SMTT(30) DEF IInv, Admit, Answers, Goto, Admissible, TypeOK, Places, Sweepings
<1>2. LockInv'
    BY SMTT(30) DEF IInv, Admit, Answers, Goto, Admissible, TypeOK, LockInv, Shapes
<1>3. Shapes'
    BY SMTT(30) DEF IInv, Admit, Answers, Goto, Admissible, TypeOK, LockInv, Shapes
<1>4. RoundInv'
    BY SMTT(30) DEF IInv, Admit, Answers, Goto, Admissible, TypeOK, LockInv, Shapes, RoundInv,
        Owned, EveryRoundIsSettled, Open
<1>5. OnceInv'
    BY SMTT(30) DEF IInv, Admit, Answers, Goto, Admissible, TypeOK, LockInv, Shapes, RoundInv,
        Owned, OnceInv, Once, Told, Unswept, Left
<1>6. AgreeInv'
    BY SMTT(30) DEF IInv, Admit, Answers, Goto, Admissible, TypeOK, LockInv, Shapes, RoundInv,
        OnceInv, Once, Told, AgreeInv, Agree, Unswept, Left
<1>. QED BY <1>1, <1>2, <1>3, <1>4, <1>5, <1>6 DEF IInv

LEMMA RegisterKeeps ==
    ASSUME IInv, NEW r \in Requests, Register(r)
    PROVE  IInv'
<1>1. TypeOK'
    BY SMTT(30) DEF IInv, Register, Goto, TypeOK, Places, Sweepings
<1>2. LockInv'
    BY SMTT(30) DEF IInv, Register, Goto, TypeOK, LockInv, Shapes
<1>3. Shapes'
    BY SMTT(30) DEF IInv, Register, Goto, TypeOK, LockInv, Shapes
<1>4. RoundInv'
    BY SMTT(30) DEF IInv, Register, Goto, TypeOK, LockInv, Shapes, RoundInv, Owned,
        EveryRoundIsSettled, Open
<1>5. OnceInv'
    BY SMTT(30) DEF IInv, Register, Goto, TypeOK, LockInv, Shapes, RoundInv, Owned, OnceInv,
        Once,
        Told, Unswept, Left
<1>6. AgreeInv'
    BY SMTT(30) DEF IInv, Register, Goto, TypeOK, LockInv, Shapes, RoundInv, OnceInv, Once,
        Told,
        AgreeInv, Agree, Unswept, Left, Admissible
<1>. QED BY <1>1, <1>2, <1>3, <1>4, <1>5, <1>6 DEF IInv

LEMMA RecheckKeeps ==
    ASSUME IInv, NEW r \in Requests, Recheck(r)
    PROVE  IInv'
<1>1. TypeOK'
    BY SMTT(30) DEF IInv, Recheck, Goto, Admissible, TypeOK, Places, Sweepings
<1>2. LockInv'
    BY SMTT(30) DEF IInv, Recheck, Goto, Admissible, TypeOK, LockInv, Shapes
<1>3. Shapes'
    BY SMTT(30) DEF IInv, Recheck, Goto, Admissible, TypeOK, LockInv, Shapes
<1>4. RoundInv'
    BY SMTT(30) DEF IInv, Recheck, Goto, Admissible, TypeOK, LockInv, Shapes, RoundInv, Owned,
        EveryRoundIsSettled, Open
<1>5. OnceInv'
    BY SMTT(30) DEF IInv, Recheck, Goto, Admissible, TypeOK, LockInv, Shapes, RoundInv, Owned,
        OnceInv, Once, Told, Unswept, Left
<1>6. AgreeInv'
    BY SMTT(30) DEF IInv, Recheck, Goto, Admissible, TypeOK, LockInv, Shapes, RoundInv, OnceInv,
        Once, Told, AgreeInv, Agree, Unswept, Left
<1>. QED BY <1>1, <1>2, <1>3, <1>4, <1>5, <1>6 DEF IInv

LEMMA RetractKeeps ==
    ASSUME IInv, NEW r \in Requests, Retract(r)
    PROVE  IInv'
<1>1. TypeOK'
    BY SMTT(30) DEF IInv, Retract, Answers, Goto, Free, TypeOK, Places, Sweepings
<1>2. LockInv'
    BY SMTT(30) DEF IInv, Retract, Answers, Goto, Free, TypeOK, LockInv, Shapes
<1>3. Shapes'
    BY SMTT(30) DEF IInv, Retract, Answers, Goto, Free, TypeOK, LockInv, Shapes
<1>4. RoundInv'
    BY SMTT(30) DEF IInv, Retract, Answers, Goto, Free, TypeOK, LockInv, Shapes, RoundInv,
        Owned,
        EveryRoundIsSettled, Open
<1>5. OnceInv'
    BY SMTT(30) DEF IInv, Retract, Answers, Goto, Free, TypeOK, LockInv, Shapes, RoundInv,
        Owned,
        OnceInv, Once, Told, Unswept, Left
<1>6. AgreeInv'
    <2> SUFFICES ASSUME NEW x \in Requests PROVE Agree(x)'  BY DEF AgreeInv
    <2>1. TypeOK /\ LockInv /\ Shapes /\ RoundInv /\ Once(x) /\ Agree(x) /\ Once(r) /\ Agree(r)
          BY SMTT(30) DEF IInv, OnceInv, AgreeInv
    <2>2. QED
          BY <2>1, SMTT(20) DEF Retract, Answers, Goto, Free, TypeOK, LockInv, Shapes,
              RoundInv, Once, Told, Agree, Unswept, Left, Admissible
<1>. QED BY <1>1, <1>2, <1>3, <1>4, <1>5, <1>6 DEF IInv

LEMMA EarlyKeeps ==
    ASSUME IInv, NEW r \in Requests, Early(r)
    PROVE  IInv'
<1>1. TypeOK'
    BY SMTT(30) DEF IInv, Early, Goto, TypeOK, Places, Sweepings
<1>2. LockInv'
    BY SMTT(30) DEF IInv, Early, Goto, TypeOK, LockInv, Shapes
<1>3. Shapes'
    BY SMTT(30) DEF IInv, Early, Goto, TypeOK, LockInv, Shapes
<1>4. RoundInv'
    BY SMTT(30) DEF IInv, Early, Goto, TypeOK, LockInv, Shapes, RoundInv, Owned,
        EveryRoundIsSettled, Open
<1>5. OnceInv'
    BY SMTT(30) DEF IInv, Early, Goto, TypeOK, LockInv, Shapes, RoundInv, Owned, OnceInv, Once,
        Told, Unswept, Left
<1>6. AgreeInv'
    BY SMTT(30) DEF IInv, Early, Goto, TypeOK, LockInv, Shapes, RoundInv, OnceInv, Once, Told,
        AgreeInv, Agree, Unswept, Left, Admissible
<1>. QED BY <1>1, <1>2, <1>3, <1>4, <1>5, <1>6 DEF IInv

LEMMA WithdrawnKeeps ==
    ASSUME IInv, NEW r \in Requests, Withdrawn(r)
    PROVE  IInv'
<1>1. TypeOK'
    BY SMTT(30) DEF IInv, Withdrawn, Answers, Goto, Free, TypeOK, Places, Sweepings
<1>2. LockInv'
    BY SMTT(30) DEF IInv, Withdrawn, Answers, Goto, Free, TypeOK, LockInv, Shapes
<1>3. Shapes'
    BY SMTT(30) DEF IInv, Withdrawn, Answers, Goto, Free, TypeOK, LockInv, Shapes
<1>4. RoundInv'
    BY SMTT(30) DEF IInv, Withdrawn, Answers, Goto, Free, TypeOK, LockInv, Shapes, RoundInv,
        Owned,
        EveryRoundIsSettled, Open
<1>5. OnceInv'
    BY SMTT(30) DEF IInv, Withdrawn, Answers, Goto, Free, TypeOK, LockInv, Shapes, RoundInv,
        Owned,
        OnceInv, Once, Told, Unswept, Left
<1>6. AgreeInv'
    <2> SUFFICES ASSUME NEW x \in Requests PROVE Agree(x)'  BY DEF AgreeInv
    <2>1. TypeOK /\ LockInv /\ Shapes /\ RoundInv /\ Once(x) /\ Agree(x) /\ Once(r) /\ Agree(r)
          BY SMTT(30) DEF IInv, OnceInv, AgreeInv
    <2>2. QED
          BY <2>1, SMTT(20) DEF Withdrawn, Answers, Goto, Free, TypeOK, LockInv, Shapes,
              RoundInv, Once, Told, Agree, Unswept, Left, Admissible
<1>. QED BY <1>1, <1>2, <1>3, <1>4, <1>5, <1>6 DEF IInv

LEMMA LookKeeps ==
    ASSUME IInv, NEW p \in Approvals, Look(p)
    PROVE  IInv'
<1>1. TypeOK'
    BY SMTT(30) DEF IInv, Look, Answers, Goto, TypeOK, Places, Sweepings
<1>2. LockInv'
    BY SMTT(30) DEF IInv, Look, Answers, Goto, TypeOK, LockInv, Shapes
<1>3. Shapes'
    BY SMTT(30) DEF IInv, Look, Answers, Goto, TypeOK, LockInv, Shapes
<1>4. RoundInv'
    BY SMTT(30) DEF IInv, Look, Answers, Goto, TypeOK, LockInv, Shapes, RoundInv, Owned,
        EveryRoundIsSettled, Open
<1>5. OnceInv'
    BY SMTT(30) DEF IInv, Look, Answers, Goto, TypeOK, LockInv, Shapes, RoundInv, Owned,
        OnceInv,
        Once, Told, Unswept, Left
<1>6. AgreeInv'
    BY SMTT(30) DEF IInv, Look, Answers, Goto, TypeOK, LockInv, Shapes, RoundInv, OnceInv, Once,
        Told, AgreeInv, Agree, Unswept, Left, Admissible
<1>. QED BY <1>1, <1>2, <1>3, <1>4, <1>5, <1>6 DEF IInv

LEMMA AnnounceKeeps ==
    ASSUME IInv, NEW q \in Questions, Announce(q)
    PROVE  IInv'
<1>1. TypeOK'
    BY SMTT(30) DEF IInv, Announce, Goto, Free, TypeOK, Places, Sweepings
<1>2. LockInv'
    BY SMTT(30) DEF IInv, Announce, Goto, Free, TypeOK, LockInv, Shapes
<1>3. Shapes'
    BY SMTT(30) DEF IInv, Announce, Goto, Free, TypeOK, LockInv, Shapes
<1>4. RoundInv'
    BY SMTT(30) DEF IInv, Announce, Goto, Free, TypeOK, LockInv, Shapes, RoundInv, Owned,
        EveryRoundIsSettled, Open
<1>5. OnceInv'
    BY SMTT(30) DEF IInv, Announce, Goto, Free, TypeOK, LockInv, Shapes, RoundInv, Owned,
        OnceInv,
        Once, Told, Unswept, Left
<1>6. AgreeInv'
    BY SMTT(30) DEF IInv, Announce, Goto, Free, TypeOK, LockInv, Shapes, RoundInv, OnceInv,
        Once,
        Told, AgreeInv, Agree, Unswept, Left, Admissible
<1>. QED BY <1>1, <1>2, <1>3, <1>4, <1>5, <1>6 DEF IInv

LEMMA CheckKeeps ==
    ASSUME IInv, NEW q \in Questions, Check(q)
    PROVE  IInv'
<1>1. TypeOK'
    BY SMTT(30) DEF IInv, Check, Goto, Answers, Admissible, LetGo, TypeOK, Places, Sweepings
<1>2. LockInv'
    BY SMTT(30) DEF IInv, Check, Goto, Answers, Admissible, LetGo, TypeOK, LockInv, Shapes
<1>3. Shapes'
    BY SMTT(30) DEF IInv, Check, Goto, Answers, Admissible, LetGo, TypeOK, LockInv, Shapes
<1>4. RoundInv'
    BY SMTT(30) DEF IInv, Check, Goto, Answers, Admissible, LetGo, TypeOK, LockInv, Shapes,
        RoundInv, Owned, EveryRoundIsSettled, Open
<1>5. OnceInv'
    BY SMTT(30) DEF IInv, Check, Goto, Answers, Admissible, LetGo, TypeOK, LockInv, Shapes,
        RoundInv, Owned, OnceInv, Once, Told, Unswept, Left
<1>6. AgreeInv'
    <2> SUFFICES ASSUME NEW x \in Requests PROVE Agree(x)'  BY DEF AgreeInv
    <2>1. TypeOK /\ LockInv /\ Shapes /\ RoundInv /\ Once(x) /\ Agree(x) /\ Once(q) /\ Agree(q)
          BY SMTT(30) DEF IInv, OnceInv, AgreeInv
    <2>2. QED
          BY <2>1, SMTT(20) DEF Check, Goto, Answers, Admissible, LetGo, TypeOK, LockInv,
              Shapes, RoundInv, Once, Told, Agree, Unswept, Left
<1>. QED BY <1>1, <1>2, <1>3, <1>4, <1>5, <1>6 DEF IInv

LEMMA ShowKeeps ==
    ASSUME IInv, NEW r \in Requests, Show(r)
    PROVE  IInv'
<1>1. TypeOK'
    BY SMTT(30) DEF IInv, Show, Goto, LetGo, Open, TypeOK, Places, Sweepings
<1>2. LockInv'
    BY SMTT(30) DEF IInv, Show, Goto, LetGo, Open, TypeOK, LockInv, Shapes
<1>3. Shapes'
    BY SMTT(30) DEF IInv, Show, Goto, LetGo, Open, TypeOK, LockInv, Shapes
<1>4. RoundInv'
    BY SMTT(30) DEF IInv, Show, Goto, LetGo, Open, TypeOK, LockInv, Shapes, RoundInv, Owned,
        EveryRoundIsSettled
<1>5. OnceInv'
    BY SMTT(30) DEF IInv, Show, Goto, LetGo, Open, TypeOK, LockInv, Shapes, RoundInv, Owned,
        OnceInv, Once, Told, Unswept, Left
<1>6. AgreeInv'
    BY SMTT(30) DEF IInv, Show, Goto, LetGo, Open, TypeOK, LockInv, Shapes, RoundInv,
        OnceInv, Once,
        Told, AgreeInv, Agree, Unswept, Left, Admissible
<1>. QED BY <1>1, <1>2, <1>3, <1>4, <1>5, <1>6 DEF IInv

-----------------------------------------------------------------------------
(* The task of a request, from its announcement on.                        *)

LEMMA AskKeeps ==
    ASSUME IInv, NEW p \in Approvals, Ask(p)
    PROVE  IInv'
<1>1. TypeOK'
    BY SMTT(30) DEF IInv, Ask, Goto, TypeOK, Places, Sweepings
<1>2. LockInv'
    BY SMTT(30) DEF IInv, Ask, Goto, TypeOK, LockInv, Shapes
<1>3. Shapes'
    BY SMTT(30) DEF IInv, Ask, Goto, TypeOK, LockInv, Shapes
<1>4. RoundInv'
    BY SMTT(30) DEF IInv, Ask, Goto, TypeOK, LockInv, Shapes, RoundInv, Owned,
        EveryRoundIsSettled,
        Open
<1>5. OnceInv'
    <2> SUFFICES ASSUME NEW x \in Requests PROVE Once(x)'  BY DEF OnceInv
    <2>1. TypeOK /\ LockInv /\ Shapes /\ RoundInv /\ Once(x) /\ Agree(x) /\ Once(p) /\ Agree(p)
          BY SMTT(30) DEF IInv, OnceInv, AgreeInv
    <2>2. QED
          BY <2>1, SMTT(20) DEF Ask, Goto, TypeOK, LockInv, Shapes, RoundInv, Owned, Once,
              Told, Unswept, Left
<1>6. AgreeInv'
    BY SMTT(30) DEF IInv, Ask, Goto, TypeOK, LockInv, Shapes, RoundInv, OnceInv, Once, Told,
        AgreeInv, Agree, Unswept, Left, Admissible
<1>. QED BY <1>1, <1>2, <1>3, <1>4, <1>5, <1>6 DEF IInv

LEMMA ExpireKeeps ==
    ASSUME IInv, NEW p \in Approvals, Expire(p)
    PROVE  IInv'
<1>1. TypeOK'
    BY SMTT(30) DEF IInv, Expire, Goto, Answers, TypeOK, Places, Sweepings
<1>2. LockInv'
    BY SMTT(30) DEF IInv, Expire, Goto, Answers, TypeOK, LockInv, Shapes
<1>3. Shapes'
    BY SMTT(30) DEF IInv, Expire, Goto, Answers, TypeOK, LockInv, Shapes
<1>4. RoundInv'
    BY SMTT(30) DEF IInv, Expire, Goto, Answers, TypeOK, LockInv, Shapes, RoundInv, Owned,
        EveryRoundIsSettled, Open
<1>5. OnceInv'
    BY SMTT(30) DEF IInv, Expire, Goto, Answers, TypeOK, LockInv, Shapes, RoundInv, Owned,
        OnceInv,
        Once, Told, Unswept, Left
<1>6. AgreeInv'
    <2> SUFFICES ASSUME NEW x \in Requests PROVE Agree(x)'  BY DEF AgreeInv
    <2>1. TypeOK /\ LockInv /\ Shapes /\ RoundInv /\ Once(x) /\ Agree(x) /\ Once(p) /\ Agree(p)
          BY SMTT(30) DEF IInv, OnceInv, AgreeInv
    <2>2. QED
          BY <2>1, SMTT(20) DEF Expire, Goto, Answers, TypeOK, LockInv, Shapes, RoundInv,
              Once, Told, Agree, Unswept, Left, Admissible
<1>. QED BY <1>1, <1>2, <1>3, <1>4, <1>5, <1>6 DEF IInv

LEMMA LateKeeps ==
    ASSUME IInv, NEW p \in Approvals, Late(p)
    PROVE  IInv'
<1>1. TypeOK'
    BY SMTT(30) DEF IInv, Late, Goto, TypeOK, Places, Sweepings
<1>2. LockInv'
    BY SMTT(30) DEF IInv, Late, Goto, TypeOK, LockInv, Shapes
<1>3. Shapes'
    BY SMTT(30) DEF IInv, Late, Goto, TypeOK, LockInv, Shapes
<1>4. RoundInv'
    BY SMTT(30) DEF IInv, Late, Goto, TypeOK, LockInv, Shapes, RoundInv, Owned,
        EveryRoundIsSettled,
        Open
<1>5. OnceInv'
    <2> SUFFICES ASSUME NEW x \in Requests PROVE Once(x)'  BY DEF OnceInv
    <2>1. TypeOK /\ LockInv /\ Shapes /\ RoundInv /\ Once(x) /\ Agree(x) /\ Once(p) /\ Agree(p)
          BY SMTT(30) DEF IInv, OnceInv, AgreeInv
    <2>2. QED
          BY <2>1, SMTT(20) DEF Late, Goto, TypeOK, LockInv, Shapes, RoundInv, Owned, Once,
              Told, Unswept, Left
<1>6. AgreeInv'
    BY SMTT(30) DEF IInv, Late, Goto, TypeOK, LockInv, Shapes, RoundInv, OnceInv, Once, Told,
        AgreeInv, Agree, Unswept, Left, Admissible
<1>. QED BY <1>1, <1>2, <1>3, <1>4, <1>5, <1>6 DEF IInv

LEMMA BrokeredKeeps ==
    ASSUME IInv, NEW p \in Approvals, Brokered(p)
    PROVE  IInv'
<1>1. TypeOK'
    BY SMTT(30) DEF IInv, Brokered, Goto, TypeOK, Places, Sweepings
<1>2. LockInv'
    BY SMTT(30) DEF IInv, Brokered, Goto, TypeOK, LockInv, Shapes
<1>3. Shapes'
    BY SMTT(30) DEF IInv, Brokered, Goto, TypeOK, LockInv, Shapes
<1>4. RoundInv'
    BY SMTT(30) DEF IInv, Brokered, Goto, TypeOK, LockInv, Shapes, RoundInv, Owned,
        EveryRoundIsSettled, Open
<1>5. OnceInv'
    <2> SUFFICES ASSUME NEW x \in Requests PROVE Once(x)'  BY DEF OnceInv
    <2>1. TypeOK /\ LockInv /\ Shapes /\ RoundInv /\ Once(x) /\ Agree(x) /\ Once(p) /\ Agree(p)
          BY SMTT(30) DEF IInv, OnceInv, AgreeInv
    <2>2. QED
          BY <2>1, SMTT(20) DEF Brokered, Goto, TypeOK, LockInv, Shapes, RoundInv, Owned,
              Once, Told, Unswept, Left
<1>6. AgreeInv'
    <2> SUFFICES ASSUME NEW x \in Requests PROVE Agree(x)'  BY DEF AgreeInv
    <2>1. TypeOK /\ LockInv /\ Shapes /\ RoundInv /\ Once(x) /\ Agree(x) /\ Once(p) /\ Agree(p)
          BY SMTT(30) DEF IInv, OnceInv, AgreeInv
    <2>2. QED
          BY <2>1, SMTT(20) DEF Brokered, Goto, TypeOK, LockInv, Shapes, RoundInv, Once,
              Told, Agree, Unswept, Left, Admissible
<1>. QED BY <1>1, <1>2, <1>3, <1>4, <1>5, <1>6 DEF IInv

LEMMA WaitKeeps ==
    ASSUME IInv, NEW r \in Requests, Wait(r)
    PROVE  IInv'
<1>1. TypeOK'
    BY SMTT(30) DEF IInv, Wait, Goto, TypeOK, Places, Sweepings
<1>2. LockInv'
    BY SMTT(30) DEF IInv, Wait, Goto, TypeOK, LockInv, Shapes
<1>3. Shapes'
    BY SMTT(30) DEF IInv, Wait, Goto, TypeOK, LockInv, Shapes
<1>4. RoundInv'
    BY SMTT(30) DEF IInv, Wait, Goto, TypeOK, LockInv, Shapes, RoundInv, Owned,
        EveryRoundIsSettled,
        Open
<1>5. OnceInv'
    <2> SUFFICES ASSUME NEW x \in Requests PROVE Once(x)'  BY DEF OnceInv
    <2>1. TypeOK /\ LockInv /\ Shapes /\ RoundInv /\ Once(x) /\ Agree(x) /\ Once(r) /\ Agree(r)
          BY SMTT(30) DEF IInv, OnceInv, AgreeInv
    <2>2. QED
          BY <2>1, SMTT(20) DEF Wait, Goto, TypeOK, LockInv, Shapes, RoundInv, Owned, Once,
              Told, Unswept, Left
<1>6. AgreeInv'
    BY SMTT(30) DEF IInv, Wait, Goto, TypeOK, LockInv, Shapes, RoundInv, OnceInv, Once, Told,
        AgreeInv, Agree, Unswept, Left, Admissible
<1>. QED BY <1>1, <1>2, <1>3, <1>4, <1>5, <1>6 DEF IInv

LEMMA TakeApprovalKeeps ==
    ASSUME IInv, NEW p \in Approvals, TakeApproval(p)
    PROVE  IInv'
<1>1. TypeOK'
    BY SMTT(30) DEF IInv, TakeApproval, Goto, Answers, TypeOK, Places, Sweepings
<1>2. LockInv'
    BY SMTT(30) DEF IInv, TakeApproval, Goto, Answers, TypeOK, LockInv, Shapes
<1>3. Shapes'
    BY SMTT(30) DEF IInv, TakeApproval, Goto, Answers, TypeOK, LockInv, Shapes
<1>4. RoundInv'
    BY SMTT(30) DEF IInv, TakeApproval, Goto, Answers, TypeOK, LockInv, Shapes, RoundInv, Owned,
        EveryRoundIsSettled, Open
<1>5. OnceInv'
    BY SMTT(30) DEF IInv, TakeApproval, Goto, Answers, TypeOK, LockInv, Shapes, RoundInv, Owned,
        OnceInv, Once, Told, Unswept, Left
<1>6. AgreeInv'
    <2> SUFFICES ASSUME NEW x \in Requests PROVE Agree(x)'  BY DEF AgreeInv
    <2>1. TypeOK /\ LockInv /\ Shapes /\ RoundInv /\ Once(x) /\ Agree(x) /\ Once(p) /\ Agree(p)
          BY SMTT(30) DEF IInv, OnceInv, AgreeInv
    <2>2. QED
          BY <2>1, SMTT(20) DEF TakeApproval, Goto, Answers, TypeOK, LockInv, Shapes,
              RoundInv, Once, Told, Agree, Unswept, Left, Admissible
<1>. QED BY <1>1, <1>2, <1>3, <1>4, <1>5, <1>6 DEF IInv

LEMMA SettleApprovalKeeps ==
    ASSUME IInv, NEW p \in Approvals, SettleApproval(p)
    PROVE  IInv'
<1>1. TypeOK'
    BY SMTT(30) DEF IInv, SettleApproval, Goto, Answers, Admissible, TypeOK, Places, Sweepings
<1>2. LockInv'
    BY SMTT(30) DEF IInv, SettleApproval, Goto, Answers, Admissible, TypeOK, LockInv, Shapes
<1>3. Shapes'
    BY SMTT(30) DEF IInv, SettleApproval, Goto, Answers, Admissible, TypeOK, LockInv, Shapes
<1>4. RoundInv'
    BY SMTT(30) DEF IInv, SettleApproval, Goto, Answers, Admissible, TypeOK, LockInv, Shapes,
        RoundInv, Owned, EveryRoundIsSettled, Open
<1>5. OnceInv'
    <2> SUFFICES ASSUME NEW x \in Requests PROVE Once(x)'  BY DEF OnceInv
    <2>1. TypeOK /\ LockInv /\ Shapes /\ RoundInv /\ Once(x) /\ Agree(x) /\ Once(p) /\ Agree(p)
          BY SMTT(30) DEF IInv, OnceInv, AgreeInv
    <2>2. QED
          BY <2>1, SMTT(20) DEF SettleApproval, Goto, Answers, Admissible, TypeOK, LockInv,
              Shapes, RoundInv, Owned, Once, Told, Unswept, Left
<1>6. AgreeInv'
    <2> SUFFICES ASSUME NEW x \in Requests PROVE Agree(x)'  BY DEF AgreeInv
    <2>1. TypeOK /\ LockInv /\ Shapes /\ RoundInv /\ Once(x) /\ Agree(x) /\ Once(p) /\ Agree(p)
          BY SMTT(30) DEF IInv, OnceInv, AgreeInv
    <2>2. QED
          BY <2>1, SMTT(20) DEF SettleApproval, Goto, Answers, Admissible, TypeOK, LockInv,
              Shapes, RoundInv, Once, Told, Agree, Unswept, Left
<1>. QED BY <1>1, <1>2, <1>3, <1>4, <1>5, <1>6 DEF IInv

LEMMA TakeRoundKeeps ==
    ASSUME IInv, NEW q \in Questions, TakeRound(q)
    PROVE  IInv'
<1>1. TypeOK'
    BY SMTT(30) DEF IInv, TakeRound, Goto, Free, TypeOK, Places, Sweepings
<1>2. LockInv'
    BY SMTT(30) DEF IInv, TakeRound, Goto, Free, TypeOK, LockInv, Shapes
<1>3. Shapes'
    BY SMTT(30) DEF IInv, TakeRound, Goto, Free, TypeOK, LockInv, Shapes
<1>4. RoundInv'
    BY SMTT(30) DEF IInv, TakeRound, Goto, Free, TypeOK, LockInv, Shapes, RoundInv, Owned,
        EveryRoundIsSettled, Open
<1>5. OnceInv'
    BY SMTT(30) DEF IInv, TakeRound, Goto, Free, TypeOK, LockInv, Shapes, RoundInv, Owned,
        OnceInv,
        Once, Told, Unswept, Left
<1>6. AgreeInv'
    BY SMTT(30) DEF IInv, TakeRound, Goto, Free, TypeOK, LockInv, Shapes, RoundInv, OnceInv,
        Once,
        Told, AgreeInv, Agree, Unswept, Left, Admissible
<1>. QED BY <1>1, <1>2, <1>3, <1>4, <1>5, <1>6 DEF IInv

LEMMA SettleRoundKeeps ==
    ASSUME IInv, NEW q \in Questions, SettleRound(q)
    PROVE  IInv'
<1>1. TypeOK'
    BY SMTT(30) DEF IInv, SettleRound, Goto, Answers, LetGo, TypeOK, Places, Sweepings
<1>2. LockInv'
    BY SMTT(30) DEF IInv, SettleRound, Goto, Answers, LetGo, TypeOK, LockInv, Shapes
<1>3. Shapes'
    BY SMTT(30) DEF IInv, SettleRound, Goto, Answers, LetGo, TypeOK, LockInv, Shapes
<1>4. RoundInv'
    BY SMTT(30) DEF IInv, SettleRound, Goto, Answers, LetGo, TypeOK, LockInv, Shapes, RoundInv,
        Owned, EveryRoundIsSettled, Open
<1>5. OnceInv'
    BY SMTT(30) DEF IInv, SettleRound, Goto, Answers, LetGo, TypeOK, LockInv, Shapes, RoundInv,
        Owned, OnceInv, Once, Told, Unswept, Left
<1>6. AgreeInv'
    <2> SUFFICES ASSUME NEW x \in Requests PROVE Agree(x)'  BY DEF AgreeInv
    <2>1. TypeOK /\ LockInv /\ Shapes /\ RoundInv /\ Once(x) /\ Agree(x) /\ Once(q) /\ Agree(q)
          BY SMTT(30) DEF IInv, OnceInv, AgreeInv
    <2>2. QED
          BY <2>1, SMTT(20) DEF SettleRound, Goto, Answers, LetGo, TypeOK, LockInv, Shapes,
              RoundInv, Once, Told, Agree, Unswept, Left, Admissible
<1>. QED BY <1>1, <1>2, <1>3, <1>4, <1>5, <1>6 DEF IInv

LEMMA PublishKeeps ==
    ASSUME IInv, NEW r \in Requests, Publish(r)
    PROVE  IInv'
<1>1. TypeOK'
    BY SMTT(30) DEF IInv, Publish, Goto, LetGo, Tell, Outcome, Open, TypeOK, Places, Sweepings
<1>2. LockInv'
    BY SMTT(30) DEF IInv, Publish, Goto, LetGo, Tell, Outcome, Open, TypeOK, LockInv, Shapes
<1>3. Shapes'
    BY SMTT(30) DEF IInv, Publish, Goto, LetGo, Tell, Outcome, Open, TypeOK, LockInv, Shapes
<1>4. RoundInv'
    BY SMTT(30) DEF IInv, Publish, Goto, LetGo, Tell, Outcome, Open, TypeOK, LockInv, Shapes,
        RoundInv, Owned, EveryRoundIsSettled
<1>5. OnceInv'
    BY SMTT(30) DEF IInv, Publish, Goto, LetGo, Tell, Outcome, Open, TypeOK, LockInv, Shapes,
        RoundInv, Owned, OnceInv, Once, Told, Unswept, Left
<1>6. AgreeInv'
    BY SMTT(30) DEF IInv, Publish, Goto, LetGo, Tell, Outcome, Open, TypeOK, LockInv, Shapes,
        RoundInv, OnceInv, Once, Told, AgreeInv, Agree, Unswept, Left, Admissible
<1>. QED BY <1>1, <1>2, <1>3, <1>4, <1>5, <1>6 DEF IInv

-----------------------------------------------------------------------------
(* The host and the clock.                                                 *)

LEMMA DeadlinePassesKeeps ==
    ASSUME IInv, NEW r \in Requests, DeadlinePasses(r)
    PROVE  IInv'
<1>1. TypeOK'
    BY SMTT(30) DEF IInv, DeadlinePasses, TypeOK, Places, Sweepings
<1>2. LockInv'
    BY SMTT(30) DEF IInv, DeadlinePasses, TypeOK, LockInv, Shapes
<1>3. Shapes'
    BY SMTT(30) DEF IInv, DeadlinePasses, TypeOK, LockInv, Shapes
<1>4. RoundInv'
    BY SMTT(30) DEF IInv, DeadlinePasses, TypeOK, LockInv, Shapes, RoundInv, Owned,
        EveryRoundIsSettled, Open
<1>5. OnceInv'
    BY SMTT(30) DEF IInv, DeadlinePasses, TypeOK, LockInv, Shapes, RoundInv, Owned, OnceInv,
        Once,
        Told, Unswept, Left
<1>6. AgreeInv'
    BY SMTT(30) DEF IInv, DeadlinePasses, TypeOK, LockInv, Shapes, RoundInv, OnceInv, Once,
        Told,
        AgreeInv, Agree, Unswept, Left, Admissible
<1>. QED BY <1>1, <1>2, <1>3, <1>4, <1>5, <1>6 DEF IInv

LEMMA RespondTakesKeeps ==
    ASSUME IInv, NEW p \in Approvals, RespondTakes(p)
    PROVE  IInv'
<1>1. TypeOK'
    BY SMTT(30) DEF IInv, RespondTakes, TypeOK, Places, Sweepings
<1>2. LockInv'
    BY SMTT(30) DEF IInv, RespondTakes, TypeOK, LockInv, Shapes
<1>3. Shapes'
    BY SMTT(30) DEF IInv, RespondTakes, TypeOK, LockInv, Shapes
<1>4. RoundInv'
    BY SMTT(30) DEF IInv, RespondTakes, TypeOK, LockInv, Shapes, RoundInv, Owned,
        EveryRoundIsSettled, Open
<1>5. OnceInv'
    BY SMTT(30) DEF IInv, RespondTakes, TypeOK, LockInv, Shapes, RoundInv, Owned, OnceInv, Once,
        Told, Unswept, Left
<1>6. AgreeInv'
    BY SMTT(30) DEF IInv, RespondTakes, TypeOK, LockInv, Shapes, RoundInv, OnceInv, Once, Told,
        AgreeInv, Agree, Unswept, Left, Admissible
<1>. QED BY <1>1, <1>2, <1>3, <1>4, <1>5, <1>6 DEF IInv

LEMMA RespondSendsKeeps ==
    ASSUME IInv, NEW p \in Approvals, RespondSends(p)
    PROVE  IInv'
<1>1. TypeOK'
    BY SMTT(30) DEF IInv, RespondSends, Sent, TypeOK, Places, Sweepings
<1>2. LockInv'
    BY SMTT(30) DEF IInv, RespondSends, Sent, TypeOK, LockInv, Shapes
<1>3. Shapes'
    BY SMTT(30) DEF IInv, RespondSends, Sent, TypeOK, LockInv, Shapes
<1>4. RoundInv'
    BY SMTT(30) DEF IInv, RespondSends, Sent, TypeOK, LockInv, Shapes, RoundInv, Owned,
        EveryRoundIsSettled, Open
<1>5. OnceInv'
    BY SMTT(30) DEF IInv, RespondSends, Sent, TypeOK, LockInv, Shapes, RoundInv, Owned, OnceInv,
        Once, Told, Unswept, Left
<1>6. AgreeInv'
    <2> SUFFICES ASSUME NEW x \in Requests PROVE Agree(x)'  BY DEF AgreeInv
    <2>1. TypeOK /\ LockInv /\ Shapes /\ RoundInv /\ Once(x) /\ Agree(x) /\ Once(p) /\ Agree(p)
          BY SMTT(30) DEF IInv, OnceInv, AgreeInv
    <2>2. QED
          BY <2>1, SMTT(20) DEF RespondSends, Sent, TypeOK, LockInv, Shapes, RoundInv,
              Once, Told, Agree, Unswept, Left, Admissible
<1>. QED BY <1>1, <1>2, <1>3, <1>4, <1>5, <1>6 DEF IInv

LEMMA RespondPutsBackKeeps ==
    ASSUME IInv, NEW p \in Approvals, RespondPutsBack(p)
    PROVE  IInv'
<1>1. TypeOK'
    BY SMTT(30) DEF IInv, RespondPutsBack, TypeOK, Places, Sweepings
<1>2. LockInv'
    BY SMTT(30) DEF IInv, RespondPutsBack, TypeOK, LockInv, Shapes
<1>3. Shapes'
    BY SMTT(30) DEF IInv, RespondPutsBack, TypeOK, LockInv, Shapes
<1>4. RoundInv'
    BY SMTT(30) DEF IInv, RespondPutsBack, TypeOK, LockInv, Shapes, RoundInv, Owned,
        EveryRoundIsSettled, Open
<1>5. OnceInv'
    <2> SUFFICES ASSUME NEW x \in Requests PROVE Once(x)'  BY DEF OnceInv
    <2>1. TypeOK /\ LockInv /\ Shapes /\ RoundInv /\ Once(x) /\ Agree(x) /\ Once(p) /\ Agree(p)
          BY SMTT(30) DEF IInv, OnceInv, AgreeInv
    <2>2. QED
          BY <2>1, SMTT(20) DEF RespondPutsBack, TypeOK, LockInv, Shapes, RoundInv, Owned,
              Once, Told, Unswept, Left
<1>6. AgreeInv'
    BY SMTT(30) DEF IInv, RespondPutsBack, TypeOK, LockInv, Shapes, RoundInv, OnceInv, Once,
        Told,
        AgreeInv, Agree, Unswept, Left, Admissible
<1>. QED BY <1>1, <1>2, <1>3, <1>4, <1>5, <1>6 DEF IInv

LEMMA AnswerRoundKeeps ==
    ASSUME IInv, NEW q \in Questions, AnswerRound(q)
    PROVE  IInv'
<1>1. TypeOK'
    BY SMTT(30) DEF IInv, AnswerRound, Sent, Free, TypeOK, Places, Sweepings
<1>2. LockInv'
    BY SMTT(30) DEF IInv, AnswerRound, Sent, Free, TypeOK, LockInv, Shapes
<1>3. Shapes'
    BY SMTT(30) DEF IInv, AnswerRound, Sent, Free, TypeOK, LockInv, Shapes
<1>4. RoundInv'
    BY SMTT(30) DEF IInv, AnswerRound, Sent, Free, TypeOK, LockInv, Shapes, RoundInv, Owned,
        EveryRoundIsSettled, Open
<1>5. OnceInv'
    BY SMTT(30) DEF IInv, AnswerRound, Sent, Free, TypeOK, LockInv, Shapes, RoundInv, Owned,
        OnceInv, Once, Told, Unswept, Left
<1>6. AgreeInv'
    <2> SUFFICES ASSUME NEW x \in Requests PROVE Agree(x)'  BY DEF AgreeInv
    <2>1. TypeOK /\ LockInv /\ Shapes /\ RoundInv /\ Once(x) /\ Agree(x) /\ Once(q) /\ Agree(q)
          BY SMTT(30) DEF IInv, OnceInv, AgreeInv
    <2>2. QED
          BY <2>1, SMTT(20) DEF AnswerRound, Sent, Free, TypeOK, LockInv, Shapes, RoundInv,
              Once, Told, Agree, Unswept, Left, Admissible
<1>. QED BY <1>1, <1>2, <1>3, <1>4, <1>5, <1>6 DEF IInv

LEMMA HostLeavesKeeps ==
    ASSUME IInv, HostLeaves
    PROVE  IInv'
<1>1. TypeOK'
    BY SMTT(30) DEF IInv, HostLeaves, TypeOK, Places, Sweepings
<1>2. LockInv'
    BY SMTT(30) DEF IInv, HostLeaves, TypeOK, LockInv, Shapes
<1>3. Shapes'
    BY SMTT(30) DEF IInv, HostLeaves, TypeOK, LockInv, Shapes
<1>4. RoundInv'
    BY SMTT(30) DEF IInv, HostLeaves, TypeOK, LockInv, Shapes, RoundInv, Owned,
        EveryRoundIsSettled,
        Open
<1>5. OnceInv'
    BY SMTT(30) DEF IInv, HostLeaves, TypeOK, LockInv, Shapes, RoundInv, Owned, OnceInv,
        Once, Told,
        Unswept, Left
<1>6. AgreeInv'
    BY SMTT(30) DEF IInv, HostLeaves, TypeOK, LockInv, Shapes, RoundInv, OnceInv, Once, Told,
        AgreeInv, Agree, Unswept, Left, Admissible
<1>. QED BY <1>1, <1>2, <1>3, <1>4, <1>5, <1>6 DEF IInv

-----------------------------------------------------------------------------
(* Whoever stops or ends the turn releases what is pending.                *)

LEMMA StopBeginsKeeps ==
    ASSUME IInv, StopBegins
    PROVE  IInv'
<1>1. TypeOK'
    BY SMTT(30) DEF IInv, StopBegins, TypeOK, Places, Sweepings
<1>2. LockInv'
    BY SMTT(30) DEF IInv, StopBegins, TypeOK, LockInv, Shapes
<1>3. Shapes'
    BY SMTT(30) DEF IInv, StopBegins, TypeOK, LockInv, Shapes
<1>4. RoundInv'
    BY SMTT(30) DEF IInv, StopBegins, TypeOK, LockInv, Shapes, RoundInv, Owned,
        EveryRoundIsSettled,
        Open
<1>5. OnceInv'
    BY SMTT(30) DEF IInv, StopBegins, TypeOK, LockInv, Shapes, RoundInv, Owned, OnceInv,
        Once, Told,
        Unswept, Left
<1>6. AgreeInv'
    BY SMTT(30) DEF IInv, StopBegins, TypeOK, LockInv, Shapes, RoundInv, OnceInv, Once, Told,
        AgreeInv, Agree, Unswept, Left, Admissible
<1>. QED BY <1>1, <1>2, <1>3, <1>4, <1>5, <1>6 DEF IInv

LEMMA CloseBeginsKeeps ==
    ASSUME IInv, CloseBegins
    PROVE  IInv'
<1>1. TypeOK'
    BY SMTT(30) DEF IInv, CloseBegins, TypeOK, Places, Sweepings
<1>2. LockInv'
    BY SMTT(30) DEF IInv, CloseBegins, TypeOK, LockInv, Shapes
<1>3. Shapes'
    BY SMTT(30) DEF IInv, CloseBegins, TypeOK, LockInv, Shapes
<1>4. RoundInv'
    BY SMTT(30) DEF IInv, CloseBegins, TypeOK, LockInv, Shapes, RoundInv, Owned,
        EveryRoundIsSettled, Open
<1>5. OnceInv'
    BY SMTT(30) DEF IInv, CloseBegins, TypeOK, LockInv, Shapes, RoundInv, Owned, OnceInv, Once,
        Told, Unswept, Left
<1>6. AgreeInv'
    BY SMTT(30) DEF IInv, CloseBegins, TypeOK, LockInv, Shapes, RoundInv, OnceInv, Once, Told,
        AgreeInv, Agree, Unswept, Left, Admissible
<1>. QED BY <1>1, <1>2, <1>3, <1>4, <1>5, <1>6 DEF IInv

LEMMA HandlerEndsKeeps ==
    ASSUME IInv, HandlerEnds
    PROVE  IInv'
<1>1. TypeOK'
    BY SMTT(30) DEF IInv, HandlerEnds, Free, TypeOK, Places, Sweepings
<1>2. LockInv'
    BY SMTT(30) DEF IInv, HandlerEnds, Free, TypeOK, LockInv, Shapes
<1>3. Shapes'
    BY SMTT(30) DEF IInv, HandlerEnds, Free, TypeOK, LockInv, Shapes
<1>4. RoundInv'
    BY SMTT(30) DEF IInv, HandlerEnds, Free, TypeOK, LockInv, Shapes, RoundInv, Owned,
        EveryRoundIsSettled, Open
<1>5. OnceInv'
    BY SMTT(30) DEF IInv, HandlerEnds, Free, TypeOK, LockInv, Shapes, RoundInv, Owned, OnceInv,
        Once, Told, Unswept, Left
<1>6. AgreeInv'
    BY SMTT(30) DEF IInv, HandlerEnds, Free, TypeOK, LockInv, Shapes, RoundInv, OnceInv,
        Once, Told,
        AgreeInv, Agree, Unswept, Left, Admissible
<1>. QED BY <1>1, <1>2, <1>3, <1>4, <1>5, <1>6 DEF IInv

LEMMA SweepApprovalsKeeps ==
    ASSUME IInv, NEW w \in Sweepers, SweepApprovals(w)
    PROVE  IInv'
<1>1. TypeOK'
    BY SMTT(30) DEF IInv, SweepApprovals, SweepTo, Sent, TypeOK, Places, Sweepings
<1>2. LockInv'
    BY SMTT(30) DEF IInv, SweepApprovals, SweepTo, Sent, TypeOK, LockInv, Shapes
<1>3. Shapes'
    BY SMTT(30) DEF IInv, SweepApprovals, SweepTo, Sent, TypeOK, LockInv, Shapes
<1>4. RoundInv'
    BY SMTT(30) DEF IInv, SweepApprovals, SweepTo, Sent, TypeOK, LockInv, Shapes, RoundInv,
        Owned,
        EveryRoundIsSettled, Open
<1>5. OnceInv'
    <2> SUFFICES ASSUME NEW x \in Requests PROVE Once(x)'  BY DEF OnceInv
    <2>1. TypeOK /\ LockInv /\ Shapes /\ RoundInv /\ Once(x) /\ Agree(x)
          BY SMTT(30) DEF IInv, OnceInv, AgreeInv
    <2>2. QED
          BY <2>1, SMTT(20) DEF SweepApprovals, SweepTo, Sent, TypeOK, LockInv, Shapes,
              RoundInv, Owned, Once, Told, Unswept, Left
<1>6. AgreeInv'
    <2> SUFFICES ASSUME NEW x \in Requests PROVE Agree(x)'  BY DEF AgreeInv
    <2>1. TypeOK /\ LockInv /\ Shapes /\ RoundInv /\ Once(x) /\ Agree(x)
          BY SMTT(30) DEF IInv, OnceInv, AgreeInv
    <2>2. QED
          BY <2>1, SMTT(20) DEF SweepApprovals, SweepTo, Sent, TypeOK, LockInv, Shapes,
              RoundInv, Once, Told, Agree, Unswept, Left, Admissible
<1>. QED BY <1>1, <1>2, <1>3, <1>4, <1>5, <1>6 DEF IInv

LEMMA AuditKeeps ==
    ASSUME IInv, NEW w \in Sweepers, Audit(w)
    PROVE  IInv'
<1>. /\ UNCHANGED <<at, out, entries, early, settling, turn, outside>>
     /\ sweep[w].at = "audit"
  BY DEF Audit
<1>. TypeOK /\ sweep[w].left \subseteq Requests  BY SMTT(30) DEF IInv, TypeOK, Sweepings
<1>1. ASSUME NEW p \in sweep[w].left, Tell(p, "refuse"), SweepTo(w, "audit",
                   sweep[w].left \ {p})
     PROVE  IInv'
    <2>m. /\ sweep' \in [Sweepers -> Sweepings]
        /\ sweep'[w].at = "audit"
        /\ sweep'[w].left = sweep[w].left \ {p}
        /\ \A v \in Sweepers : v # w => sweep'[v] = sweep[v]
        /\ sweep'[w].kind = sweep[w].kind
          BY <1>1 DEF SweepTo, TypeOK, Sweepings
    <2>1. TypeOK'
        BY <1>1, <2>m, SMTT(30) DEF IInv, Tell, Settled, Outcome, Open, TypeOK, Places,
            Sweepings
    <2>2. LockInv'
        BY <1>1, <2>m, SMTT(30) DEF IInv, Tell, Settled, Outcome, Open, TypeOK, LockInv,
            Shapes
    <2>3. Shapes'
        BY <1>1, <2>m, SMTT(30) DEF IInv, Tell, Settled, Outcome, Open, TypeOK, LockInv,
            Shapes
    <2>4. RoundInv'
        BY <1>1, <2>m, SMTT(30) DEF IInv, Tell, Settled, Outcome, Open, TypeOK, LockInv,
            Shapes, RoundInv, Owned, EveryRoundIsSettled
    <2>5. OnceInv'
        <3> SUFFICES ASSUME NEW x \in Requests PROVE Once(x)'  BY DEF OnceInv
        <3>1. /\ TypeOK /\ LockInv /\ Shapes /\ RoundInv
             /\ Once(x) /\ Agree(x) /\ Once(p) /\ Agree(p)
              BY <1>1 DEF IInv, OnceInv, AgreeInv
        <3>2. QED
              BY <1>1, <2>m, <3>1, SMTT(30) DEF Tell, Settled, Outcome, Open, TypeOK,
                  LockInv, Shapes, RoundInv, Owned, Once, Told, Unswept, Left
    <2>6. AgreeInv'
        <3> SUFFICES ASSUME NEW x \in Requests PROVE Agree(x)'  BY DEF AgreeInv
        <3>1. /\ TypeOK /\ LockInv /\ Shapes /\ RoundInv
             /\ Once(x) /\ Agree(x) /\ Once(p) /\ Agree(p)
              BY <1>1 DEF IInv, OnceInv, AgreeInv
        <3>2. QED
              BY <1>1, <2>m, <3>1, SMTT(30) DEF Tell, Settled, Outcome, Open, TypeOK,
                  LockInv, Shapes, RoundInv, Once, Told, Agree, Unswept, Left, Admissible
    <2>. QED BY <2>1, <2>2, <2>3, <2>4, <2>5, <2>6 DEF IInv
<1>2. ASSUME sweep[w].left = {}, SweepTo(w, IF settling = w THEN "rounds" ELSE "lock",
                   {}), UNCHANGED events
     PROVE  IInv'
    <2>. DEFINE place == IF settling = w THEN "rounds" ELSE "lock"
    <2>p. (place = "rounds" /\ settling = w) \/ (place = "lock" /\ ~(settling = w))  OBVIOUS
    <2>s. SweepTo(w, place, {})  BY <1>2
    <2>. HIDE DEF place
    <2>m. /\ sweep' \in [Sweepers -> Sweepings]
        /\ sweep'[w].at = place
        /\ sweep'[w].left = {}
        /\ \A v \in Sweepers : v # w => sweep'[v] = sweep[v]
        /\ sweep'[w].kind = sweep[w].kind
          BY <2>s, <2>p DEF SweepTo, TypeOK, Sweepings
    <2>1. TypeOK'
        BY <1>2, <2>m, <2>p, SMTT(30) DEF IInv, Tell, Settled, Outcome, Open, TypeOK,
            Places, Sweepings
    <2>2. LockInv'
        BY <1>2, <2>m, <2>p, SMTT(30) DEF IInv, Tell, Settled, Outcome, Open, TypeOK,
            LockInv, Shapes
    <2>3. Shapes'
        BY <1>2, <2>m, <2>p, SMTT(30) DEF IInv, Tell, Settled, Outcome, Open, TypeOK,
            LockInv, Shapes
    <2>4. RoundInv'
        BY <1>2, <2>m, <2>p, SMTT(30) DEF IInv, Tell, Settled, Outcome, Open, TypeOK,
            LockInv, Shapes, RoundInv, Owned, EveryRoundIsSettled
    <2>5. OnceInv'
        <3> SUFFICES ASSUME NEW x \in Requests PROVE Once(x)'  BY DEF OnceInv
        <3>1. /\ TypeOK /\ LockInv /\ Shapes /\ RoundInv
             /\ Once(x) /\ Agree(x)
              BY <1>2 DEF IInv, OnceInv, AgreeInv
        <3>2. QED
              BY <1>2, <2>m, <2>p, <3>1, SMTT(30) DEF Tell, Settled, Outcome, Open, TypeOK,
                  LockInv, Shapes, RoundInv, Owned, Once, Told, Unswept, Left
    <2>6. AgreeInv'
        <3> SUFFICES ASSUME NEW x \in Requests PROVE Agree(x)'  BY DEF AgreeInv
        <3>1. /\ TypeOK /\ LockInv /\ Shapes /\ RoundInv
             /\ Once(x) /\ Agree(x)
              BY <1>2 DEF IInv, OnceInv, AgreeInv
        <3>2. QED
              BY <1>2, <2>m, <2>p, <3>1, SMTT(30) DEF Tell, Settled, Outcome, Open, TypeOK,
                  LockInv, Shapes, RoundInv, Once, Told, Agree, Unswept, Left, Admissible
    <2>. QED BY <2>1, <2>2, <2>3, <2>4, <2>5, <2>6 DEF IInv
<1>. QED BY <1>1, <1>2 DEF Audit

LEMMA SweepLocksKeeps ==
    ASSUME IInv, NEW w \in Sweepers, SweepLocks(w)
    PROVE  IInv'
<1>1. TypeOK'
    BY SMTT(30) DEF IInv, SweepLocks, SweepTo, Free, TypeOK, Places, Sweepings
<1>2. LockInv'
    BY SMTT(30) DEF IInv, SweepLocks, SweepTo, Free, TypeOK, LockInv, Shapes
<1>3. Shapes'
    BY SMTT(30) DEF IInv, SweepLocks, SweepTo, Free, TypeOK, LockInv, Shapes
<1>4. RoundInv'
    BY SMTT(30) DEF IInv, SweepLocks, SweepTo, Free, TypeOK, LockInv, Shapes, RoundInv, Owned,
        EveryRoundIsSettled, Open
<1>5. OnceInv'
    <2> SUFFICES ASSUME NEW x \in Requests PROVE Once(x)'  BY DEF OnceInv
    <2>1. TypeOK /\ LockInv /\ Shapes /\ RoundInv /\ Once(x) /\ Agree(x)
          BY SMTT(30) DEF IInv, OnceInv, AgreeInv
    <2>2. QED
          BY <2>1, SMTT(20) DEF SweepLocks, SweepTo, Free, TypeOK, LockInv, Shapes,
              RoundInv, Owned, Once, Told, Unswept, Left
<1>6. AgreeInv'
    <2> SUFFICES ASSUME NEW x \in Requests PROVE Agree(x)'  BY DEF AgreeInv
    <2>1. TypeOK /\ LockInv /\ Shapes /\ RoundInv /\ Once(x) /\ Agree(x)
          BY SMTT(30) DEF IInv, OnceInv, AgreeInv
    <2>2. QED
          BY <2>1, SMTT(20) DEF SweepLocks, SweepTo, Free, TypeOK, LockInv, Shapes,
              RoundInv, Once, Told, Agree, Unswept, Left, Admissible
<1>. QED BY <1>1, <1>2, <1>3, <1>4, <1>5, <1>6 DEF IInv

LEMMA SweepRoundsKeeps ==
    ASSUME IInv, NEW w \in Sweepers, SweepRounds(w)
    PROVE  IInv'
<1>1. TypeOK'
    BY SMTT(30) DEF IInv, SweepRounds, SweepTo, Sent, TypeOK, Places, Sweepings
<1>2. LockInv'
    BY SMTT(30) DEF IInv, SweepRounds, SweepTo, Sent, TypeOK, LockInv, Shapes
<1>3. Shapes'
    BY SMTT(30) DEF IInv, SweepRounds, SweepTo, Sent, TypeOK, LockInv, Shapes
<1>4. RoundInv'
    BY SMTT(30) DEF IInv, SweepRounds, SweepTo, Sent, TypeOK, LockInv, Shapes, RoundInv, Owned,
        EveryRoundIsSettled, Open
<1>5. OnceInv'
    <2> SUFFICES ASSUME NEW x \in Requests PROVE Once(x)'  BY DEF OnceInv
    <2>1. TypeOK /\ LockInv /\ Shapes /\ RoundInv /\ Once(x) /\ Agree(x)
          BY SMTT(30) DEF IInv, OnceInv, AgreeInv
    <2>2. QED
          BY <2>1, SMTT(20) DEF SweepRounds, SweepTo, Sent, TypeOK, LockInv, Shapes,
              RoundInv, Owned, Once, Told, Unswept, Left
<1>6. AgreeInv'
    <2> SUFFICES ASSUME NEW x \in Requests PROVE Agree(x)'  BY DEF AgreeInv
    <2>1. TypeOK /\ LockInv /\ Shapes /\ RoundInv /\ Once(x) /\ Agree(x)
          BY SMTT(30) DEF IInv, OnceInv, AgreeInv
    <2>2. QED
          BY <2>1, SMTT(20) DEF SweepRounds, SweepTo, Sent, TypeOK, LockInv, Shapes,
              RoundInv, Once, Told, Agree, Unswept, Left, Admissible
<1>. QED BY <1>1, <1>2, <1>3, <1>4, <1>5, <1>6 DEF IInv

LEMMA ReportKeeps ==
    ASSUME IInv, NEW w \in Sweepers, Report(w)
    PROVE  IInv'
<1>. /\ UNCHANGED <<at, out, entries, early, turn, outside>>
     /\ sweep[w].at = "report"
  BY DEF Report
<1>. TypeOK /\ sweep[w].left \subseteq Requests  BY SMTT(30) DEF IInv, TypeOK, Sweepings
<1>1. ASSUME NEW q \in sweep[w].left, Tell(q, Settled(q)), SweepTo(w, "report",
                   sweep[w].left \ {q}), UNCHANGED settling
     PROVE  IInv'
    <2>m. /\ sweep' \in [Sweepers -> Sweepings]
        /\ sweep'[w].at = "report"
        /\ sweep'[w].left = sweep[w].left \ {q}
        /\ \A v \in Sweepers : v # w => sweep'[v] = sweep[v]
        /\ sweep'[w].kind = sweep[w].kind
          BY <1>1 DEF SweepTo, TypeOK, Sweepings
    <2>1. TypeOK'
        BY <1>1, <2>m, SMTT(30) DEF IInv, Tell, Settled, Outcome, Open, TypeOK, Places,
            Sweepings
    <2>2. LockInv'
        BY <1>1, <2>m, SMTT(30) DEF IInv, Tell, Settled, Outcome, Open, TypeOK, LockInv,
            Shapes
    <2>3. Shapes'
        BY <1>1, <2>m, SMTT(30) DEF IInv, Tell, Settled, Outcome, Open, TypeOK, LockInv,
            Shapes
    <2>4. RoundInv'
        BY <1>1, <2>m, SMTT(30) DEF IInv, Tell, Settled, Outcome, Open, TypeOK, LockInv,
            Shapes, RoundInv, Owned, EveryRoundIsSettled
    <2>5. OnceInv'
        <3> SUFFICES ASSUME NEW x \in Requests PROVE Once(x)'  BY DEF OnceInv
        <3>1. /\ TypeOK /\ LockInv /\ Shapes /\ RoundInv
             /\ Once(x) /\ Agree(x) /\ Once(q) /\ Agree(q)
              BY <1>1 DEF IInv, OnceInv, AgreeInv
        <3>2. QED
              BY <1>1, <2>m, <3>1, SMTT(30) DEF Tell, Settled, Outcome, Open, TypeOK,
                  LockInv, Shapes, RoundInv, Owned, Once, Told, Unswept, Left
    <2>6. AgreeInv'
        <3> SUFFICES ASSUME NEW x \in Requests PROVE Agree(x)'  BY DEF AgreeInv
        <3>1. /\ TypeOK /\ LockInv /\ Shapes /\ RoundInv
             /\ Once(x) /\ Agree(x) /\ Once(q) /\ Agree(q)
              BY <1>1 DEF IInv, OnceInv, AgreeInv
        <3>2. QED
              BY <1>1, <2>m, <3>1, SMTT(30) DEF Tell, Settled, Outcome, Open, TypeOK,
                  LockInv, Shapes, RoundInv, Once, Told, Agree, Unswept, Left, Admissible
    <2>. QED BY <2>1, <2>2, <2>3, <2>4, <2>5, <2>6 DEF IInv
<1>2. ASSUME sweep[w].left = {}, SweepTo(w, IF sweep[w].kind = "stop" THEN "done" ELSE
                   "end", {}), settling' = IF w = "stopper" THEN Nobody ELSE settling,
                   UNCHANGED events
     PROVE  IInv'
    <2>. DEFINE place == IF sweep[w].kind = "stop" THEN "done" ELSE "end"
    <2>p. \/ place = "done" /\ sweep[w].kind = "stop"
          \/ place = "end" /\ sweep[w].kind # "stop"
          OBVIOUS
    <2>s. SweepTo(w, place, {})  BY <1>2
    <2>. HIDE DEF place
    <2>m. /\ sweep' \in [Sweepers -> Sweepings]
        /\ sweep'[w].at = place
        /\ sweep'[w].left = {}
        /\ \A v \in Sweepers : v # w => sweep'[v] = sweep[v]
        /\ sweep'[w].kind = sweep[w].kind
          BY <2>s, <2>p DEF SweepTo, TypeOK, Sweepings
    <2>1. TypeOK'
        BY <1>2, <2>m, <2>p, SMTT(30) DEF IInv, Tell, Settled, Outcome, Open, TypeOK,
            Places, Sweepings
    <2>2. LockInv'
        BY <1>2, <2>m, <2>p, SMTT(30) DEF IInv, Tell, Settled, Outcome, Open, TypeOK,
            LockInv, Shapes
    <2>3. Shapes'
        BY <1>2, <2>m, <2>p, SMTT(30) DEF IInv, Tell, Settled, Outcome, Open, TypeOK,
            LockInv, Shapes
    <2>4. RoundInv'
        BY <1>2, <2>m, <2>p, SMTT(30) DEF IInv, Tell, Settled, Outcome, Open, TypeOK,
            LockInv, Shapes, RoundInv, Owned, EveryRoundIsSettled
    <2>5. OnceInv'
        <3> SUFFICES ASSUME NEW x \in Requests PROVE Once(x)'  BY DEF OnceInv
        <3>1. /\ TypeOK /\ LockInv /\ Shapes /\ RoundInv
             /\ Once(x) /\ Agree(x)
              BY <1>2 DEF IInv, OnceInv, AgreeInv
        <3>2. QED
              BY <1>2, <2>m, <2>p, <3>1, SMTT(30) DEF Tell, Settled, Outcome, Open, TypeOK,
                  LockInv, Shapes, RoundInv, Owned, Once, Told, Unswept, Left
    <2>6. AgreeInv'
        <3> SUFFICES ASSUME NEW x \in Requests PROVE Agree(x)'  BY DEF AgreeInv
        <3>1. /\ TypeOK /\ LockInv /\ Shapes /\ RoundInv
             /\ Once(x) /\ Agree(x)
              BY <1>2 DEF IInv, OnceInv, AgreeInv
        <3>2. QED
              BY <1>2, <2>m, <2>p, <3>1, SMTT(30) DEF Tell, Settled, Outcome, Open, TypeOK,
                  LockInv, Shapes, RoundInv, Once, Told, Agree, Unswept, Left, Admissible
    <2>. QED BY <2>1, <2>2, <2>3, <2>4, <2>5, <2>6 DEF IInv
<1>. QED BY <1>1, <1>2 DEF Report

LEMMA SweepEndsKeeps ==
    ASSUME IInv, NEW w \in Sweepers, SweepEnds(w)
    PROVE  IInv'
<1>1. TypeOK'
  <2>1. sweep' \in [Sweepers -> Sweepings]
    <3>1. /\ Idle \in Sweepings
          /\ [sweep[w] EXCEPT !.at = "done"] \in Sweepings
          BY DEF IInv, TypeOK, Sweepings, Idle
    <3>2. /\ sweep \in [Sweepers -> Sweepings]
          /\ sweep' = [sweep EXCEPT ![w] = IF w = "handler" THEN Idle
                                           ELSE [sweep[w] EXCEPT !.at = "done"]]
          BY DEF IInv, TypeOK, SweepEnds
    <3>. HIDE DEF Sweepings, Idle
    <3>. QED BY <3>1, <3>2
  <2>2. /\ settling' \in Questions \cup Sweepers \cup {Nobody}
        /\ finishing' \in BOOLEAN /\ ended' \in BOOLEAN
        BY DEF IInv, TypeOK, SweepEnds
  <2>3. UNCHANGED <<at, out, entries, early, stopped, hostGone, events, outside>>
        BY DEF SweepEnds
  <2>. QED BY <2>1, <2>2, <2>3 DEF IInv, TypeOK, entries, events, outside
<1>2. LockInv'
    BY SMTT(30) DEF IInv, SweepEnds, Idle, TypeOK, LockInv, Shapes
<1>3. Shapes'
    BY SMTT(30) DEF IInv, SweepEnds, Idle, TypeOK, LockInv, Shapes
<1>4. RoundInv'
    BY SMTT(30) DEF IInv, SweepEnds, Idle, TypeOK, LockInv, Shapes, RoundInv, Owned,
        EveryRoundIsSettled, Open
<1>5. OnceInv'
    BY SMTT(30) DEF IInv, SweepEnds, Idle, TypeOK, LockInv, Shapes, RoundInv, Owned, OnceInv,
        Once,
        Told, Unswept, Left
<1>6. AgreeInv'
    BY SMTT(30) DEF IInv, SweepEnds, Idle, TypeOK, LockInv, Shapes, RoundInv, OnceInv, Once,
        Told,
        AgreeInv, Agree, Unswept, Left, Admissible
<1>. QED BY <1>1, <1>2, <1>3, <1>4, <1>5, <1>6 DEF IInv

-----------------------------------------------------------------------------
(* serverRequest/resolved.                                                 *)

LEMMA WithdrawKeeps ==
    ASSUME IInv, NEW r \in Requests, Withdraw(r)
    PROVE  IInv'
<1>1. TypeOK'
    BY SMTT(30) DEF IInv, Withdraw, Sent, TypeOK, Places, Sweepings
<1>2. LockInv'
    BY SMTT(30) DEF IInv, Withdraw, Sent, TypeOK, LockInv, Shapes
<1>3. Shapes'
    BY SMTT(30) DEF IInv, Withdraw, Sent, TypeOK, LockInv, Shapes
<1>4. RoundInv'
    BY SMTT(30) DEF IInv, Withdraw, Sent, TypeOK, LockInv, Shapes, RoundInv, Owned,
        EveryRoundIsSettled, Open
<1>5. OnceInv'
    BY SMTT(30) DEF IInv, Withdraw, Sent, TypeOK, LockInv, Shapes, RoundInv, Owned, OnceInv,
        Once,
        Told, Unswept, Left
<1>6. AgreeInv'
    <2> SUFFICES ASSUME NEW x \in Requests PROVE Agree(x)'  BY DEF AgreeInv
    <2>1. TypeOK /\ LockInv /\ Shapes /\ RoundInv /\ Once(x) /\ Agree(x) /\ Once(r) /\ Agree(r)
          BY SMTT(30) DEF IInv, OnceInv, AgreeInv
    <2>2. QED
          BY <2>1, SMTT(20) DEF Withdraw, Sent, TypeOK, LockInv, Shapes, RoundInv, Once,
              Told, Agree, Unswept, Left, Admissible
<1>. QED BY <1>1, <1>2, <1>3, <1>4, <1>5, <1>6 DEF IInv

LEMMA WithdrawFindsKeeps ==
    ASSUME IInv, WithdrawFinds
    PROVE  IInv'
<1>. DEFINE found == sweep["handler"].left \cap pending \cap Questions
            place == IF found = {} THEN "mark" ELSE "tell"
            lock == IF found = {} THEN Nobody ELSE "handler"
<1>1. PICK r \in Requests : sweep["handler"].left = {r}
    BY SMTT(30) DEF IInv, Shapes, WithdrawFinds
<1>2. \/ r \in pending \cap Questions /\ place = "tell" /\ lock = "handler"
          /\ pending' = pending \ {r}
      \/ r \notin pending \cap Questions /\ place = "mark" /\ lock = Nobody
          /\ pending' = pending
    BY <1>1 DEF WithdrawFinds
<1>3. /\ settling' = lock /\ settling = Nobody /\ sweep["handler"].at = "find"
      /\ UNCHANGED <<at, out, taken, box, settlement, early, turn, events, outside>>
    BY DEF WithdrawFinds, Free
<1>4. sweep' = [sweep EXCEPT !["handler"].at = place]
    BY DEF WithdrawFinds
<1>. HIDE DEF found, place, lock
<1>5. /\ sweep' \in [Sweepers -> Sweepings]
      /\ sweep'["handler"].at = place /\ sweep'["handler"].left = {r}
      /\ sweep'["handler"].kind = sweep["handler"].kind
      /\ \A v \in Sweepers : v # "handler" => sweep'[v] = sweep[v]
    BY <1>1, <1>2, <1>4 DEF IInv, TypeOK, Sweepings
<1>6. TypeOK'
    BY <1>1, <1>2, <1>3, <1>5, SMTT(30) DEF IInv, TypeOK, Places, Sweepings
<1>7. LockInv'
    BY <1>1, <1>2, <1>3, <1>5, SMTT(30) DEF IInv, TypeOK, LockInv, Shapes
<1>8. Shapes'
    BY <1>1, <1>2, <1>3, <1>5, SMTT(30) DEF IInv, TypeOK, LockInv, Shapes
<1>9. RoundInv'
    BY <1>1, <1>2, <1>3, <1>5, SMTT(30) DEF IInv, TypeOK, LockInv, Shapes, RoundInv, Owned,
        EveryRoundIsSettled, Open
<1>10. OnceInv'
    <2> SUFFICES ASSUME NEW x \in Requests PROVE Once(x)'  BY DEF OnceInv
    <2>1. TypeOK /\ LockInv /\ Shapes /\ RoundInv /\ Once(x) /\ Agree(x) /\ Once(r) /\ Agree(r)
          BY SMTT(30) DEF IInv, OnceInv, AgreeInv
    <2>2. QED
          BY <1>1, <1>2, <1>3, <1>5, <2>1, SMTT(30) DEF TypeOK, LockInv, Shapes, RoundInv,
              Owned, Once, Told, Unswept, Left
<1>11. AgreeInv'
    <2> SUFFICES ASSUME NEW x \in Requests PROVE Agree(x)'  BY DEF AgreeInv
    <2>1. TypeOK /\ LockInv /\ Shapes /\ RoundInv /\ Once(x) /\ Agree(x) /\ Once(r) /\ Agree(r)
          BY SMTT(30) DEF IInv, OnceInv, AgreeInv
    <2>2. QED
          BY <1>1, <1>2, <1>3, <1>5, <2>1, SMTT(30) DEF TypeOK, LockInv, Shapes, RoundInv,
              Once, Told, Agree, Unswept, Left, Admissible
<1>. QED BY <1>6, <1>7, <1>8, <1>9, <1>10, <1>11 DEF IInv

LEMMA WithdrawTellsKeeps ==
    ASSUME IInv, WithdrawTells
    PROVE  IInv'
<1>1. PICK q \in Requests : sweep["handler"].left = {q}
    BY SMTT(30) DEF IInv, Shapes, WithdrawTells
<1>2. /\ q \in Questions
      /\ sweep["handler"].at = "tell" /\ settling = "handler"
      /\ settling' = Nobody
      /\ box' = Sent({q}, "server")
      /\ IF q \in shown THEN Tell(q, Settled(q)) ELSE UNCHANGED events
      /\ UNCHANGED <<at, out, pending, taken, settlement, early, turn, outside>>
    BY <1>1 DEF WithdrawTells, IInv, Shapes, LockInv
<1>3. /\ sweep' \in [Sweepers -> Sweepings]
      /\ sweep'["handler"] = Idle
      /\ \A v \in Sweepers : v # "handler" => sweep'[v] = sweep[v]
    BY DEF WithdrawTells, IInv, TypeOK, Sweepings, Idle
<1>4. /\ box' \in [Requests -> Choices \cup {"empty", "drained", "server"}]
      /\ \A r \in Requests : r # q => box'[r] = box[r]
    BY <1>1, <1>2 DEF Sent, IInv, TypeOK
<1>5. /\ shown' = shown \ {q}
      /\ resolved' \in [Requests -> Nat]
      /\ said' \in [Requests -> Choices \cup {"none"}]
    BY <1>1, <1>2 DEF Tell, Outcome, Settled, IInv, TypeOK, RoundInv, EveryRoundIsSettled
<1>6. TypeOK'
    BY <1>1, <1>2, <1>3, <1>4, <1>5, SMTT(30) DEF IInv, Tell, Settled, Outcome, Open, Sent,
        Idle, TypeOK, Places, Sweepings
<1>7. LockInv'
    BY <1>1, <1>2, <1>3, <1>4, <1>5, SMTT(30) DEF IInv, Tell, Settled, Outcome, Open, Sent,
        Idle, TypeOK, LockInv, Shapes
<1>8. Shapes'
    BY <1>1, <1>2, <1>3, <1>4, <1>5, SMTT(30) DEF IInv, Tell, Settled, Outcome, Open, Sent,
        Idle, TypeOK, LockInv, Shapes
<1>9. RoundInv'
    BY <1>1, <1>2, <1>3, <1>4, <1>5, SMTT(30) DEF IInv, Tell, Settled, Outcome, Open, Sent,
        Idle, TypeOK, LockInv, Shapes, RoundInv, Owned, EveryRoundIsSettled
<1>10. OnceInv'
    <2> SUFFICES ASSUME NEW x \in Requests PROVE Once(x)'  BY DEF OnceInv
    <2>1. TypeOK /\ LockInv /\ Shapes /\ RoundInv /\ Once(x) /\ Agree(x) /\ Once(q) /\ Agree(q)
          BY SMTT(30) DEF IInv, OnceInv, AgreeInv
    <2>2. QED
          BY <1>1, <1>2, <1>3, <1>4, <1>5, <2>1, SMTT(30) DEF Tell, Settled, Outcome, Open,
              Sent, Idle, TypeOK, LockInv, Shapes, RoundInv, Owned, Once, Told, Unswept,
              Left
<1>11. AgreeInv'
    <2> SUFFICES ASSUME NEW x \in Requests PROVE Agree(x)'  BY DEF AgreeInv
    <2>1. TypeOK /\ LockInv /\ Shapes /\ RoundInv /\ Once(x) /\ Agree(x) /\ Once(q) /\ Agree(q)
          BY SMTT(30) DEF IInv, OnceInv, AgreeInv
    <2>2. QED
          BY <1>1, <1>2, <1>3, <1>4, <1>5, <2>1, SMTT(30) DEF Tell, Settled, Outcome, Open,
              Sent, Idle, TypeOK, LockInv, Shapes, RoundInv, Once, Told, Agree, Unswept,
              Left, Admissible
<1>. QED BY <1>6, <1>7, <1>8, <1>9, <1>10, <1>11 DEF IInv

LEMMA WithdrawMarksKeeps ==
    ASSUME IInv, WithdrawMarks
    PROVE  IInv'
<1>1. TypeOK'
    BY SMTT(30) DEF IInv, WithdrawMarks, Idle, TypeOK, Places, Sweepings
<1>2. LockInv'
    BY SMTT(30) DEF IInv, WithdrawMarks, Idle, TypeOK, LockInv, Shapes
<1>3. Shapes'
    BY SMTT(30) DEF IInv, WithdrawMarks, Idle, TypeOK, LockInv, Shapes
<1>4. RoundInv'
    BY SMTT(30) DEF IInv, WithdrawMarks, Idle, TypeOK, LockInv, Shapes, RoundInv, Owned,
        EveryRoundIsSettled, Open
<1>5. OnceInv'
    BY SMTT(30) DEF IInv, WithdrawMarks, Idle, TypeOK, LockInv, Shapes, RoundInv, Owned,
        OnceInv,
        Once, Told, Unswept, Left
<1>6. AgreeInv'
    BY SMTT(30) DEF IInv, WithdrawMarks, Idle, TypeOK, LockInv, Shapes, RoundInv, OnceInv, Once,
        Told, AgreeInv, Agree, Unswept, Left, Admissible
<1>. QED BY <1>1, <1>2, <1>3, <1>4, <1>5, <1>6 DEF IInv

-----------------------------------------------------------------------------
(* The invariant holds at the start and is kept by every step.             *)

LEMMA InitHolds == Init => IInv
<1>. SUFFICES ASSUME Init PROVE IInv
  OBVIOUS
<1>1. TypeOK
  BY DEF Init, TypeOK, Places, Sweepings, Idle
<1>2. LockInv /\ Shapes /\ RoundInv
  BY DEF Init, LockInv, Shapes, RoundInv, EveryRoundIsSettled, Idle, Open
<1>3. OnceInv
  BY DEF Init, OnceInv, Once, Told, Unswept, Left, Idle
<1>4. AgreeInv
  BY DEF Init, AgreeInv, Agree, Unswept, Left, Idle
<1>. QED BY <1>1, <1>2, <1>3, <1>4 DEF IInv

LEMMA QuietKeeps ==
    ASSUME IInv, UNCHANGED vars
    PROVE  IInv'
<1>1. TypeOK' /\ LockInv' /\ Shapes' /\ RoundInv'
  BY SMTT(30) DEF IInv, vars, TypeOK, LockInv, Shapes, RoundInv, Owned, EveryRoundIsSettled,
      Open
<1>2. OnceInv'
  BY SMTT(30) DEF IInv, vars, OnceInv, Once, Told, Unswept, Left
<1>3. AgreeInv'
  BY SMTT(30) DEF IInv, vars, AgreeInv, Agree, Unswept, Left, Admissible
<1>. QED BY <1>1, <1>2, <1>3 DEF IInv

LEMMA Inductive == IInv /\ [Next]_vars => IInv'
<1>. SUFFICES ASSUME IInv, [Next]_vars PROVE IInv'
  OBVIOUS
<1>1. ASSUME NEW r \in Requests, Tasks(r) \/ DeadlinePasses(r) \/ Withdraw(r)
      PROVE  IInv'
  BY <1>1, AdmitKeeps, RegisterKeeps, RecheckKeeps, RetractKeeps, EarlyKeeps,
      WithdrawnKeeps, ShowKeeps, WaitKeeps, PublishKeeps, DeadlinePassesKeeps,
      WithdrawKeeps DEF Tasks
<1>2. ASSUME NEW p \in Approvals,
             ApprovalTasks(p) \/ RespondTakes(p) \/ RespondSends(p) \/ RespondPutsBack(p)
      PROVE  IInv'
  BY <1>2, LookKeeps, AskKeeps, ExpireKeeps, LateKeeps, BrokeredKeeps, TakeApprovalKeeps,
      SettleApprovalKeeps, RespondTakesKeeps, RespondSendsKeeps, RespondPutsBackKeeps DEF
      ApprovalTasks
<1>3. ASSUME NEW q \in Questions, QuestionTasks(q) \/ AnswerRound(q)
      PROVE  IInv'
  BY <1>3, AnnounceKeeps, CheckKeeps, TakeRoundKeeps, SettleRoundKeeps, AnswerRoundKeeps
      DEF QuestionTasks
<1>4. CASE HostLeaves \/ StopBegins \/ CloseBegins \/ HandlerEnds
  BY <1>4, HostLeavesKeeps, StopBeginsKeeps, CloseBeginsKeeps, HandlerEndsKeeps
<1>5. ASSUME NEW w \in Sweepers, Sweeps(w) PROVE IInv'
  BY <1>5, SweepApprovalsKeeps, AuditKeeps, SweepLocksKeeps, SweepRoundsKeeps, ReportKeeps,
      SweepEndsKeeps DEF Sweeps
<1>6. CASE Withdrawals
  BY <1>6, WithdrawFindsKeeps, WithdrawTellsKeeps, WithdrawMarksKeeps DEF Withdrawals
<1>. QED BY <1>1, <1>2, <1>3, <1>4, <1>5, <1>6, QuietKeeps DEF Next

LEMMA Invariance == Spec => []IInv
BY InitHolds, Inductive, PTL DEF Spec

-----------------------------------------------------------------------------
\* Every variable keeps the type the module declares for it.
THEOREM TypeCorrect == Spec => []TypeOK
<1>1. IInv => TypeOK
  BY DEF IInv
<1>. QED BY <1>1, Invariance, PTL

\* Whoever ends the turn, and whatever a round's task, the host's answer and
\* the server's withdrawal are doing then, a round of questions the host was
\* shown is closed before the stream takes its end.
THEOREM EveryRoundIsSettledHolds == Spec => []EveryRoundIsSettled
<1>1. IInv => EveryRoundIsSettled
  BY SMTT(30) DEF IInv, RoundInv
<1>. QED BY <1>1, Invariance, PTL

\* However the host, the broker, the deadline, the server and the releases
\* race, one of them at most reports an interaction resolved.
THEOREM ResolvedOnceHolds == Spec => []ResolvedOnce
<1>1. IInv => ResolvedOnce
  BY SMTT(30) DEF IInv, OnceInv, Once, ResolvedOnce
<1>. QED BY <1>1, Invariance, PTL

\* The host reads of an interaction what the server was answered, and what was
\* accepted from the host is that answer unless the turn was stopped.
THEOREM HostAndServerAgreeHolds == Spec => []HostAndServerAgree
<1>1. ASSUME IInv, NEW r \in Requests
      PROVE  /\ said[r] # "none" /\ out[r] # "none" => (said[r] = "grant") = (out[r] = "grant")
             /\ accepted[r] # "none" /\ at[r] = "done" /\ Admissible => out[r] = accepted[r]
  <2>1. Agree(r) /\ said[r] \in Choices \cup {"none"} /\ r \in Approvals \cup Questions
    BY <1>1 DEF IInv, AgreeInv, TypeOK
  <2>. QED BY <2>1 DEF Agree
<1>2. IInv => HostAndServerAgree
  BY <1>1 DEF HostAndServerAgree
<1>. QED BY <1>2, Invariance, PTL
=============================================================================
