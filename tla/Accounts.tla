------------------------------ MODULE Accounts ------------------------------
(***************************************************************************)
(* Accounts, and the sessions of the web application.  The API looks users *)
(* up by e-mail through a cache that also remembers that there is none, at *)
(* every sign-in and for every request with a token.  The web application  *)
(* keeps the token in a cookie; its home page signs in to the demo account *)
(* on its own, to show that account's figures.                             *)
(*                                                                         *)
(* One e-mail, whose password is right, one browser with several tabs, one *)
(* server of the web application.  A lookup is a read and a store; the     *)
(* lock that keeps lookups apart, and expires, is in RedisCache.           *)
(* An X_Y before an X is a mutation of X.                                  *)
(***************************************************************************)
EXTENDS Integers

CONSTANTS
    Forms,       \* registrations and sign-ins that can be under way at once
    Home,        \* the sign-in of the home page
    MaxFailures  \* bound: how many of them and of the pages that load fail,
                 \* or lose their answer

ASSUME AccountsAssumption ==
    /\ MaxFailures \in Nat
    /\ Home \notin Forms /\ "call" \notin Forms \union {Home}

VARIABLES
    account,  \* whether the row is in users
    entry,    \* userByEmail in Redis: "none", "absent" or "user"
    form,     \* [step, lost] of each form; lost: its page has gone
    call,     \* [step, old] of a page that is loading, see Send
    read,     \* what the lookups of the forms and of "call" read
    cookie,   \* of the browser: "none", "valid" or "expired"
    shown,    \* showcaseCache: "none", "blank" or "figures"
    failures  \* failures so far

users       == <<account, entry, read>>
accountVars == <<users, form, call, cookie, shown, failures>>

SignIns == Forms \union {Home}
Lookups == SignIns \union {"call"}
Unsent == [step |-> "idle", lost |-> FALSE]
Over == [step |-> "idle", old |-> FALSE]

AccountsInit ==
    /\ account  = FALSE
    /\ entry    = "none"
    /\ form     = [f \in SignIns |-> Unsent]
    /\ call     = Over
    /\ read     = [x \in Lookups |-> "absent"]
    /\ cookie   = "none"
    /\ shown    = "none"
    /\ failures = 0

-----------------------------------------------------------------------------
(* Users: the table, and the cache in front of it.                         *)

Row == IF account THEN "user" ELSE "absent"

(* findOneByEmail for x.  A hit is an answer; after a miss the row is read *)
(* and stored, or only read by one that has waited for another in vain,    *)
(* whatever has been stored since the miss.                                *)
FindOneByEmail_Failure(x, found, missed) ==
    \/ /\ entry # "none"
       /\ read' = [read EXCEPT ![x] = entry]
       /\ found
    \/ /\ read' = [read EXCEPT ![x] = Row]
       /\ found \/ missed
    \/ missed /\ UNCHANGED read
FindOneByEmail(x, found, missed) ==
    \/ /\ entry # "none"
       /\ read' = [read EXCEPT ![x] = entry]
       /\ found
    \/ /\ read' = [read EXCEPT ![x] = Row]
       /\ found \/ missed

EntryExpires_Never ==
    /\ entry = "user"
    /\ entry' = "none"
    /\ UNCHANGED <<account, read, form, call, cookie, shown, failures>>
EntryExpires ==
    /\ entry # "none"
    /\ entry' = "none"
    /\ UNCHANGED <<account, read, form, call, cookie, shown, failures>>

(* The demo seed writes the user without a word to Redis.                  *)
Seed ==
    /\ ~account
    /\ account' = TRUE
    /\ UNCHANGED <<entry, read, form, call, cookie, shown, failures>>

-----------------------------------------------------------------------------
(* Forms, of a person or of the home page itself.                          *)

At(f, s)   == form[f].step = s
Goes(f, s) == form' = [form EXCEPT ![f].step = s]

Open(f, s) ==
    /\ At(f, "idle")
    /\ Goes(f, s)
    /\ UNCHANGED <<users, call, cookie, shown, failures>>

(* The pages of both forms send who has a session away.                    *)
Register(f) == cookie # "valid" /\ Open(f, "create")
SignIn(f)   == cookie # "valid" /\ Open(f, "find")

(* The home page's figures, with any visitor: kept for a minute.           *)
FetchShowcase == shown = "none" /\ Open(Home, "find")

ShowcaseExpires_IfFigures ==
    /\ shown = "figures"
    /\ shown' = "none"
    /\ UNCHANGED <<users, form, call, cookie, failures>>
ShowcaseExpires ==
    /\ shown # "none"
    /\ shown' = "none"
    /\ UNCHANGED <<users, form, call, cookie, failures>>

(* UsersService.create; with an e-mail that is taken the form ends, else   *)
(* the web application goes on to sign in, even if the page has gone.      *)
CreateUser(f) ==
    /\ At(f, "create")
    /\ account' = TRUE
    /\ form' = [form EXCEPT ![f] = IF account THEN Unsent
                                   ELSE [@ EXCEPT !.step = "find"]]
    /\ UNCHANGED <<entry, read, call, cookie, shown, failures>>

(* validateUser                                                            *)
ValidateUser(f) ==
    /\ At(f, "find")
    /\ FindOneByEmail(f, Goes(f, "compare"), Goes(f, "store"))
    /\ UNCHANGED <<account, entry, call, cookie, shown, failures>>

StoreForm(f) ==
    /\ At(f, "store")
    /\ entry' = read[f]
    /\ Goes(f, "compare")
    /\ UNCHANGED <<account, read, call, cookie, shown, failures>>

Ends(f) ==
    /\ form' = [form EXCEPT ![f] = Unsent]
    /\ read' = [read EXCEPT ![f] = "absent"]

(* The token goes into the cookie, or fetches the figures; cookie and      *)
(* showcaseCache are whatever was written last.                            *)
SignedIn(f) ==
    /\ At(f, "compare") /\ read[f] = "user"
    /\ cookie' = IF f \in Forms /\ ~form[f].lost THEN "valid" ELSE cookie
    /\ shown'  = IF f = Home /\ ~form[f].lost THEN "figures" ELSE shown
    /\ Ends(f)
    /\ UNCHANGED <<account, entry, call, failures>>

Blank(f) == shown' = IF f = Home /\ ~form[f].lost THEN "blank" ELSE shown

Refused(f) ==
    /\ At(f, "compare") /\ read[f] = "absent"
    /\ Blank(f)
    /\ Ends(f)
    /\ UNCHANGED <<account, entry, call, cookie, failures>>

Counted == failures < MaxFailures /\ failures' = failures + 1

(* An exception on the API.                                                *)
Crash(f) ==
    /\ ~At(f, "idle") /\ Counted
    /\ Blank(f)
    /\ Ends(f)
    /\ UNCHANGED <<account, entry, call, cookie>>

(* A page that is closed, a showcase that was aborted after 2.5 s: the API *)
(* goes on.                                                                *)
Leave(f) ==
    /\ ~At(f, "idle") /\ ~form[f].lost /\ Counted
    /\ form' = [form EXCEPT ![f].lost = TRUE]
    /\ Blank(f)
    /\ UNCHANGED <<users, call, cookie>>

-----------------------------------------------------------------------------
(* Pages: handle, api() and JwtStrategy.                                   *)

page == <<account, form, shown, failures>>

(* A page is loaded with the token in the cookie of that moment, which is  *)
(* old once it has expired.                                                *)
Send ==
    /\ call.step = "idle" /\ cookie = "valid"
    /\ call' = [step |-> "find", old |-> FALSE]
    /\ UNCHANGED <<page, entry, read, cookie>>

ValidateToken ==
    /\ call.step = "find" /\ ~call.old
    /\ FindOneByEmail("call", call' = [call EXCEPT !.step = "answer"],
                              call' = [call EXCEPT !.step = "store"])
    /\ UNCHANGED <<page, entry, cookie>>

StoreCall ==
    /\ call.step = "store"
    /\ entry' = read["call"]
    /\ call' = [call EXCEPT !.step = "answer"]
    /\ UNCHANGED <<page, read, cookie>>

CallEnds == call' = Over /\ read' = [read EXCEPT !["call"] = "absent"]

Loaded ==
    /\ call.step = "answer" /\ read["call"] = "user"
    /\ CallEnds
    /\ UNCHANGED <<page, entry, cookie>>

(* An exception on the API, or none reached: an error page, and the cookie *)
(* stays.                                                                  *)
CallFails ==
    /\ call.step # "idle" /\ Counted
    /\ CallEnds
    /\ UNCHANGED <<account, form, shown, entry, cookie>>

(* A 401 deletes the cookie, whichever it is by now.                       *)
Unauthorized ==
    /\ \/ call.step = "find" /\ call.old
       \/ call.step = "answer" /\ read["call"] = "absent"
    /\ cookie' = "none"
    /\ CallEnds
    /\ UNCHANGED <<page, entry>>

CookieExpires ==
    /\ cookie = "valid"
    /\ cookie' = "expired"
    /\ call' = [call EXCEPT !.old = call.step # "idle"]
    /\ UNCHANGED <<page, entry, read>>

(* A cookie with an expired token is deleted by any request.               *)
Handle ==
    /\ cookie = "expired"
    /\ cookie' = "none"
    /\ UNCHANGED <<page, entry, read, call>>

SignOut ==
    /\ cookie = "valid"
    /\ cookie' = "none"
    /\ UNCHANGED <<page, entry, read, call>>

-----------------------------------------------------------------------------

FormStep(f) ==
    \/ CreateUser(f) \/ ValidateUser(f) \/ StoreForm(f)
    \/ SignedIn(f) \/ Refused(f)

CallStep == ValidateToken \/ StoreCall \/ Loaded \/ Unauthorized

AccountsNext ==
    \/ \E f \in Forms : Register(f) \/ SignIn(f)
    \/ FetchShowcase \/ ShowcaseExpires
    \/ \E f \in SignIns : FormStep(f) \/ Crash(f) \/ Leave(f)
    \/ Send \/ CallStep \/ CallFails \/ CookieExpires \/ Handle \/ SignOut
    \/ Seed \/ EntryExpires

AccountsSpec == AccountsInit /\ [][AccountsNext]_accountVars

(* What is under way on the API ends, the hour and the minute pass, and    *)
(* the home page goes on having visitors.                                  *)
FairAccounts ==
    /\ AccountsSpec
    /\ \A f \in SignIns : WF_accountVars(FormStep(f))
    /\ WF_accountVars(CallStep)
    /\ WF_accountVars(EntryExpires) /\ WF_accountVars(ShowcaseExpires)
    /\ WF_accountVars(FetchShowcase)

-----------------------------------------------------------------------------
(* Properties.                                                             *)

(* Forms and pages that are under way.                                     *)
Moving  == [step : {"create", "find", "store", "compare"}, lost : BOOLEAN]
Loading == [step : {"find", "store", "answer"}, old : BOOLEAN]

(* Every variable keeps its type; only a page that loads has a token that  *)
(* can be old.                                                             *)
AccountsTypeOK ==
    /\ account \in BOOLEAN
    /\ entry \in {"none", "absent", "user"}
    /\ form \in [SignIns -> {Unsent} \union Moving]
    /\ call \in {Over} \union Loading
    /\ read \in [Lookups -> {"absent", "user"}]
    /\ cookie \in {"none", "valid", "expired"}
    /\ shown \in {"none", "blank", "figures"}
    /\ failures \in 0 .. MaxFailures

(* Who has an account is let in from some moment on, whatever was cached   *)
(* before they registered and by whom.                                     *)
WhoRegisteredIsKnown ==
    account ~> [](\A f \in SignIns : At(f, "compare") => read[f] = "user")

(* Lookup x: its step, and whether it has an answer.                       *)
StepOf(x) == IF x = "call" THEN call.step ELSE form[x].step
Knows(x)  == StepOf(x) \in {"store", "compare", "answer"}

(* Who has been told that there is no such user, and what another lookup   *)
(* could be told that by.                                                  *)
Doubts == {x \in Lookups : Knows(x) /\ read[x] = "absent"}
Source == entry = "absent" \/ \E x \in Doubts : StepOf(x) = "store"

(* An absence that was read before the account was created dies out: once  *)
(* it is neither cached nor about to be, it is never cached again, and     *)
(* nobody else is told of it.                                              *)
AbsenceIsForgotten ==
    [][account /\ ~Source => ~Source' /\ Doubts' \subseteq Doubts]_accountVars

Stage(x) ==
    IF StepOf(x) = "find" THEN "asked"
    ELSE IF StepOf(x) = "store" THEN "loaded"
    ELSE IF Knows(x) THEN "ended" ELSE "away"

(* A lookup as a get, which fails where the API throws.                    *)
UserByEmail == INSTANCE CacheAside WITH
    Readers <- Lookups,
    None    <- "none",
    row     <- Row,
    kept    <- entry,
    at      <- [x \in Lookups |-> Stage(x)],
    value   <- [x \in Lookups |-> IF Knows(x) THEN read[x] ELSE "none"]

(* The lookups here take no more than a get offers: a reader's value is    *)
(* what is kept or the row, and it keeps nothing but a row it has loaded.  *)
LooksUpThroughTheCache == UserByEmail!AsideSpec

(* The home page shows the demo account's figures again and again, once    *)
(* there is one: blanks are kept for a minute only.                        *)
FiguresComeUp == account ~> shown = "figures"
=============================================================================
