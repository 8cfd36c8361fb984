---------------------------- MODULE ProjectCreation ----------------------------
(***************************************************************************)
(* One person creates projects, from the dialog of the web page and from   *)
(* scripts that call the same endpoint.  A POST carries a request id, so   *)
(* that one whose answer was lost can be repeated while the first is still *)
(* running.  The server holds an advisory lock per request id from the     *)
(* lookup of an earlier creation to the commit.                            *)
(***************************************************************************)
EXTENDS Integers

CONSTANTS
  Posts,           \* the HTTP requests; a project is named by the one that created it
  NoPost,
  Names,           \* trimmed, not empty, at most 200 characters for the page
  Unacceptable,    \* those of them that are blank for the server
  Requests,        \* request ids the page may draw
  ScriptRequests,  \* request ids of scripts, which may reuse one for anything
  MaxSessions      \* bound on reloads of the page

ASSUME CreationAssumption ==
  /\ NoPost \notin Posts
  /\ Names # {} /\ Unacceptable \subseteq Names
  /\ Requests # {}
  /\ Requests \cap ScriptRequests = {}
  /\ MaxSessions \in Nat

VARIABLES
  session,    \* [number, alive]: the page's session generation
  attempt,    \* the page's createAttempts entry for that session
  posts,      \* every POST, where it is and what it was answered
  lock,       \* who holds the advisory lock of a request id
  projects,   \* the project rows, with their group and creator
  creations   \* the project_creation_request rows

creationVars == <<session, attempt, posts, lock, projects, creations>>

AllRequests == Requests \cup ScriptRequests

\* opening: answered, the list of projects is being refreshed
Attempt == [state   : {"none", "pending", "uncertain", "refused", "opening"},
            name    : Names, request : Requests, intent : Posts \cup {NoPost}]

NoAttempt == [state |-> "none", name |-> CHOOSE n \in Names : TRUE,
              request |-> CHOOSE r \in Requests : TRUE, intent |-> NoPost]

\* intent: the first POST for what the user set out to create; none for a script's
Post == [pc      : {"unused", "sent", "locked", "creating", "answered"},
         name    : Names, request : AllRequests, intent : Posts \cup {NoPost},
         session : Nat,
         waiting : BOOLEAN,   \* somebody still waits for the answer
         answer  : {"none", "created", "refused", "failed"},
         project : Posts \cup {NoPost}]

Unused == [pc |-> "unused", name |-> CHOOSE n \in Names : TRUE,
           request |-> CHOOSE r \in AllRequests : TRUE, intent |-> NoPost,
           session |-> 0,
           waiting |-> FALSE, answer |-> "none", project |-> NoPost]

CreationTypeOK ==
  /\ session \in [number : Nat, alive : BOOLEAN]
  /\ attempt \in Attempt
  /\ posts \in [Posts -> Post]
  /\ lock \in [AllRequests -> Posts \cup {NoPost}]
  /\ projects \in SUBSET [id : Posts, name : Names]
  /\ creations \in SUBSET [request : AllRequests, name : Names, project : Posts]

CreationInit ==
  /\ session = [number |-> 1, alive |-> TRUE]
  /\ attempt = NoAttempt
  /\ posts = [p \in Posts |-> Unused]
  /\ lock = [r \in AllRequests |-> NoPost]
  /\ projects = {}
  /\ creations = {}

----------------------------------------------------------------------------
(* The page.                                                               *)
Fresh(r) == r \in Requests /\ \A p \in Posts : posts[p].pc # "unused" => posts[p].request # r

Sent(p, name, request, intent) ==
  posts' = [posts EXCEPT ![p] =
    [Unused EXCEPT !.pc = "sent", !.name = name, !.request = request, !.intent = intent,
                   !.session = session.number, !.waiting = intent # NoPost]]

Pending(name, request, intent) ==
  attempt' = [state |-> "pending", name |-> name, request |-> request, intent |-> intent]

(* The form: a refused name may be sent again, another one is a new        *)
(* attempt.                                                                *)
SubmitAgain(p) ==
  /\ attempt.state = "refused"
  /\ Sent(p, attempt.name, attempt.request, attempt.intent)
  /\ Pending(attempt.name, attempt.request, attempt.intent)

SubmitNew(p, name, request) ==
  /\ attempt.state \in {"none", "refused"}
  /\ attempt.state = "refused" => name # attempt.name
  /\ Fresh(request)
  /\ Sent(p, name, request, p)
  /\ Pending(name, request, p)

(* "Check the same request", the only way on from an uncertain attempt.    *)
(* Mutant: it draws a new id.                                              *)
RequestRedrawn(request) == Fresh(request)

RequestKept(request) == request = attempt.request

Check(p, request) ==
  /\ attempt.state = "uncertain"
  /\ RequestKept(request)
  /\ Sent(p, attempt.name, request, attempt.intent)
  /\ Pending(attempt.name, request, attempt.intent)

PagePosts(p) ==
  /\ posts[p].pc = "unused"
  /\ session.alive
  /\ \/ SubmitAgain(p)
     \/ \E name \in Names, request \in Requests : SubmitNew(p, name, request)
     \/ \E request \in Requests : Check(p, request)
  /\ UNCHANGED <<session, lock, projects, creations>>

(* A script repeats a request id at will, for other names too.             *)
ScriptPosts(p, name, request) ==
  /\ posts[p].pc = "unused"
  /\ Sent(p, name, request, NoPost)
  /\ UNCHANGED <<session, attempt, lock, projects, creations>>

----------------------------------------------------------------------------
(* What the page makes of an answer: 400 and 409 are definitive.           *)
Settled(answer) ==
  CASE answer = "created" -> "opening"
    [] answer = "refused" -> "refused"
    [] OTHER -> "uncertain"

(* onError and onSuccess do nothing once their session is over.            *)
Settle(p, answer) ==
  /\ posts[p].waiting
  /\ posts' = [posts EXCEPT ![p].waiting = FALSE]
  /\ attempt' = IF session.alive /\ posts[p].session = session.number
                THEN [attempt EXCEPT !.state = Settled(answer)] ELSE attempt
  /\ UNCHANGED <<session, lock, projects, creations>>

Receive(p) == posts[p].pc = "answered" /\ Settle(p, posts[p].answer)

(* The connection breaks; the server, if it got the request, goes on.      *)
AnswerLost(p) == Settle(p, "none")

(* The list is refreshed, the attempt forgotten, the project opened.       *)
OpenProject ==
  /\ attempt.state = "opening" /\ session.alive
  /\ attempt' = NoAttempt
  /\ UNCHANGED <<session, posts, lock, projects, creations>>

SessionEnds ==
  /\ session.alive
  /\ session' = [session EXCEPT !.alive = FALSE]
  /\ UNCHANGED <<attempt, posts, lock, projects, creations>>

(* Login loads the page anew; resetAccessState forgets the attempts.       *)
Reload ==
  /\ ~session.alive /\ session.number < MaxSessions
  /\ session' = [number |-> session.number + 1, alive |-> TRUE]
  /\ attempt' = NoAttempt
  /\ UNCHANGED <<posts, lock, projects, creations>>

----------------------------------------------------------------------------
(* ProjectController.create.                                               *)
Prior(p) == {c \in creations : c.request = posts[p].request}

(* A transaction's end releases its advisory lock.                         *)
Unlock(p) ==
  lock' = [r \in AllRequests |-> IF lock[r] = p THEN NoPost ELSE lock[r]]

Answered(p, answer, project) ==
  posts' = [posts EXCEPT ![p] =
              [@ EXCEPT !.pc = "answered", !.answer = answer, !.project = project]]

Reject(p) ==
  /\ posts[p].pc = "sent" /\ posts[p].name \in Unacceptable
  /\ Answered(p, "refused", NoPost)
  /\ UNCHANGED <<session, attempt, lock, projects, creations>>

Free(request) == lock[request] = NoPost

LockRequest(p) ==
  /\ posts[p].pc = "sent" /\ posts[p].name \notin Unacceptable
  /\ Free(posts[p].request)
  /\ posts' = [posts EXCEPT ![p].pc = "locked"]
  /\ lock' = [lock EXCEPT ![posts[p].request] = p]
  /\ UNCHANGED <<session, attempt, projects, creations>>

SamePayload(p, prior) == posts[p].name = prior.name

Replay(p) ==
  /\ posts[p].pc = "locked"
  /\ \E prior \in Prior(p) :
       IF SamePayload(p, prior) THEN Answered(p, "created", prior.project)
                                ELSE Answered(p, "refused", NoPost)
  /\ Unlock(p)
  /\ UNCHANGED <<session, attempt, projects, creations>>

Begin(p) ==
  /\ posts[p].pc = "locked" /\ Prior(p) = {}
  /\ posts' = [posts EXCEPT ![p].pc = "creating"]
  /\ UNCHANGED <<session, attempt, lock, projects, creations>>

(* Group, project, creator and request commit together, or the unique key  *)
(* (actor_id, request_id) refuses them all with a 409.                     *)
Commit(p) ==
  /\ posts[p].pc = "creating"
  /\ IF Prior(p) = {}
     THEN /\ projects' = projects \cup {[id |-> p, name |-> posts[p].name]}
          /\ creations' = creations \cup
               {[request |-> posts[p].request, name |-> posts[p].name, project |-> p]}
          /\ Answered(p, "created", p)
     ELSE /\ Answered(p, "refused", NoPost)
          /\ UNCHANGED <<projects, creations>>
  /\ Unlock(p)
  /\ UNCHANGED <<session, attempt>>

(* A 5xx, the process or the database away, or a 403: the creator has left *)
(* the project or the group meanwhile.                                     *)
Fails(p) ==
  /\ posts[p].pc \in {"sent", "locked", "creating"}
  /\ Answered(p, "failed", NoPost)
  /\ Unlock(p)
  /\ UNCHANGED <<session, attempt, projects, creations>>

----------------------------------------------------------------------------
CreationNext ==
  \/ \E p \in Posts :
       \/ PagePosts(p) \/ Receive(p) \/ AnswerLost(p)
       \/ \E name \in Names, request \in ScriptRequests : ScriptPosts(p, name, request)
       \/ Reject(p) \/ LockRequest(p) \/ Replay(p) \/ Begin(p) \/ Commit(p) \/ Fails(p)
  \/ OpenProject \/ SessionEnds \/ Reload

CreationSpec == CreationInit /\ [][CreationNext]_creationVars

----------------------------------------------------------------------------
(* However often an answer is lost and the request checked again, what a   *)
(* user set out to create in one session exists at most once.              *)
OneProjectPerIntent ==
  \A p, q \in projects :
    posts[p.id].intent # NoPost /\ posts[p.id].intent = posts[q.id].intent => p = q

(* A refusal the page takes for definitive is one: nothing was created     *)
(* under that request, though an earlier POST of it may still run.         *)
RefusedMeansNothingMade ==
  attempt.state = "refused" => \A c \in creations : c.request # attempt.request

(* A request id answers for one payload: who is told "created" gets a      *)
(* project of the name that was asked for.                                 *)
AnswerIsWhatWasAsked ==
  \A p \in Posts :
    posts[p].answer = "created" => [id |-> posts[p].project, name |-> posts[p].name] \in projects

(* Repeating a request never changes its outcome: two definitive answers   *)
(* to one request id and payload are the same answer.                      *)
RepeatsAgree ==
  \A p, q \in Posts :
    /\ posts[p].request = posts[q].request /\ posts[p].name = posts[q].name
    /\ {posts[p].answer, posts[q].answer} \subseteq {"created", "refused"}
    => posts[p].answer = posts[q].answer /\ posts[p].project = posts[q].project
=============================================================================
