------------------------------ MODULE RenderBase ------------------------------
(* The TrueNAS rendering library as its users meet it: a template creates a *)
(* renderer from the values the user chose, makes a series of calls on it   *)
(* and asks for the compose file.  A call that raises RenderError ends the  *)
(* rendering, for templates cannot catch it; whatever state the renderer    *)
(* was left in is thrown away, so that the variables keep their old values. *)
(* The modules that extend this one hold one part of the library each.      *)
EXTENDS Naturals, FiniteSets, Sequences, SequencesExt

CONSTANTS
    Container,      \* names a template may give to containers
    ValuesChoice,   \* what the user may have entered
    HostChoice,     \* what may run beside the application
    TemplateKinds,  \* families of calls a template makes, to explore one at a time
    MaxCalls        \* bound on the calls of a template, constructors aside

VARIABLES
    phase,   \* "new", "building", "failed" or "rendered"
    names,   \* containers added so far
    values,  \* the user's input, with the features the library reads by itself
    host,    \* TrueNAS and Docker: taken ports, existing networks
    kinds,   \* the families of calls this template makes
    calls    \* calls made

baseVars == <<phase, names, values, host, kinds, calls>>

BaseInit ==
    /\ phase = "new"
    /\ names = {}
    /\ values \in ValuesChoice
    /\ host \in HostChoice
    /\ kinds \in TemplateKinds
    /\ calls = 0

\* The template makes a call of a family, on the renderer or on a container.
Calling(kind) ==
    /\ phase = "building"
    /\ kind \in kinds
    /\ calls < MaxCalls
    /\ calls' = calls + 1
    /\ UNCHANGED <<names, values, host, kinds>>

CallingOn(kind, c) == c \in names /\ Calling(kind)

\* The call returns, or raises RenderError.
Return == phase' = "building"
Raise  == phase' = "failed"
=============================================================================
