---------------------------------- MODULE List ----------------------------------
(***************************************************************************)
(* tsl/list.h: circular doubly linked lists with a head.  The links of all *)
(* entries are a record of two functions; each operation gives the links   *)
(* after its stores, made in the order of the C code.                      *)
(***************************************************************************)
EXTENDS Naturals

CONSTANTS LIST_POISON_NEXT, LIST_POISON_PREV

\* One store through a pointer.
SetNext(links, e, to) == [links EXCEPT !.next[e] = to]
SetPrev(links, e, to) == [links EXCEPT !.prev[e] = to]

\* list_init of every entry of news: each points to itself.
list_init(links, news) ==
    LET Own(f) == [e \in DOMAIN f |-> IF e \in news THEN e ELSE f[e]]
    IN  [next |-> Own(links.next), prev |-> Own(links.prev)]

\* Mutant: the entry behind the new one is not told of it.
AddOneWay(links, new, prev, next) ==
    LET a == SetNext(links, prev, new)
        b == SetPrev(a, new, prev)
    IN  SetNext(b, new, next)

__list_add(links, new, prev, next) ==
    LET a == SetNext(links, prev, new)
        b == SetPrev(a, new, prev)
        c == SetPrev(b, next, new)
    IN  SetNext(c, new, next)

list_append(links, head, new) == __list_add(links, new, links.prev[head], head)

__list_del(links, prev, next) == SetPrev(SetNext(links, prev, next), next, prev)

list_del(links, del) ==
    LET a == __list_del(links, links.prev[del], links.next[del])
        b == SetNext(a, del, LIST_POISON_NEXT)
    IN  SetPrev(b, del, LIST_POISON_PREV)

\* The entries a traversal of at most `bound` items meets, the head included:
\* list_for_each_type begins with the head's successor and ends when it is back
\* at the head.  A pointer that is no entry leads nowhere.
Walk(links, head, bound) ==
    LET at[i \in 0 .. bound] ==
            IF i = 0 THEN links.next[head]
            ELSE IF at[i - 1] \in DOMAIN links.next THEN links.next[at[i - 1]]
                 ELSE at[i - 1]
    IN  at
===============================================================================
