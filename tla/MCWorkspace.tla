------------------------------ MODULE MCWorkspace ------------------------------
(* Instances of Workspace for TLC. *)
EXTENDS Workspace, TLC

CONSTANTS c1, c2

TwoClients == {c1, c2}

\* /work with an Odoo checkout, an OCA repository and code of one's own, in the
\* order of their paths: 1 /work, 2 the checkout, 3 its addons, 4 oca-web, 5 own,
\* 6 .git of the checkout.
Tree  == 1 .. 6
Up    == [f \in Tree \cup {0} |-> CASE f \in {0, 1} -> 0 [] f \in {2, 4, 5} -> 1 [] OTHER -> 2]
Signs == [f \in Tree \cup {0} |-> CASE f = 2 -> {"checkout", "package"} [] f = 4 -> {"oca"}
                                  [] f = 6 -> {"hidden"} [] OTHER -> {}]
Module(n, deps) == [name |-> n, depends |-> deps]
Code  == [f \in Tree |-> CASE f = 3 -> {Module(1, {}), Module(2, {1}), Module(3, {1, 2})}
                           [] f = 4 -> {Module(2, {3}), Module(3, {9})}
                           [] f = 5 -> {Module(1, {1}), Module(3, {2}), Module(4, Broken)}
                           [] f = 6 -> {Module(5, {})}
                           [] OTHER -> {}]

Known == {4, 5, 7}  \* 7 is not there
Name(up)      == [label |-> "acme", upper |-> up]
Host(up, end) == [label |-> "acme", upper |-> up, suffix |-> end]
TwoNames      == {Name(FALSE), Name(TRUE)}
TwoDomains    == {Host(FALSE, "localhost"), Host(TRUE, "test")}
ThreeHosts    == {Host(FALSE, "localhost"), Host(FALSE, "test"), Host(FALSE, "")}

Server(p, port, k) == [project |-> p, port |-> port, cluster |-> k]
Source(f, r)  == [server |-> 1, path |-> f, kind |-> "Private", rank |-> r, by |-> 0]
Empty         == [projects |-> {}, servers |-> <<>>, sources |-> <<>>, databases |-> <<>>, clusters |-> 0]
\* Two Odoos of one project on the same port, and one from before there were projects.
Busy          == [projects |-> {1},
                  servers |-> <<Server(1, 1, 1), Server(1, 1, 1), Server(0, 2, 2)>>,
                  sources |-> <<Source(5, 0), Source(3, 1)>>,
                  databases |-> <<[id |-> 1, name |-> Name(FALSE), server |-> 1, domain |-> NoHost],
                                  [id |-> 2, name |-> Name(TRUE), server |-> 3, domain |-> NoHost]>>,
                  clusters |-> 2]
Start         == {Empty, Busy}
OnePort       == {1}
All           == {"project", "move", "server", "duplicate", "source", "adopt", "database", "drop",
                  "domain"}
AnyOrder      == Permutations(Clients)
===============================================================================
