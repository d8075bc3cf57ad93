------------------------------ MODULE MCBrLite ------------------------------
(* Instances of BrLite for TLC.                                                *)
EXTENDS BrLite

All == [svc |-> "ALL", target |-> <<0, 0>>]
To(r) == [svc |-> "TARGET", target |-> r]

\* Two routers at the corners of a square send two messages each, one of them as soon
\* as it can, the other at any time; the kernel of a third router reads its buffer.
CornersOutgoing ==
  [r \in Routers |-> IF r = <<0, 0>> THEN <<All, To(<<1, 1>>)>>
                      ELSE IF r = <<1, 1>> THEN <<All, All>> ELSE <<>>]
CornersPrompt == {<<0, 0>>}
CornersPoppers == {<<1, 0>>}

\* In a row of four the two in the middle send at once, the outer ones at any time.
RowOutgoing == [r \in Routers |-> <<All>>]
RowPrompt == {<<1, 0>>, <<2, 0>>}
=============================================================================
