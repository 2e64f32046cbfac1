CONSTANTS
  Vertex <- VertexMC
  Edge <- Pairs
  Src <- SrcMC
  Dst <- DstMC
  Root = Root
  NumSrc = 0
  Scale = 16
SPECIFICATION Spec
INVARIANTS PushedOnce LevelsExact CountsExact CentralityExact
