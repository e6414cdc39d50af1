SPECIFICATION Spec
CONSTANTS
  Thread = {root, trojan, spy}
  Root = root
  Trojan = trojan
  Spy = spy
  Endpoint = {trojanEp, spyEp, synEp}
  t_ep = trojanEp
  s_ep = spyEp
  syn_ep = synEp
  Idle = Idle
  NoLabel = NoLabel
  Slice = 7
  DataPoints = 3
  Warmups = 1
  Family <- BranchPredictor
  Units = 3
  Unset = NoLabel
PROPERTIES FreshSecret
