CONSTANTS
  cam1 = cam1
  phone1 = phone1
  phone2 = phone2
  Nobody = Nobody
  Cams = {cam1}
  Inputs <- TwiceShown
  Conns = {phone1, phone2}
  CamOf <- PhoneOf
  MaxStarts = 2
SPECIFICATION FairTallySpec
INVARIANTS
  TallyTypeOK
  ConnectionsAgree
  LightIsCurrent
PROPERTIES
  StopEndsPolling
